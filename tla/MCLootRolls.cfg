CONSTANTS
    ann = ann
    ben = ben
    cid = cid
    wolf = wolf
    bear = bear
    sword = sword
    cloth = cloth
    ring = ring
    Players <- Three
    Nobody = Nobody
    Corpses <- Beasts
    Items <- Drops
    CorpseOf <- DropOf
    Rare <- Rares
    NoRoll = NoRoll
    MaxChanges = 2
SPECIFICATION Spec
SYMMETRY AnyPlayer
INVARIANTS
    TypeOK
    LootAddsUp
    RollsHoldItems
PROPERTIES
    RollsAreFair
