---------------------------- MODULE LootRollsProofs ----------------------------
(***************************************************************************)
(* Proofs about the rolls of a group, for any finite sets of players and   *)
(* items that fit the 8 bits of the counters, and any set of corpses.      *)
(***************************************************************************)
EXTENDS LootRolls, FiniteSetTheorems, TLAPS

Wanting == {"greed", "disenchant"}

\* As long as nobody votes twice, the sums of a roll are the numbers of its voters, whoever left
\* and came back.
Tally(r) ==
    /\ r.playersRolling = Cardinality(Voting(r))
    /\ r.pass  = Cardinality(Voters(r, {"pass"}))
    /\ r.need  = Cardinality(Voters(r, {"need"}))
    /\ r.greed = Cardinality(Voters(r, Wanting))

\* In any case each voter is counted, and not more votes than the sums can hold.
Covers(r) ==
    /\ r.playersRolling = Cardinality(Voting(r))
    /\ Cardinality(Voters(r, {"pass"})) <= r.pass
    /\ Cardinality(Voters(r, {"need"})) <= r.need
    /\ Cardinality(Voters(r, Wanting)) <= r.greed
    /\ Counted(r) <= Cardinality(Players)

Sound(i, r, again) == Covers(r) /\ (i \notin again => Tally(r))

TalliesMatchVotes == \A i \in Items : roll[i] # NoRoll => Sound(i, roll[i], repeated)

\* The loot of a corpse that is gone, was not opened yet, or was cleared.
UntouchedLoot ==
    \A c \in Corpses :
      /\ corpse[c] \in {"gone", "empty"} => unlooted[c] = 0
      /\ corpse[c] # "open" => \A i \in ItemsOf(c) : item[i] = "free" /\ owner[i] = Nobody

\* RollId is cleared when the group disbands.
RollsNeedAGroup == group = {} => \A i \in Items : roll[i] = NoRoll

LootInv ==
    TypeOK /\ LootAddsUp /\ RollsHoldItems /\ TalliesMatchVotes /\ UntouchedLoot /\ RollsNeedAGroup

-----------------------------------------------------------------------------
(* Counting. *)

LEMMA LessIsOneLess ==
    ASSUME NEW n \in 1 .. 255 PROVE Less(n) = n - 1
  BY SMT DEF Less

LEMMA LessBy ==
    ASSUME NEW n \in 0 .. 255, NEW k \in 0 .. n PROVE (n + 256 - k) % 256 = n - k
  BY SMT

LEMMA VotersFinite ==
    ASSUME NEW r, NEW votes
    PROVE  /\ Voters(r, votes) \subseteq Players /\ IsFiniteSet(Voters(r, votes))
           /\ Cardinality(Voters(r, votes)) \in Sums /\ Cardinality(Players) \in 0 .. 254
  <1>1. Voters(r, votes) \in SUBSET Players
    BY DEF Voters
  <1>2. IsFiniteSet(Players) /\ Cardinality(Players) \in Nat /\ Cardinality(Players) < 255
    BY FitsUint8, FS_CardinalityType
  <1>3. IsFiniteSet(Voters(r, votes)) /\ Cardinality(Voters(r, votes)) <= Cardinality(Players)
    BY <1>1, <1>2, FS_Subset
  <1>4. Cardinality(Voters(r, votes)) \in Nat
    BY <1>3, FS_CardinalityType
  <1> QED BY <1>1, <1>2, <1>3, <1>4 DEF Sums

LEMMA ItemsFinite ==
    ASSUME NEW S, S \subseteq Items
    PROVE  /\ IsFiniteSet(S) /\ Cardinality(S) \in 0 .. Cardinality(Items)
           /\ Cardinality(Items) \in 0 .. 255
  <1>1. S \in SUBSET Items
    OBVIOUS
  <1>2. IsFiniteSet(Items) /\ Cardinality(Items) \in Nat /\ Cardinality(Items) < 256
    BY FitsUint8, FS_CardinalityType
  <1>3. IsFiniteSet(S) /\ Cardinality(S) <= Cardinality(Items)
    BY <1>1, <1>2, FS_Subset
  <1>4. Cardinality(S) \in Nat
    BY <1>3, FS_CardinalityType
  <1> QED BY <1>2, <1>3, <1>4

\* A roll whose sums are right has sums that fit.
LEMMA TallyTyped ==
    ASSUME NEW r, r.vote \in [Players -> Votes], Tally(r),
           r = [vote |-> r.vote, playersRolling |-> r.playersRolling, need |-> r.need,
                greed |-> r.greed, pass |-> r.pass]
    PROVE  r \in Rolls
  <1>1. /\ r.playersRolling \in Sums /\ r.need \in Sums /\ r.greed \in Sums /\ r.pass \in Sums
    BY VotersFinite DEF Tally, Voting
  <1> QED BY <1>1 DEF Rolls

\* Each player who may vote is undecided or made one choice.
LEMMA VotesAddUp ==
    ASSUME NEW r, r.vote \in [Players -> Votes]
    PROVE  Cardinality(Voting(r)) =
             Cardinality(Voters(r, {"pass"})) + Cardinality(Voters(r, {"need"}))
               + Cardinality(Voters(r, Wanting)) + Cardinality(Undecided(r))
  <1> DEFINE P == Voters(r, {"pass"})
             N == Voters(r, {"need"})
             G == Voters(r, Wanting)
             U == Voters(r, {"not_emited_yet"})
  <1>1. /\ IsFiniteSet(P) /\ IsFiniteSet(N) /\ IsFiniteSet(G) /\ IsFiniteSet(U)
        /\ IsFiniteSet(Voting(r))
    BY VotersFinite DEF Voting
  <1>2. P \cap N = {} /\ (P \cup N) \cap G = {} /\ (P \cup N \cup G) \cap U = {}
    BY DEF Voters, Wanting
  <1>3. Voting(r) = P \cup N \cup G \cup U
    BY DEF Voting, Voters, Votes, Choices, Wanting
  <1>4. IsFiniteSet(P \cup N) /\ Cardinality(P \cup N) = Cardinality(P) + Cardinality(N)
    <2>1. Cardinality(P) \in Nat /\ Cardinality(N) \in Nat
      BY <1>1, FS_CardinalityType
    <2> QED BY <1>1, <1>2, <2>1, FS_Union, FS_EmptySet
  <1>5. IsFiniteSet(P \cup N \cup G) /\ Cardinality(P \cup N \cup G) = Cardinality(P \cup N) + Cardinality(G)
    <2>1. Cardinality(P \cup N) \in Nat /\ Cardinality(G) \in Nat
      BY <1>1, <1>4, FS_CardinalityType
    <2>2. Cardinality((P \cup N) \cap G) = 0
      BY <1>2, FS_EmptySet
    <2> HIDE DEF P, N, G, U
    <2>3. /\ IsFiniteSet((P \cup N) \cup G)
          /\ Cardinality((P \cup N) \cup G)
                = Cardinality(P \cup N) + Cardinality(G) - Cardinality((P \cup N) \cap G)
      BY <1>1, <1>4, FS_Union, Zenon
    <2> QED BY <2>1, <2>2, <2>3
  <1>6. Cardinality(Voting(r)) = Cardinality(P \cup N \cup G) + Cardinality(U)
    <2>1. Cardinality(P \cup N \cup G) \in Nat /\ Cardinality(U) \in Nat
      BY <1>1, <1>5, FS_CardinalityType
    <2>2. Cardinality((P \cup N \cup G) \cap U) = 0
      BY <1>2, FS_EmptySet
    <2> HIDE DEF P, N, G, U
    <2>3. Cardinality((P \cup N \cup G) \cup U)
            = Cardinality(P \cup N \cup G) + Cardinality(U) - Cardinality((P \cup N \cup G) \cap U)
      BY <1>1, <1>5, FS_Union, Zenon
    <2> QED BY <1>3, <2>1, <2>2, <2>3
  <1>7. /\ Cardinality(P) \in Nat /\ Cardinality(N) \in Nat /\ Cardinality(G) \in Nat
        /\ Cardinality(U) \in Nat
    BY <1>1, FS_CardinalityType
  <1>8. Cardinality(Voting(r)) = Cardinality(P) + Cardinality(N) + Cardinality(G) + Cardinality(U)
    <2> HIDE DEF P, N, G, U
    <2> QED BY <1>4, <1>5, <1>6, <1>7
  <1> QED BY <1>8 DEF Undecided

\* When as many votes as players are counted, nobody is undecided.
LEMMA NobodyUndecided ==
    ASSUME NEW r \in Rolls, Tally(r), AllVoted(r)
    PROVE  Undecided(r) = {}
  <1>1. IsFiniteSet(Undecided(r)) /\ Cardinality(Undecided(r)) \in Nat
    BY VotersFinite DEF Undecided, Sums
  <1>2. r.playersRolling = r.pass + r.need + r.greed + Cardinality(Undecided(r))
    BY VotesAddUp DEF Tally, Rolls
  <1>3. r.pass \in Nat /\ r.need \in Nat /\ r.greed \in Nat
    BY DEF Rolls, Sums
  <1>4. Cardinality(Undecided(r)) = 0
    BY <1>1, <1>2, <1>3 DEF AllVoted
  <1> QED BY <1>1, <1>4, FS_EmptySet

LEMMA TallyCovers ==
    ASSUME NEW r \in Rolls, Tally(r) PROVE Covers(r)
  <1>1. Cardinality(Undecided(r)) \in Nat /\ Cardinality(Players) \in Nat
    BY VotersFinite DEF Undecided, Sums
  <1>2. r.playersRolling = r.pass + r.need + r.greed + Cardinality(Undecided(r))
    BY VotesAddUp DEF Tally, Rolls
  <1>3. /\ r.pass \in Nat /\ r.need \in Nat /\ r.greed \in Nat /\ r.playersRolling \in Nat
        /\ r.playersRolling <= Cardinality(Players)
    BY <1>1 DEF Rolls, Sums
  <1>4. Counted(r) <= Cardinality(Players)
    BY <1>1, <1>2, <1>3 DEF Counted
  <1> QED BY <1>3, <1>4 DEF Tally, Covers

-----------------------------------------------------------------------------
(* The three ways in which a roll changes keep its sums right. *)

LEMMA NewRollTally ==
    ASSUME NEW near \in SUBSET Players, NEW passing \in SUBSET near
    PROVE  /\ NewRoll(near, passing) \in Rolls /\ Tally(NewRoll(near, passing))
           /\ Covers(NewRoll(near, passing))
  <1> DEFINE r == NewRoll(near, passing)
  <1>1. /\ r.vote = [p \in Players |-> IF p \in passing THEN "pass"
                                      ELSE IF p \in near THEN "not_emited_yet" ELSE "not_valid"]
        /\ r.playersRolling = Cardinality(near) /\ r.pass = Cardinality(passing)
        /\ r.need = 0 /\ r.greed = 0
        /\ r = [vote |-> r.vote, playersRolling |-> r.playersRolling, need |-> r.need,
                greed |-> r.greed, pass |-> r.pass]
    BY DEF NewRoll
  <1>2. r.vote \in [Players -> Votes]
    BY <1>1 DEF Votes, Choices
  <1> HIDE DEF r
  <1>3. /\ Voting(r) = near /\ Voters(r, {"pass"}) = passing
        /\ Voters(r, {"need"}) = {} /\ Voters(r, Wanting) = {}
    BY <1>1 DEF Voting, Voters, Votes, Choices, Wanting
  <1>4. Tally(r)
    BY <1>1, <1>3, FS_EmptySet DEF Tally
  <1>5. r \in Rolls
    BY <1>1, <1>2, <1>4, TallyTyped
  <1> QED BY <1>4, <1>5, TallyCovers DEF r

LEMMA VotedTally ==
    ASSUME NEW r \in Rolls, Tally(r), NEW p \in Players, r.vote[p] = "not_emited_yet",
           NEW choice \in Choices
    PROVE  /\ Voted(r, p, choice) \in Rolls /\ Tally(Voted(r, p, choice))
           /\ Voted(r, p, choice).vote = [r.vote EXCEPT ![p] = choice]
  <1> DEFINE s == Voted(r, p, choice)
             One(votes) == IF choice \in votes THEN 1 ELSE 0
  <1>1. /\ s.vote = [r.vote EXCEPT ![p] = choice]
        /\ s.playersRolling = r.playersRolling
        /\ s.pass = r.pass + One({"pass"}) /\ s.need = r.need + One({"need"})
        /\ s.greed = r.greed + One(Wanting)
        /\ s = [vote |-> s.vote, playersRolling |-> s.playersRolling, need |-> s.need,
                greed |-> s.greed, pass |-> s.pass]
    BY DEF Voted, Wanting
  <1>2. s.vote \in [Players -> Votes]
    BY <1>1 DEF Rolls, Votes
  <1> HIDE DEF s
  <1>3. Voting(s) = Voting(r)
    BY <1>1 DEF Voting, Voters, Votes, Choices, Rolls
  <1>4. ASSUME NEW votes \in {{"pass"}, {"need"}, Wanting}
        PROVE  Cardinality(Voters(s, votes)) = Cardinality(Voters(r, votes)) + One(votes)
    <2>1. p \notin Voters(r, votes)
      BY DEF Voters, Wanting
    <2>2. Voters(s, votes) = IF choice \in votes THEN Voters(r, votes) \cup {p} ELSE Voters(r, votes)
      BY <1>1, <2>1 DEF Voters, Rolls
    <2>3. Cardinality(Voters(r, votes) \cup {p}) = Cardinality(Voters(r, votes)) + 1
      BY <2>1, VotersFinite, FS_AddElement
    <2>4. Cardinality(Voters(r, votes)) \in Nat
      BY VotersFinite DEF Sums
    <2> QED BY <2>2, <2>3, <2>4
  <1>5. Tally(s)
    BY <1>1, <1>3, <1>4 DEF Tally
  <1> QED BY <1>1, <1>2, <1>5, TallyTyped DEF s

\* What a vote does to the sums, a repeated one too: the choice gains one vote, and at most one voter.
LEMMA VotedCovers ==
    ASSUME NEW r \in Rolls, Covers(r), NEW p \in Players, r.vote[p] # "not_valid",
           NEW choice \in Choices
    PROVE  /\ Voting(Voted(r, p, choice)) = Voting(r)
           /\ Counted(Voted(r, p, choice)) = Counted(r) + 1
           /\ Voted(r, p, choice).vote = [r.vote EXCEPT ![p] = choice]
           /\ ~AllVoted(Voted(r, p, choice)) =>
                Voted(r, p, choice) \in Rolls /\ Covers(Voted(r, p, choice))
  <1> DEFINE s == Voted(r, p, choice)
             One(votes) == IF choice \in votes THEN 1 ELSE 0
  <1>1. /\ s.vote = [r.vote EXCEPT ![p] = choice]
        /\ s.playersRolling = r.playersRolling
        /\ s.pass = r.pass + One({"pass"}) /\ s.need = r.need + One({"need"})
        /\ s.greed = r.greed + One(Wanting)
        /\ s = [vote |-> s.vote, playersRolling |-> s.playersRolling, need |-> s.need,
                greed |-> s.greed, pass |-> s.pass]
    BY DEF Voted, Wanting
  <1>2. s.vote \in [Players -> Votes]
    BY <1>1 DEF Rolls, Votes
  <1> HIDE DEF s
  <1>3. Voting(s) = Voting(r)
    BY <1>1 DEF Voting, Voters, Votes, Choices, Rolls
  <1>4. ASSUME NEW votes \in {{"pass"}, {"need"}, Wanting}
        PROVE  Cardinality(Voters(s, votes)) <= Cardinality(Voters(r, votes)) + One(votes)
    <2> DEFINE V == Voters(r, votes)
               W == Voters(s, votes)
    <2>1. W \subseteq (IF choice \in votes THEN V \cup {p} ELSE V)
      BY <1>1 DEF Voters, Rolls
    <2>2. IsFiniteSet(V) /\ Cardinality(V) \in Nat /\ Cardinality(W) \in Nat
      BY VotersFinite DEF Sums
    <2> HIDE DEF V, W
    <2>3. IsFiniteSet(V \cup {p}) /\ Cardinality(V \cup {p}) \in Nat
           /\ Cardinality(V \cup {p}) <= Cardinality(V) + 1
      <3>1. CASE p \in V
        <4>1. V \cup {p} = V
          BY <3>1
        <4>2. Cardinality(V) <= Cardinality(V) + 1
          BY <2>2
        <4> QED BY <2>2, <4>1, <4>2, Zenon
      <3>2. CASE p \notin V
        BY <2>2, <3>2, FS_AddElement
      <3> QED BY <3>1, <3>2
    <2>4. CASE choice \in votes
      <3>1. Cardinality(W) <= Cardinality(V \cup {p})
        BY <2>1, <2>3, <2>4, FS_Subset
      <3> QED BY <2>2, <2>3, <2>4, <3>1 DEF V, W
    <2>5. CASE choice \notin votes
      <3>1. Cardinality(W) <= Cardinality(V)
        BY <2>1, <2>2, <2>5, FS_Subset
      <3> QED BY <2>2, <2>5, <3>1 DEF V, W
    <2> QED BY <2>4, <2>5
  <1>5. One({"pass"}) + One({"need"}) + One(Wanting) = 1
    BY DEF Choices, Wanting
  <1>6. /\ r.pass \in Nat /\ r.need \in Nat /\ r.greed \in Nat
        /\ Cardinality(Voting(r)) \in Nat /\ Cardinality(Players) \in Nat
        /\ Cardinality(Voting(r)) <= Cardinality(Players)
    BY VotersFinite DEF Rolls, Sums, Voting
  <1>7. Counted(s) = Counted(r) + 1
    BY <1>1, <1>5, <1>6 DEF Counted
  <1>8. ASSUME ~AllVoted(s) PROVE s \in Rolls /\ Covers(s)
    <2>1. /\ s.pass \in Nat /\ s.need \in Nat /\ s.greed \in Nat
          /\ s.playersRolling = Cardinality(Voting(s))
      BY <1>1, <1>3, <1>6 DEF Covers
    <2>2. Counted(s) <= Cardinality(Players)
      BY <1>3, <1>6, <1>8, <2>1 DEF AllVoted, Counted
    <2>3. s.pass \in Sums /\ s.need \in Sums /\ s.greed \in Sums /\ s.playersRolling \in Sums
      BY <1>3, <1>6, <2>1, <2>2 DEF Counted, Sums
    <2>4. ASSUME NEW votes \in {{"pass"}, {"need"}, Wanting}
          PROVE  Cardinality(Voters(s, votes)) \in Nat /\ Cardinality(Voters(r, votes)) \in Nat
      BY VotersFinite DEF Sums
    <2>5. /\ Cardinality(Voters(s, {"pass"})) <= s.pass
          /\ Cardinality(Voters(s, {"need"})) <= s.need
          /\ Cardinality(Voters(s, Wanting)) <= s.greed
      <3>1. Cardinality(Voters(s, {"pass"})) <= s.pass
        BY <1>1, <1>4, <1>6, <2>4 DEF Covers
      <3>2. Cardinality(Voters(s, {"need"})) <= s.need
        BY <1>1, <1>4, <1>6, <2>4 DEF Covers
      <3>3. Cardinality(Voters(s, Wanting)) <= s.greed
        BY <1>1, <1>4, <1>6, <2>4 DEF Covers
      <3> QED BY <3>1, <3>2, <3>3
    <2> QED BY <1>1, <1>2, <2>1, <2>2, <2>3, <2>5 DEF Covers, Rolls
  <1> QED BY <1>1, <1>3, <1>7, <1>8 DEF s

LEMMA WithoutVoterTally ==
    ASSUME NEW r \in Rolls, Tally(r), NEW p \in Players
    PROVE  WithoutVoter(r, p) \in Rolls /\ Tally(WithoutVoter(r, p))
  <1>1. CASE r.vote[p] = "not_valid"
    BY <1>1 DEF WithoutVoter
  <1>2. CASE r.vote[p] # "not_valid"
    <2> DEFINE s == WithoutVoter(r, p)
               Lowered(sum, votes) == IF r.vote[p] \in votes THEN Less(sum) ELSE sum
    <2>1. /\ s.vote = [r.vote EXCEPT ![p] = "not_valid"]
          /\ s.playersRolling = Less(r.playersRolling)
          /\ s.pass = Lowered(r.pass, {"pass"}) /\ s.need = Lowered(r.need, {"need"})
          /\ s.greed = Lowered(r.greed, Wanting)
          /\ s = [vote |-> s.vote, playersRolling |-> s.playersRolling, need |-> s.need,
                  greed |-> s.greed, pass |-> s.pass]
      BY <1>2 DEF WithoutVoter, Rolls, Wanting
    <2>2. s.vote \in [Players -> Votes]
      BY <2>1 DEF Rolls, Votes
    <2> HIDE DEF s
    <2>3. ASSUME NEW votes, "not_valid" \notin votes
          PROVE  Cardinality(Voters(s, votes)) = Lowered(Cardinality(Voters(r, votes)), votes)
      <3>1. Voters(s, votes) = Voters(r, votes) \ {p}
        BY <2>1, <2>3 DEF Voters, Rolls
      <3>2. Cardinality(Voters(s, votes)) =
              IF r.vote[p] \in votes THEN Cardinality(Voters(r, votes)) - 1
                                     ELSE Cardinality(Voters(r, votes))
        <4>1. p \in Voters(r, votes) <=> r.vote[p] \in votes
          BY DEF Voters
        <4> QED BY ZenonT(30), <3>1, <4>1, VotersFinite, FS_RemoveElement
      <3>3. /\ Cardinality(Voters(r, votes)) \in 0 .. 255
            /\ Cardinality(Voters(s, votes)) \in 0 .. 255
        BY VotersFinite DEF Sums
      <3> QED BY <3>2, <3>3, LessIsOneLess
    <2>4. r.vote[p] \in Votes \ {"not_valid"}
      BY <1>2 DEF Rolls
    <2>5. Cardinality(Voting(s)) = Less(Cardinality(Voting(r)))
      BY <2>3, <2>4 DEF Voting
    <2>6. Tally(s)
      BY <2>1, <2>3, <2>5 DEF Tally, Wanting
    <2> QED BY <2>1, <2>2, <2>6, TallyTyped DEF s
  <1> QED BY <1>1, <1>2

LEMMA WithoutVoterCovers ==
    ASSUME NEW r \in Rolls, Covers(r), NEW p \in Players
    PROVE  WithoutVoter(r, p) \in Rolls /\ Covers(WithoutVoter(r, p))
  <1>1. CASE r.vote[p] = "not_valid"
    BY <1>1 DEF WithoutVoter
  <1>2. CASE r.vote[p] # "not_valid"
    <2> DEFINE s == WithoutVoter(r, p)
               Lowered(sum, votes) == IF r.vote[p] \in votes THEN Less(sum) ELSE sum
    <2>1. /\ s.vote = [r.vote EXCEPT ![p] = "not_valid"]
          /\ s.playersRolling = Less(r.playersRolling)
          /\ s.pass = Lowered(r.pass, {"pass"}) /\ s.need = Lowered(r.need, {"need"})
          /\ s.greed = Lowered(r.greed, Wanting)
          /\ s = [vote |-> s.vote, playersRolling |-> s.playersRolling, need |-> s.need,
                  greed |-> s.greed, pass |-> s.pass]
      BY <1>2 DEF WithoutVoter, Rolls, Wanting
    <2>2. s.vote \in [Players -> Votes]
      BY <2>1 DEF Rolls, Votes
    <2> HIDE DEF s
    <2>3. ASSUME NEW votes, "not_valid" \notin votes
          PROVE  /\ Cardinality(Voters(s, votes)) =
                      IF r.vote[p] \in votes THEN Cardinality(Voters(r, votes)) - 1
                                             ELSE Cardinality(Voters(r, votes))
                 /\ Cardinality(Voters(r, votes)) \in 0 .. 254
                 /\ Cardinality(Voters(s, votes)) \in 0 .. 254
      <3>1. Voters(s, votes) = Voters(r, votes) \ {p}
        BY <2>1, <2>3 DEF Voters, Rolls
      <3>2. p \in Voters(r, votes) <=> r.vote[p] \in votes
        BY DEF Voters
      <3>3. /\ Cardinality(Voters(r, votes)) \in 0 .. 254
            /\ Cardinality(Voters(s, votes)) \in 0 .. 254
        BY VotersFinite DEF Sums
      <3>4. Cardinality(Voters(s, votes)) =
              IF r.vote[p] \in votes THEN Cardinality(Voters(r, votes)) - 1
                                     ELSE Cardinality(Voters(r, votes))
        BY ZenonT(30), <3>1, <3>2, VotersFinite, FS_RemoveElement
      <3> QED BY <3>3, <3>4
    <2>4. ASSUME NEW votes, "not_valid" \notin votes, NEW sum \in Sums,
                 Cardinality(Voters(r, votes)) <= sum
          PROVE  /\ Lowered(sum, votes) \in Sums /\ Lowered(sum, votes) <= sum
                 /\ Cardinality(Voters(s, votes)) <= Lowered(sum, votes)
      <3>1. sum \in 0 .. 254 /\ Cardinality(Players) \in 0 .. 254 /\ sum <= Cardinality(Players)
        BY VotersFinite DEF Sums
      <3>2. CASE r.vote[p] \in votes
        <4>1. Cardinality(Voters(s, votes)) = Cardinality(Voters(r, votes)) - 1
          BY <2>3, <2>4, <3>2
        <4>2. sum \in 1 .. 255
          BY <2>3, <2>4, <3>1, <4>1
        <4>3. Lowered(sum, votes) = sum - 1
          BY <3>2, <4>2, LessIsOneLess
        <4> HIDE DEF Lowered
        <4> QED BY <2>3, <2>4, <3>1, <4>1, <4>2, <4>3 DEF Sums
      <3>3. CASE r.vote[p] \notin votes
        BY <2>3, <2>4, <3>1, <3>3
      <3> QED BY <3>2, <3>3
    <2>5. r.vote[p] \in Votes \ {"not_valid"}
      BY <1>2 DEF Rolls
    <2>6. /\ r.pass \in Sums /\ r.need \in Sums /\ r.greed \in Sums /\ r.playersRolling \in Sums
          /\ Cardinality(Players) \in Nat
      BY VotersFinite DEF Rolls
    <2>7. s.pass \in Sums /\ s.pass <= r.pass /\ Cardinality(Voters(s, {"pass"})) <= s.pass
      BY <2>1, <2>4, <2>6 DEF Covers
    <2>8. s.need \in Sums /\ s.need <= r.need /\ Cardinality(Voters(s, {"need"})) <= s.need
      BY <2>1, <2>4, <2>6 DEF Covers
    <2>9. s.greed \in Sums /\ s.greed <= r.greed /\ Cardinality(Voters(s, Wanting)) <= s.greed
      BY <2>1, <2>4, <2>6 DEF Covers, Wanting
    <2>10. s.playersRolling \in Sums /\ s.playersRolling = Cardinality(Voting(s))
      <3>1. Cardinality(Voting(s)) = Cardinality(Voting(r)) - 1
        BY <2>3, <2>5 DEF Voting
      <3>2. Cardinality(Voting(r)) \in 0 .. 254 /\ Cardinality(Voting(s)) \in Sums
        BY VotersFinite DEF Voting, Sums
      <3>3. Cardinality(Voting(r)) \in 1 .. 255
        BY <3>1, <3>2 DEF Sums
      <3>4. s.playersRolling = Cardinality(Voting(r)) - 1
        BY <2>1, <3>3, LessIsOneLess DEF Covers
      <3> QED BY <3>1, <3>2, <3>4
    <2>11. Counted(s) <= Cardinality(Players)
      BY <2>6, <2>7, <2>8, <2>9 DEF Covers, Counted, Sums
    <2> QED BY <2>1, <2>2, <2>7, <2>8, <2>9, <2>10, <2>11 DEF Covers, Rolls, s
  <1> QED BY <1>1, <1>2

-----------------------------------------------------------------------------
(* The actions. *)

LEMMA CorpseOfType == CorpseOf \in [Items -> Corpses] /\ \A c : ItemsOf(c) \subseteq Items
  BY ItemsLie DEF ItemsOf

LEMMA InitLootInv == Init => LootInv
  <1> SUFFICES ASSUME Init PROVE LootInv
    OBVIOUS
  <1>1. 0 \in 0 .. Cardinality(Items) /\ 0 \in 0 .. MaxChanges
    BY ItemsFinite, Bounds
  <1>2. TypeOK
    BY <1>1 DEF Init, TypeOK
  <1>3. LootAddsUp /\ RollsHoldItems /\ TalliesMatchVotes
    BY DEF Init, LootAddsUp, RollsHoldItems, TalliesMatchVotes
  <1>4. UntouchedLoot /\ RollsNeedAGroup
    BY CorpseOfType DEF Init, UntouchedLoot, RollsNeedAGroup
  <1> QED BY <1>2, <1>3, <1>4 DEF LootInv

LEMMA TalliesStay ==
    ASSUME TalliesMatchVotes,
           \A i \in Items : \/ roll'[i] = NoRoll
                            \/ roll'[i] = roll[i] /\ (i \in repeated => i \in repeated')
                            \/ Sound(i, roll'[i], repeated')
    PROVE  TalliesMatchVotes'
  <1> SUFFICES ASSUME NEW i \in Items, roll'[i] # NoRoll PROVE Sound(i, roll'[i], repeated')
    BY DEF TalliesMatchVotes, Sound, Tally, Covers, Counted, Voting, Voters
  <1> QED BY DEF TalliesMatchVotes, Sound

\* What clears a loot takes its rolls and its flags away at once.
LEMMA ClearKeeps ==
    ASSUME LootInv, NEW c \in Corpses, NEW now \in {"gone", "empty"}, Clear(c),
           corpse' = [corpse EXCEPT ![c] = now], UNCHANGED <<group, connected, timer, changes>>
    PROVE  LootInv'
  <1> USE DEF LootInv
  <1>1. TypeOK'
    <2>1. 0 \in 0 .. Cardinality(Items)
      BY ItemsFinite
    <2> QED BY <2>1 DEF TypeOK, Clear
  <1>2. LootAddsUp'
    <2>1. ASSUME NEW d \in Corpses, d # c PROVE Left(d)' = Left(d) /\ unlooted'[d] = unlooted[d]
      BY <2>1, CorpseOfType DEF Left, ItemsOf, Clear, TypeOK
    <2>2. ASSUME NEW d \in Corpses, corpse'[d] \in {"fresh", "open"}
          PROVE  unlooted'[d] = Cardinality(Left(d)')
      <3>1. d # c /\ corpse[d] \in {"fresh", "open"}
        BY <2>2 DEF TypeOK
      <3> QED BY <2>1, <3>1 DEF LootAddsUp
    <2>3. ASSUME NEW i \in Items PROVE (item'[i] = "looted") <=> (owner'[i] # Nobody)
      BY DEF Clear, LootAddsUp, TypeOK
    <2> QED BY <2>2, <2>3 DEF LootAddsUp
  <1>3. RollsHoldItems'
    BY CorpseOfType DEF RollsHoldItems, Clear, TypeOK
  <1>4. TalliesMatchVotes' /\ RollsNeedAGroup'
    <2>1. \A i \in Items : \/ roll'[i] = NoRoll
                           \/ roll'[i] = roll[i] /\ (i \in repeated => i \in repeated')
      BY DEF Clear, ItemsOf
    <2> QED BY <2>1, TalliesStay DEF RollsNeedAGroup
  <1>5. UntouchedLoot'
    <2> SUFFICES ASSUME NEW d \in Corpses
                 PROVE  /\ corpse'[d] \in {"gone", "empty"} => unlooted'[d] = 0
                        /\ corpse'[d] # "open" =>
                             \A i \in ItemsOf(d) : item'[i] = "free" /\ owner'[i] = Nobody
      BY DEF UntouchedLoot, ItemsOf
    <2> QED BY CorpseOfType DEF UntouchedLoot, Clear, TypeOK, ItemsOf
  <1> QED BY <1>1, <1>2, <1>3, <1>4, <1>5

LEMMA KillKeeps ==
    ASSUME LootInv, NEW c \in Corpses, Kill(c) PROVE LootInv'
  <1> USE DEF LootInv, Kill
  <1>1. TypeOK'
    <2>1. Cardinality(ItemsOf(c)) \in 0 .. Cardinality(Items)
      BY ItemsFinite, CorpseOfType
    <2> QED BY <2>1 DEF TypeOK
  <1>2. LootAddsUp'
    <2>1. ASSUME NEW d \in Corpses PROVE Left(d)' = Left(d)
      BY DEF Left, ItemsOf
    <2>2. Left(c) = ItemsOf(c)
      BY DEF UntouchedLoot, Left
    <2>3. ASSUME NEW d \in Corpses, corpse'[d] \in {"fresh", "open"}
          PROVE  unlooted'[d] = Cardinality(Left(d)')
      BY <2>1, <2>2, <2>3 DEF LootAddsUp, TypeOK
    <2> QED BY <2>3 DEF LootAddsUp
  <1>3. RollsHoldItems'
    BY CorpseOfType DEF RollsHoldItems, TypeOK
  <1>4. TalliesMatchVotes' /\ RollsNeedAGroup'
    BY TalliesStay DEF RollsNeedAGroup
  <1>5. UntouchedLoot'
    BY DEF UntouchedLoot, TypeOK, ItemsOf
  <1> QED BY <1>1, <1>2, <1>3, <1>4, <1>5

\* What opening a corpse does: the items in `rolled' get a roll.
RollsBegin(c, rolled) ==
    /\ item' = [i \in Items |-> IF i \in rolled THEN "blocked" ELSE item[i]]
    /\ \A i \in rolled : roll'[i] \in Rolls /\ Sound(i, roll'[i], repeated')
    /\ \A i \in Items \ rolled : roll'[i] = roll[i]
    /\ roll' = [i \in Items |-> roll'[i]]
    /\ timer' = IF rolled = {} THEN timer ELSE timer \cup {c}
    /\ rolled # {} => group # {}

LEMMA SendLootKeeps ==
    ASSUME LootInv, NEW c \in Corpses, SendLoot(c) PROVE LootInv'
  <1> USE DEF LootInv
  <1>1. \A i \in ItemsOf(c) : item[i] = "free" /\ owner[i] = Nobody
    BY DEF UntouchedLoot, SendLoot
  <1>2. PICK rolled \in SUBSET (ItemsOf(c)) : RollsBegin(c, rolled)
    <2> USE DEF RollsBegin
    <2>1. CASE UNCHANGED <<roll, item, timer>>
      <3>1. /\ item' = [i \in Items |-> IF i \in {} THEN "blocked" ELSE item[i]]
            /\ roll' = [i \in Items |-> roll'[i]]
        BY <2>1 DEF TypeOK
      <3>2. {} \in SUBSET (ItemsOf(c)) /\ timer' = timer /\ \A i \in Items \ {} : roll'[i] = roll[i]
        BY <2>1
      <3> QED BY <3>1, <3>2
    <2>2. ASSUME NEW near \in SUBSET (group \cap connected), NEW passing \in SUBSET near,
                 group \cap connected # {}, GroupLoot(c, near, passing)
          PROVE  \E rolled \in SUBSET (ItemsOf(c)) : RollsBegin(c, rolled)
      <3>1. NewRoll(near, passing) \in Rolls /\ \A i, again : Sound(i, NewRoll(near, passing), again)
        BY NewRollTally DEF TypeOK, Sound
      <3> DEFINE rolled == IF near = {} THEN {} ELSE ItemsOf(c) \cap Rare
      <3>2. rolled \in SUBSET (ItemsOf(c)) /\ rolled \subseteq Items /\ (rolled # {} => group # {})
        BY <2>2 DEF ItemsOf
      <3>3. /\ item' = [i \in Items |-> IF i \in rolled THEN "blocked" ELSE item[i]]
            /\ roll' = [i \in Items |-> IF i \in rolled THEN NewRoll(near, passing) ELSE roll[i]]
            /\ timer' = IF rolled = {} THEN timer ELSE timer \cup {c}
        BY <2>2 DEF GroupLoot
      <3> HIDE DEF rolled
      <3>4. /\ \A i \in rolled : roll'[i] \in Rolls /\ Sound(i, roll'[i], repeated')
            /\ \A i \in Items \ rolled : roll'[i] = roll[i]
            /\ roll' = [i \in Items |-> roll'[i]]
        BY <3>1, <3>2, <3>3
      <3> QED BY <3>2, <3>3, <3>4
    <2> QED BY <2>1, <2>2 DEF SendLoot
  <1> USE <1>2 DEF RollsBegin
  <1>3. TypeOK'
    BY <1>2 DEF TypeOK, SendLoot
  <1>4. LootAddsUp'
    <2>1. ASSUME NEW d \in Corpses PROVE Left(d)' = Left(d)
      BY <1>1, <1>2 DEF Left, ItemsOf, TypeOK
    <2>2. ASSUME NEW d \in Corpses, corpse'[d] \in {"fresh", "open"}
          PROVE  unlooted'[d] = Cardinality(Left(d)')
      BY <2>1, <2>2 DEF LootAddsUp, TypeOK, SendLoot
    <2>3. ASSUME NEW i \in Items PROVE (item'[i] = "looted") <=> (owner'[i] # Nobody)
      BY <1>1, <1>2 DEF LootAddsUp, TypeOK, SendLoot
    <2> QED BY <2>2, <2>3 DEF LootAddsUp
  <1>5. RollsHoldItems'
    <2> SUFFICES ASSUME NEW i \in Items, roll'[i] # NoRoll
                 PROVE  item'[i] = "blocked" /\ corpse'[CorpseOf[i]] = "open" /\ CorpseOf[i] \in timer'
      BY DEF RollsHoldItems
    <2>1. CASE i \in rolled
      BY <1>2, <2>1, CorpseOfType DEF SendLoot, TypeOK, ItemsOf
    <2>2. CASE i \notin rolled
      BY <1>2, <2>2, CorpseOfType DEF SendLoot, TypeOK, RollsHoldItems
    <2> QED BY <2>1, <2>2
  <1>6. TalliesMatchVotes'
    <2>1. repeated' = repeated
      BY DEF SendLoot
    <2> QED BY <1>2, <2>1, TalliesStay
  <1>7. UntouchedLoot'
    <2>1. ASSUME NEW d \in Corpses, d # c, NEW i \in ItemsOf(d) PROVE item'[i] = item[i] /\ i \in Items
      BY <1>2, <2>1 DEF ItemsOf
    <2> QED BY <2>1 DEF UntouchedLoot, TypeOK, ItemsOf, SendLoot
  <1>8. RollsNeedAGroup'
    BY <1>2 DEF RollsNeedAGroup, SendLoot
  <1> QED BY <1>3, <1>4, <1>5, <1>6, <1>7, <1>8

LEMMA StoreLootItemKeeps ==
    ASSUME LootInv, NEW i \in Items, NEW p \in Players, StoreLootItem(i, p) PROVE LootInv'
  <1> USE DEF LootInv, StoreLootItem
  <1> DEFINE c == CorpseOf[i]
  <1>1. c \in Corpses /\ i \in ItemsOf(c)
    BY CorpseOfType DEF ItemsOf
  <1>2. /\ Left(c)' = Left(c) \ {i} /\ i \in Left(c)
        /\ \A d \in Corpses \ {c} : Left(d)' = Left(d)
    BY <1>1 DEF Left, ItemsOf, TypeOK
  <1>3. /\ unlooted[c] = Cardinality(Left(c)) /\ IsFiniteSet(Left(c))
        /\ unlooted[c] \in 0 .. Cardinality(Items) /\ Cardinality(Items) \in 0 .. 255
    <2>1. Left(c) \subseteq Items
      BY DEF Left, ItemsOf
    <2>2. unlooted[c] = Cardinality(Left(c))
      BY <1>1 DEF LootAddsUp
    <2> QED BY <2>1, <2>2, ItemsFinite
  <1>4. Cardinality(Left(c)') = unlooted[c] - 1 /\ unlooted[c] # 0
    <2> DEFINE L == Left(c)
    <2>1. IsFiniteSet(L) /\ i \in L /\ unlooted[c] = Cardinality(L) /\ Left(c)' = L \ {i}
      BY <1>2, <1>3
    <2> HIDE DEF L
    <2>2. Cardinality(L \ {i}) = Cardinality(L) - 1 /\ Cardinality(L) # 0
      BY <2>1, FS_RemoveElement, FS_EmptySet
    <2> QED BY <2>1, <2>2
  <1>5. Less(unlooted[c]) = unlooted[c] - 1 /\ unlooted[c] - 1 \in 0 .. Cardinality(Items)
    BY <1>3, <1>4, LessIsOneLess
  <1>6. TypeOK'
    BY <1>1, <1>5 DEF TypeOK
  <1>7. LootAddsUp'
    <2>1. ASSUME NEW d \in Corpses, corpse'[d] \in {"fresh", "open"}
          PROVE  unlooted'[d] = Cardinality(Left(d)')
      <3>1. CASE d = c
        BY <1>1, <1>4, <1>5, <3>1 DEF TypeOK
      <3>2. CASE d # c
        BY <1>2, <2>1, <3>2 DEF TypeOK, LootAddsUp
      <3> QED BY <3>1, <3>2
    <2>2. ASSUME NEW j \in Items PROVE (item'[j] = "looted") <=> (owner'[j] # Nobody)
      BY Absent DEF LootAddsUp, TypeOK
    <2> QED BY <2>1, <2>2 DEF LootAddsUp
  <1>8. RollsHoldItems' /\ RollsNeedAGroup'
    BY DEF RollsHoldItems, RollsNeedAGroup, TypeOK
  <1>9. TalliesMatchVotes'
    BY TalliesStay
  <1>10. UntouchedLoot'
    BY <1>1 DEF UntouchedLoot, TypeOK, ItemsOf
  <1> QED BY <1>6, <1>7, <1>8, <1>9, <1>10

\* What deciding rolls does: the items in `given' are handed out, the others of `decided' not.
RollsEnd(decided, given, final) ==
    /\ given \subseteq decided
    /\ item' \in [Items -> {"free", "blocked", "looted"}]
    /\ owner' \in [Items -> Players \cup {Nobody}]
    /\ \A i \in given : /\ item'[i] = "looted" /\ owner'[i] \in Players
                         /\ owner'[i] \in Winners(final[i])
                         /\ \E fits \in BOOLEAN : Outcome(final[i], owner'[i], fits) = "looted"
    /\ \A i \in decided \ given : item'[i] # "looted" /\ owner'[i] = owner[i]
    /\ \A i \in Items \ decided : item'[i] = item[i] /\ owner'[i] = owner[i]
    /\ unlooted' = [c \in Corpses |-> (unlooted[c] + 256 - Cardinality(given \cap ItemsOf(c))) % 256]
    /\ roll' = [i \in Items |-> IF i \in decided THEN NoRoll ELSE final[i]]

LEMMA CountEnds ==
    ASSUME TypeOK, NEW decided \in SUBSET Items, NEW final, CountTheRolls(decided, final)
    PROVE  \E given : RollsEnd(decided, given, final)
  <1>1. PICK won \in [decided -> Players \cup {Nobody}], fitting \in SUBSET decided :
          /\ item' = [i \in Items |-> IF i \in decided THEN Outcome(final[i], won[i], i \in fitting)
                                                      ELSE item[i]]
          /\ owner' = [i \in Items |->
                IF i \in {j \in decided : Outcome(final[j], won[j], j \in fitting) = "looted"}
                THEN won[i] ELSE owner[i]]
          /\ unlooted' = [c \in Corpses |->
                (unlooted[c] + 256 - Cardinality(
                   {j \in decided : Outcome(final[j], won[j], j \in fitting) = "looted"}
                     \cap ItemsOf(c))) % 256]
          /\ roll' = [i \in Items |-> IF i \in decided THEN NoRoll ELSE final[i]]
          /\ \A i \in decided : won[i] \in Winners(final[i])
    BY DEF CountTheRolls
  <1> DEFINE result(i) == Outcome(final[i], won[i], i \in fitting)
             given == {i \in decided : result(i) = "looted"}
  <1>2. \A i \in decided : /\ result(i) \in {"free", "blocked", "looted"}
                           /\ result(i) = "looted" => won[i] \in Players
    BY DEF Outcome, TypeOK
  <1>3. /\ item' = [i \in Items |-> IF i \in decided THEN result(i) ELSE item[i]]
        /\ owner' = [i \in Items |-> IF i \in given THEN won[i] ELSE owner[i]]
        /\ unlooted' = [c \in Corpses |-> (unlooted[c] + 256 - Cardinality(given \cap ItemsOf(c))) % 256]
    BY <1>1
  <1>4. ASSUME NEW i \in given PROVE \E fits \in BOOLEAN : Outcome(final[i], won[i], fits) = "looted"
    <2>1. (i \in fitting) \in BOOLEAN /\ Outcome(final[i], won[i], i \in fitting) = "looted"
      OBVIOUS
    <2> QED BY <2>1, Zenon
  <1> HIDE DEF result
  <1>5. \A i \in given : i \in decided /\ i \in Items /\ result(i) = "looted" /\ owner'[i] = won[i]
    BY <1>3
  <1> HIDE DEF given
  <1>6. \A i \in given : /\ item'[i] = "looted" /\ owner'[i] \in Players
                         /\ owner'[i] \in Winners(final[i])
                         /\ \E fits \in BOOLEAN : Outcome(final[i], owner'[i], fits) = "looted"
    BY <1>1, <1>2, <1>3, <1>4, <1>5
  <1>7. /\ \A i \in decided \ given : item'[i] # "looted" /\ owner'[i] = owner[i]
        /\ \A i \in Items \ decided : item'[i] = item[i] /\ owner'[i] = owner[i]
        /\ given \subseteq decided
    BY <1>3, <1>5 DEF given
  <1>8. item' \in [Items -> {"free", "blocked", "looted"}] /\ owner' \in [Items -> Players \cup {Nobody}]
    BY <1>2, <1>3, <1>5 DEF TypeOK
  <1> QED BY <1>1, <1>3, <1>6, <1>7, <1>8 DEF RollsEnd

LEMMA CountKeeps ==
    ASSUME LootInv, NEW decided \in SUBSET Items, NEW final,
           \A i \in Items \ decided : /\ final[i] = roll[i]
                                      /\ i \in repeated => i \in repeated',
           \A i \in decided : roll[i] # NoRoll,
           CountTheRolls(decided, final),
           \A i \in Items \ decided : final[i] # NoRoll => CorpseOf[i] \in timer',
           timer' \subseteq timer, UNCHANGED <<group, connected, corpse>>,
           repeated' \subseteq Items, changes' \in 0 .. MaxChanges
    PROVE  LootInv'
  <1> USE DEF LootInv
  <1>1. PICK given : RollsEnd(decided, given, final)
    BY CountEnds
  <1>2. \A i \in decided : item[i] = "blocked" /\ corpse[CorpseOf[i]] = "open"
    BY DEF RollsHoldItems
  <1>3. ASSUME NEW c \in Corpses, corpse[c] \in {"fresh", "open"}
        PROVE  unlooted'[c] = Cardinality(Left(c)') /\ unlooted'[c] \in 0 .. Cardinality(Items)
    <2> DEFINE L == Left(c)
               M == Left(c)'
               G == given \cap ItemsOf(c)
    <2>1. M = L \ G /\ G \subseteq L /\ L \subseteq Items
      BY <1>1, <1>2, <1>3 DEF RollsEnd, Left, ItemsOf
    <2>2. unlooted[c] = Cardinality(L) /\ unlooted'[c] = (unlooted[c] + 256 - Cardinality(G)) % 256
      BY <1>1, <1>3 DEF LootAddsUp, RollsEnd
    <2> HIDE DEF L, M, G
    <2>3. L \cap G = G
      BY <2>1
    <2>4. /\ IsFiniteSet(L) /\ Cardinality(L) \in 0 .. Cardinality(Items)
          /\ Cardinality(Items) \in 0 .. 255
      BY <2>1, ItemsFinite
    <2>5. Cardinality(G) \in Nat /\ Cardinality(M) \in Nat /\ G \subseteq Items /\ M \subseteq Items
      BY <2>1, ItemsFinite
    <2>6. Cardinality(L \ G) = Cardinality(L) - Cardinality(L \cap G)
      BY <2>4, FS_Difference
    <2>7. Cardinality(M) = Cardinality(L) - Cardinality(G)
      BY <2>1, <2>3, <2>6
    <2>8. Cardinality(L) \in 0 .. 255 /\ Cardinality(G) \in 0 .. Cardinality(L)
      BY <2>4, <2>5, <2>7
    <2>9. (Cardinality(L) + 256 - Cardinality(G)) % 256 = Cardinality(L) - Cardinality(G)
      BY <2>8, LessBy
    <2>10. unlooted'[c] = Cardinality(M) /\ unlooted'[c] \in 0 .. Cardinality(Items)
      BY <2>2, <2>4, <2>5, <2>7, <2>9
    <2> QED BY <2>10 DEF M
  <1>4. ASSUME NEW c \in Corpses, corpse[c] \notin {"fresh", "open"}
        PROVE  unlooted'[c] = 0
    <2>1. given \cap ItemsOf(c) = {}
      BY <1>1, <1>2, <1>4 DEF RollsEnd, ItemsOf
    <2>2. unlooted[c] = 0
      BY <1>4 DEF UntouchedLoot, TypeOK
    <2>3. unlooted'[c] = (0 + 256 - 0) % 256
      BY ZenonT(30), <1>1, <2>1, <2>2, FS_EmptySet DEF RollsEnd
    <2> QED BY <2>3
  <1>5. TypeOK'
    <2>1. unlooted' \in [Corpses -> 0 .. Cardinality(Items)]
      <3>1. 0 \in 0 .. Cardinality(Items)
        BY ItemsFinite
      <3>2. \A c \in Corpses : unlooted'[c] \in 0 .. Cardinality(Items)
        BY <1>3, <1>4, <3>1
      <3>3. unlooted' = [c \in Corpses |-> unlooted'[c]]
        BY <1>1 DEF RollsEnd
      <3> QED BY <3>2, <3>3
    <2>2. roll' \in [Items -> Rolls \cup {NoRoll}]
      BY <1>1 DEF RollsEnd, TypeOK
    <2> QED BY <1>1, <2>1, <2>2 DEF RollsEnd, TypeOK
  <1>6. LootAddsUp'
    <2>1. ASSUME NEW i \in Items PROVE (item'[i] = "looted") <=> (owner'[i] # Nobody)
      <3>1. CASE i \in given
        BY <1>1, <3>1, Absent DEF RollsEnd
      <3>2. CASE i \in decided \ given
        BY <1>1, <1>2, <3>2 DEF RollsEnd, LootAddsUp
      <3>3. CASE i \notin decided
        BY <1>1, <3>3 DEF RollsEnd, LootAddsUp
      <3> QED BY <3>1, <3>2, <3>3
    <2> QED BY <1>3, <2>1 DEF LootAddsUp
  <1>7. RollsHoldItems' /\ RollsNeedAGroup'
    BY <1>1 DEF RollsEnd, RollsHoldItems, RollsNeedAGroup
  <1>8. TalliesMatchVotes'
    BY <1>1, TalliesStay DEF RollsEnd
  <1>9. UntouchedLoot'
    <2>1. ASSUME NEW c \in Corpses, corpse[c] # "open", NEW i \in ItemsOf(c)
          PROVE  item'[i] = "free" /\ owner'[i] = Nobody
      BY <1>1, <1>2, <2>1 DEF RollsEnd, ItemsOf, UntouchedLoot
    <2> QED BY <1>4, <2>1 DEF UntouchedLoot, ItemsOf
  <1> QED BY <1>5, <1>6, <1>7, <1>8, <1>9

\* The roll for item i after a vote: the other rolls stay, and this one is sound if it goes on.
LEMMA AfterVote ==
    ASSUME LootInv, NEW i \in Items, NEW p \in Players, NEW choice \in Choices,
           CountRollVote(i, p, choice)
    PROVE  /\ roll[i] \in Rolls /\ roll[i] # NoRoll /\ Covers(roll[i]) /\ roll[i].vote[p] # "not_valid"
           /\ i \notin repeated' => Tally(roll[i]) /\ roll[i].vote[p] = "not_emited_yet"
           /\ ~AllVoted(Voted(roll[i], p, choice)) =>
                /\ Voted(roll[i], p, choice) \in Rolls
                /\ Sound(i, Voted(roll[i], p, choice), repeated')
           /\ repeated \subseteq repeated' /\ repeated' \subseteq Items /\ changes' \in 0 .. MaxChanges
  <1> USE DEF LootInv
  <1>1. /\ roll[i] \in Rolls /\ roll[i] # NoRoll /\ Covers(roll[i]) /\ roll[i].vote[p] # "not_valid"
        /\ i \notin repeated => Tally(roll[i])
    BY DEF CountRollVote, TypeOK, TalliesMatchVotes, Sound
  <1>2. /\ repeated' = IF roll[i].vote[p] \in Choices THEN repeated \cup {i} ELSE repeated
        /\ changes' \in 0 .. MaxChanges
    BY Bounds DEF CountRollVote, Change, TypeOK
  <1>3. repeated \subseteq repeated' /\ repeated' \subseteq Items
    BY <1>2 DEF TypeOK
  <1>4. ASSUME i \notin repeated' PROVE Tally(roll[i]) /\ roll[i].vote[p] = "not_emited_yet"
    BY <1>1, <1>2, <1>3, <1>4 DEF Rolls, Votes
  <1>5. ASSUME ~AllVoted(Voted(roll[i], p, choice))
        PROVE  /\ Voted(roll[i], p, choice) \in Rolls
               /\ Sound(i, Voted(roll[i], p, choice), repeated')
    <2>1. Voted(roll[i], p, choice) \in Rolls /\ Covers(Voted(roll[i], p, choice))
      BY <1>1, <1>5, VotedCovers
    <2>2. i \notin repeated' => Tally(Voted(roll[i], p, choice))
      BY <1>1, <1>4, VotedTally
    <2> QED BY <2>1, <2>2 DEF Sound
  <1> QED BY <1>1, <1>2, <1>3, <1>4, <1>5

LEMMA CountRollVoteKeeps ==
    ASSUME LootInv, NEW i \in Items, NEW p \in Players, NEW choice \in Choices,
           CountRollVote(i, p, choice)
    PROVE  LootInv'
  <1> USE DEF LootInv
  <1> DEFINE final == [roll EXCEPT ![i] = Voted(@, p, choice)]
  <1>1. /\ roll[i] \in Rolls /\ roll[i] # NoRoll
        /\ repeated \subseteq repeated' /\ repeated' \subseteq Items /\ changes' \in 0 .. MaxChanges
    BY AfterVote
  <1>2. final[i] = Voted(roll[i], p, choice) /\ \A j \in Items \ {i} : final[j] = roll[j]
    BY DEF TypeOK
  <1>3. /\ UNCHANGED <<group, connected, corpse, timer>>
        /\ IF AllVoted(final[i]) THEN CountTheRolls({i}, final)
                                 ELSE roll' = final /\ UNCHANGED <<item, owner, unlooted>>
    BY DEF CountRollVote
  <1>4. final \in [Items -> {final[j] : j \in Items}]
    BY DEF TypeOK
  <1> HIDE DEF final
  <1>5. CASE AllVoted(final[i])
    BY <1>1, <1>2, <1>3, <1>5, CountKeeps DEF RollsHoldItems
  <1>6. CASE ~AllVoted(final[i])
    <2>1. roll' = final /\ UNCHANGED <<item, owner, unlooted, group, connected, corpse, timer>>
      BY <1>3, <1>6
    <2>2. final[i] \in Rolls /\ Sound(i, final[i], repeated')
      BY <1>2, <1>6, AfterVote
    <2>3. roll' \in [Items -> Rolls \cup {NoRoll}]
      BY <1>2, <1>4, <2>1, <2>2 DEF TypeOK
    <2>4. TypeOK'
      BY <1>1, <2>1, <2>3 DEF TypeOK
    <2>5. LootAddsUp' /\ UntouchedLoot'
      BY <2>1 DEF LootAddsUp, UntouchedLoot, Left, ItemsOf
    <2>6. RollsHoldItems' /\ RollsNeedAGroup'
      BY <1>1, <1>2, <2>1 DEF RollsHoldItems, RollsNeedAGroup
    <2>7. TalliesMatchVotes'
      <3>1. \A j \in Items : \/ roll'[j] = roll[j] /\ (j \in repeated => j \in repeated')
                             \/ Sound(j, roll'[j], repeated')
        BY <1>1, <1>2, <2>1, <2>2
      <3> QED BY <3>1, TalliesStay
    <2> QED BY <2>4, <2>5, <2>6, <2>7
  <1> QED BY <1>5, <1>6

LEMMA EndRollKeeps ==
    ASSUME LootInv, NEW c \in Corpses, EndRoll(c) PROVE LootInv'
  <1> USE DEF LootInv
  <1> DEFINE decided == IF group = {} THEN {} ELSE RollsOf(c)
  <1>1. /\ CountTheRolls(decided, roll)
        /\ timer' = timer \ {c}
        /\ UNCHANGED <<group, connected, corpse, repeated, changes>>
    BY DEF EndRoll
  <1>2. /\ decided \in SUBSET Items /\ \A i \in decided : roll[i] # NoRoll
        /\ \A i \in Items \ decided : roll[i] # NoRoll => CorpseOf[i] # c
    BY DEF RollsOf, ItemsOf, RollsNeedAGroup
  <1> HIDE DEF decided
  <1>3. \A i \in Items \ decided : roll[i] # NoRoll => CorpseOf[i] \in timer'
    BY <1>1, <1>2 DEF RollsHoldItems
  <1>4. repeated' \subseteq Items /\ changes' \in 0 .. MaxChanges /\ repeated' = repeated
    BY <1>1 DEF TypeOK
  <1>5. timer' \subseteq timer
    BY <1>1
  <1> QED BY <1>1, <1>2, <1>3, <1>4, <1>5, CountKeeps

\* Members come and go: the rolls that go on count those who may still vote.
RollsGoOn ==
    /\ roll' \in [Items -> Rolls \cup {NoRoll}]
    /\ \A i \in Items : roll'[i] # NoRoll => roll[i] # NoRoll /\ Sound(i, roll'[i], repeated)
    /\ group' = {} => \A i \in Items : roll'[i] = NoRoll

LEMMA GroupChangeKeeps ==
    ASSUME LootInv, UNCHANGED <<corpse, item, unlooted, timer, owner, repeated>>,
           group' \subseteq Players, connected' \subseteq Players, changes' \in 0 .. MaxChanges,
           RollsGoOn
    PROVE  LootInv'
  <1> USE DEF LootInv, RollsGoOn
  <1>1. TypeOK'
    BY DEF TypeOK
  <1>2. LootAddsUp' /\ UntouchedLoot'
    BY DEF LootAddsUp, UntouchedLoot, Left, ItemsOf
  <1>3. RollsHoldItems' /\ RollsNeedAGroup'
    BY DEF RollsHoldItems, RollsNeedAGroup
  <1>4. TalliesMatchVotes'
    BY TalliesStay
  <1> QED BY <1>1, <1>2, <1>3, <1>4

LEMMA RollsStay == ASSUME LootInv, UNCHANGED roll, group' = {} => group = {} PROVE RollsGoOn
  BY DEF LootInv, TypeOK, TalliesMatchVotes, RollsNeedAGroup, RollsGoOn

LEMMA RemoveMemberRolls ==
    ASSUME LootInv, NEW p \in Players, RemoveMember(p)
    PROVE  group' \subseteq group /\ RollsGoOn
  <1> USE DEF LootInv
  <1>1. CASE Disband
    BY <1>1 DEF Disband, RollsGoOn
  <1>2. CASE /\ Cardinality((group \cap connected) \ {p}) >= 2
             /\ group' = group \ {p}
             /\ roll' = [i \in Items |-> IF roll[i] = NoRoll THEN NoRoll ELSE WithoutVoter(roll[i], p)]
    <2>1. group' # {}
      <3>1. CASE (group \cap connected) \ {p} = {}
        BY <1>2, <3>1, FS_EmptySet
      <3>2. CASE (group \cap connected) \ {p} # {}
        BY <1>2, <3>2
      <3> QED BY <3>1, <3>2
    <2>2. ASSUME NEW i \in Items, roll[i] # NoRoll
          PROVE  WithoutVoter(roll[i], p) \in Rolls /\ Sound(i, WithoutVoter(roll[i], p), repeated)
      <3>1. roll[i] \in Rolls /\ Covers(roll[i]) /\ (i \notin repeated => Tally(roll[i]))
        BY <2>2 DEF TypeOK, TalliesMatchVotes, Sound
      <3> QED BY <3>1, WithoutVoterTally, WithoutVoterCovers DEF Sound
    <2>3. roll' \in [Items -> Rolls \cup {NoRoll}]
      BY <1>2, <2>2
    <2>4. \A i \in Items : roll'[i] # NoRoll => roll[i] # NoRoll /\ Sound(i, roll'[i], repeated)
      BY <1>2, <2>2
    <2> QED BY <1>2, <2>1, <2>3, <2>4 DEF RollsGoOn
  <1> QED BY <1>1, <1>2 DEF RemoveMember

LEMMA ChangeTyped == ASSUME TypeOK, Change PROVE changes' \in 0 .. MaxChanges
  BY Bounds DEF TypeOK, Change

LEMMA NextKeepsLootInv == LootInv /\ [Next]_vars => LootInv'
  <1> SUFFICES ASSUME LootInv, [Next]_vars PROVE LootInv'
    OBVIOUS
  <1>1. ASSUME NEW c \in Corpses, Kill(c) PROVE LootInv'
    BY <1>1, KillKeeps
  <1>2. ASSUME NEW c \in Corpses, SendLoot(c) PROVE LootInv'
    BY <1>2, SendLootKeeps
  <1>3. ASSUME NEW c \in Corpses, DoLootRelease(c) PROVE LootInv'
    BY <1>3, ClearKeeps DEF DoLootRelease
  <1>4. ASSUME NEW c \in Corpses, ForcedDespawn(c) PROVE LootInv'
    BY <1>4, ClearKeeps DEF ForcedDespawn
  <1>5. ASSUME NEW c \in Corpses, EndRoll(c) PROVE LootInv'
    BY <1>5, EndRollKeeps
  <1>6. ASSUME NEW c \in Corpses, RemoveCorpse(c) PROVE LootInv'
    BY <1>6, ClearKeeps DEF RemoveCorpse
  <1>7. ASSUME NEW i \in Items, NEW p \in Players, StoreLootItem(i, p) PROVE LootInv'
    BY <1>7, StoreLootItemKeeps
  <1>8. ASSUME NEW i \in Items, NEW p \in Players, NEW choice \in Choices, CountRollVote(i, p, choice)
        PROVE  LootInv'
    BY <1>8, CountRollVoteKeeps
  <1>9. ASSUME Change PROVE changes' \in 0 .. MaxChanges
    BY <1>9, ChangeTyped DEF LootInv
  <1>10. group \subseteq Players /\ connected \subseteq Players /\ changes \in 0 .. MaxChanges
    BY DEF LootInv, TypeOK
  <1>11. ASSUME NEW p \in Players, LeaveGroup(p) PROVE LootInv'
    <2>1. group' \subseteq group /\ RollsGoOn
      BY <1>11, RemoveMemberRolls DEF LeaveGroup
    <2> QED BY <1>9, <1>10, <1>11, <2>1, GroupChangeKeeps DEF LeaveGroup
  <1>12. ASSUME NEW p \in Players, AddMember(p) PROVE LootInv'
    <2>1. group' # {} /\ UNCHANGED roll /\ group' \subseteq Players
      BY <1>10, <1>12 DEF AddMember
    <2>2. RollsGoOn
      BY <2>1, RollsStay
    <2> QED BY <1>9, <1>10, <1>12, <2>1, <2>2, GroupChangeKeeps DEF AddMember
  <1>13. ASSUME NEW p \in Players, LogoutPlayer(p) PROVE LootInv'
    <2>1. group' \subseteq group /\ RollsGoOn
      BY <1>13, RemoveMemberRolls, RollsStay DEF LogoutPlayer
    <2> QED BY <1>9, <1>10, <1>13, <2>1, GroupChangeKeeps DEF LogoutPlayer
  <1>14. ASSUME NEW p \in Players, HandlePlayerLogin(p) PROVE LootInv'
    <2>1. group' = group /\ RollsGoOn
      BY <1>14, RollsStay DEF HandlePlayerLogin
    <2> QED BY <1>9, <1>10, <1>14, <2>1, GroupChangeKeeps DEF HandlePlayerLogin
  <1>15. ASSUME UNCHANGED vars PROVE LootInv'
    <2>1. group' = group /\ RollsGoOn
      BY <1>15, RollsStay DEF vars
    <2> QED BY <1>10, <1>15, <2>1, GroupChangeKeeps DEF vars
  <1> QED
    BY <1>1, <1>2, <1>3, <1>4, <1>5, <1>6, <1>7, <1>8, <1>11, <1>12, <1>13, <1>14, <1>15 DEF Next

-----------------------------------------------------------------------------
(* The theorems. *)

LEMMA SpecLootInv == Spec => []LootInv
  <1>1. Init => LootInv
    BY InitLootInv
  <1>2. LootInv /\ [Next]_vars => LootInv'
    BY NextKeepsLootInv
  <1> QED BY <1>1, <1>2, PTL DEF Spec

\* The sums of the rolls and unlootedCount never leave the range of the voters and the items:
\* their subtractions in RemoveMember, CountTheRoll and StoreLootItem do not wrap around, even if
\* players vote again and leave after that.
THEOREM LootTypeCorrect == Spec => []TypeOK
  <1>1. LootInv => TypeOK
    BY DEF LootInv
  <1> QED BY <1>1, SpecLootInv, PTL

\* Each item of a corpse is handed out once, and unlootedCount counts those that are left.
THEOREM EachItemOnce == Spec => []LootAddsUp
  <1>1. LootInv => LootAddsUp
    BY DEF LootInv
  <1> QED BY <1>1, SpecLootInv, PTL

\* A roll under way holds its item back on an open corpse whose timer will end it.
THEOREM RollsWillEnd == Spec => []RollsHoldItems
  <1>1. LootInv => RollsHoldItems
    BY DEF LootInv
  <1> QED BY <1>1, SpecLootInv, PTL

LEMMA WinnerWantedIt ==
    ASSUME NEW r \in Rolls, Tally(r), NEW w \in Players, w \in Winners(r),
           NEW fits \in BOOLEAN, Outcome(r, w, fits) = "looted"
    PROVE  \/ r.vote[w] = "need"
           \/ r.vote[w] \in Wanting /\ Voters(r, {"need"}) = {}
  <1>1. r.need \in Nat /\ r.need = Cardinality(Voters(r, {"need"})) /\ IsFiniteSet(Voters(r, {"need"}))
    BY VotersFinite DEF Tally, Sums
  <1>2. r.need = 0 <=> Voters(r, {"need"}) = {}
    BY <1>1, FS_EmptySet
  <1>3. CASE r.need > 0
    <2>1. r.need + r.greed # 0 /\ Winners(r) \in {{Nobody}, Voters(r, {"need"})}
      BY <1>1, <1>2, <1>3 DEF Winners, Drawn, Rolls, Sums
    <2>2. w \in Voters(r, {"need"})
      BY <2>1, <1>3, Absent
    <2> QED BY <2>2 DEF Voters
  <1>4. CASE r.need = 0
    BY <1>2, <1>4, Absent DEF Outcome, Wanting
  <1> QED BY <1>1, <1>3, <1>4

\* The winner of a decided roll was entitled to it before the last vote was cast.
LEMMA WinnerEntitled ==
    ASSUME LootInv, NEW i \in Items, NEW decided, NEW given, NEW final, i \in decided,
           RollsEnd(decided, given, final), roll[i] # NoRoll, final[i] \in Rolls, Tally(final[i]),
           \A p \in Players : \/ final[i].vote[p] = roll[i].vote[p]
                            \/ roll[i].vote[p] = "not_emited_yet",
           owner'[i] # Nobody
    PROVE  Entitled(roll[i], owner'[i])
  <1>1. owner[i] = Nobody
    BY DEF LootInv, LootAddsUp, RollsHoldItems
  <1>2. i \in given
    BY <1>1 DEF RollsEnd
  <1> DEFINE w == owner'[i]
             f == final[i]
  <1>3. PICK fits \in BOOLEAN : w \in Players /\ w \in Winners(f) /\ Outcome(f, w, fits) = "looted"
    BY <1>2 DEF RollsEnd
  <1>4. f.vote[w] = "need" \/ (f.vote[w] \in Wanting /\ Voters(f, {"need"}) = {})
    BY <1>3, WinnerWantedIt
  <1> HIDE DEF w, f
  <1>5. /\ f.vote[w] = roll[i].vote[w] \/ roll[i].vote[w] = "not_emited_yet"
        /\ Voters(roll[i], {"need"}) \subseteq Voters(f, {"need"})
    BY <1>3 DEF Voters, w, f
  <1>6. Entitled(roll[i], w)
    BY <1>4, <1>5 DEF Entitled, Wanting
  <1> QED BY <1>6 DEF w

\* Whoever is given an item could vote for it.
LEMMA WinnerMayVote ==
    ASSUME LootInv, NEW i \in Items, NEW decided, NEW given, NEW final, i \in decided,
           RollsEnd(decided, given, final), roll[i] # NoRoll, owner'[i] # Nobody
    PROVE  owner'[i] \in Voting(final[i])
  <1>1. owner[i] = Nobody
    BY DEF LootInv, LootAddsUp, RollsHoldItems
  <1>2. owner'[i] \in Players /\ owner'[i] \in Winners(final[i])
    BY <1>1 DEF RollsEnd
  <1> QED BY <1>2, Absent DEF Winners, Drawn, Voting, Voters, Votes, Choices

LEMMA VoteIsFair ==
    ASSUME LootInv, NEW i \in Items, roll[i] # NoRoll, roll'[i] = NoRoll,
           NEW j \in Items, NEW p \in Players, NEW choice \in Choices, CountRollVote(j, p, choice)
    PROVE  /\ Counted(roll[i]) + 1 >= Cardinality(Voting(roll[i]))
           /\ owner'[i] # Nobody => owner'[i] \in Voting(roll[i])
           /\ i \notin repeated' =>
                /\ Cardinality(Undecided(roll[i])) <= 1
                /\ owner'[i] # Nobody => Entitled(roll[i], owner'[i])
  <1> DEFINE r == roll[i]
             final == [roll EXCEPT ![j] = Voted(@, p, choice)]
             f == Voted(r, p, choice)
  <1>1. /\ roll[j] \in Rolls /\ roll[j] # NoRoll /\ Covers(roll[j]) /\ roll[j].vote[p] # "not_valid"
        /\ j \notin repeated' => Tally(roll[j]) /\ roll[j].vote[p] = "not_emited_yet"
        /\ ~AllVoted(Voted(roll[j], p, choice)) => Voted(roll[j], p, choice) \in Rolls
    BY AfterVote
  <1>2. final[j] = Voted(roll[j], p, choice) /\ \A k \in Items \ {j} : final[k] = roll[k]
    BY DEF LootInv, TypeOK
  <1>3. IF AllVoted(final[j]) THEN CountTheRolls({j}, final) ELSE roll' = final
    BY DEF CountRollVote
  <1> HIDE DEF final
  <1>4. AllVoted(final[j]) /\ CountTheRolls({j}, final)
    <2>1. CASE ~AllVoted(final[j])
      BY <1>1, <1>2, <1>3, <2>1, Absent
    <2> QED BY <1>3, <2>1
  <1>5. PICK given : RollsEnd({j}, given, final)
    BY <1>4, CountEnds DEF LootInv
  <1>6. i = j
    BY <1>2, <1>5 DEF RollsEnd
  <1>7. /\ r \in Rolls /\ Covers(r) /\ r.vote[p] # "not_valid" /\ final[i] = f /\ AllVoted(f)
        /\ i \notin repeated' => Tally(r) /\ r.vote[p] = "not_emited_yet"
    BY <1>1, <1>2, <1>4, <1>6
  <1>8. Voting(f) = Voting(r) /\ Counted(f) = Counted(r) + 1
    <2> HIDE DEF r
    <2> QED BY <1>7, VotedCovers
  <1>9. Counted(r) + 1 >= Cardinality(Voting(r))
    <2>1. f.playersRolling = Cardinality(Voting(r))
      BY <1>7 DEF Voted, Covers
    <2> QED BY <1>7, <1>8, <2>1 DEF AllVoted, Counted
  <1>10. owner'[i] # Nobody => owner'[i] \in Voting(r)
    BY <1>5, <1>6, <1>7, <1>8, WinnerMayVote
  <1>11. ASSUME i \notin repeated'
         PROVE  /\ Cardinality(Undecided(r)) <= 1
                /\ owner'[i] # Nobody => Entitled(r, owner'[i])
    <2>1. r.vote \in [Players -> Votes] /\ r.vote[p] = "not_emited_yet" /\ Tally(r) /\ r \in Rolls
      BY <1>7, <1>11 DEF Rolls
    <2> HIDE DEF r
    <2>2. f \in Rolls /\ Tally(f) /\ f.vote = [r.vote EXCEPT ![p] = choice]
      BY <2>1, VotedTally
    <2> HIDE DEF f
    <2>3. Undecided(f) = {}
      BY <1>7, <2>2, NobodyUndecided
    <2>4. Undecided(r) = {p}
      <3>1. ASSUME NEW q \in Players, q # p PROVE r.vote[q] # "not_emited_yet"
        BY <2>1, <2>2, <2>3, <3>1 DEF Voters, Undecided
      <3> QED BY <2>1, <3>1 DEF Voters, Undecided
    <2>5. Cardinality(Undecided(r)) = 1
      BY <2>4, FS_Singleton
    <2>6. \A q \in Players : f.vote[q] = r.vote[q] \/ r.vote[q] = "not_emited_yet"
      BY <2>1, <2>2
    <2>7. ASSUME owner'[i] # Nobody PROVE Entitled(roll[i], owner'[i])
      <3>1. i \in {j} /\ final[i] \in Rolls /\ Tally(final[i])
        BY <1>6, <1>7, <2>2
      <3>2. \A q \in Players : final[i].vote[q] = roll[i].vote[q] \/ roll[i].vote[q] = "not_emited_yet"
        BY <1>7, <2>6 DEF r
      <3> QED BY <1>5, <2>7, <3>1, <3>2, WinnerEntitled
    <2> QED BY <2>5, <2>7 DEF r
  <1> QED BY <1>9, <1>10, <1>11

LEMMA EndIsFair ==
    ASSUME LootInv, NEW i \in Items, roll[i] # NoRoll, roll'[i] = NoRoll,
           NEW c \in Corpses, EndRoll(c)
    PROVE  /\ TimeIsUp(i)
           /\ owner'[i] # Nobody => owner'[i] \in Voting(roll[i])
           /\ i \notin repeated' /\ owner'[i] # Nobody => Entitled(roll[i], owner'[i])
  <1> DEFINE decided == IF group = {} THEN {} ELSE RollsOf(c)
  <1>1. /\ CountTheRolls(decided, roll) /\ timer' = timer \ {c} /\ c \in timer
        /\ decided \in SUBSET Items /\ repeated' = repeated
    BY DEF EndRoll, RollsOf, ItemsOf
  <1>2. \A k \in decided : CorpseOf[k] = c
    BY DEF RollsOf, ItemsOf
  <1> HIDE DEF decided
  <1>3. PICK given : RollsEnd(decided, given, roll)
    BY <1>1, CountEnds DEF LootInv
  <1>4. i \in decided
    BY <1>3 DEF RollsEnd
  <1>5. owner'[i] # Nobody => owner'[i] \in Voting(roll[i])
    BY <1>3, <1>4, WinnerMayVote
  <1>6. ASSUME i \notin repeated', owner'[i] # Nobody PROVE Entitled(roll[i], owner'[i])
    <2>1. roll[i] \in Rolls /\ Tally(roll[i])
      BY <1>1, <1>6 DEF LootInv, TypeOK, TalliesMatchVotes, Sound
    <2> QED BY <1>3, <1>4, <1>6, <2>1, WinnerEntitled
  <1> QED BY <1>1, <1>2, <1>4, <1>5, <1>6 DEF TimeIsUp

\* While everybody votes once, a roll ends when all have voted or the time is up, and its item goes
\* to one who wanted it most.  Votes cast again end a roll earlier, but not before as many votes
\* are counted as there are voters, and its item then still goes to one of these.
THEOREM LootIsFair == Spec => RollsAreFair
  <1> DEFINE Fair(i) ==
        roll[i] # NoRoll /\ roll'[i] = NoRoll =>
          \/ group' = {} \/ corpse'[CorpseOf[i]] # "open"
          \/ /\ TimeIsUp(i) \/ Counted(roll[i]) + 1 >= Cardinality(Voting(roll[i]))
             /\ owner'[i] # Nobody => owner'[i] \in Voting(roll[i])
             /\ i \notin repeated' =>
                  /\ TimeIsUp(i) \/ Cardinality(Undecided(roll[i])) <= 1
                  /\ owner'[i] # Nobody => Entitled(roll[i], owner'[i])
  <1>1. ASSUME LootInv, [Next]_vars, NEW i \in Items, roll[i] # NoRoll, roll'[i] = NoRoll
        PROVE  Fair(i)
    <2> USE <1>1
    <2>1. ASSUME NEW c \in Corpses, NEW now \in {"gone", "empty"},
                 corpse' = [corpse EXCEPT ![c] = now], Clear(c)
          PROVE  corpse'[CorpseOf[i]] # "open"
      BY <2>1, CorpseOfType DEF Clear, LootInv, TypeOK
    <2>2. ASSUME NEW c \in Corpses, DoLootRelease(c) \/ ForcedDespawn(c) \/ RemoveCorpse(c)
          PROVE  corpse'[CorpseOf[i]] # "open"
      BY <2>1, <2>2 DEF DoLootRelease, ForcedDespawn, RemoveCorpse
    <2>3. ASSUME NEW c \in Corpses, EndRoll(c) PROVE Fair(i)
      BY <2>3, EndIsFair
    <2>4. ASSUME NEW j \in Items, NEW p \in Players, NEW choice \in Choices, CountRollVote(j, p, choice)
          PROVE  Fair(i)
      BY <2>4, VoteIsFair
    <2>5. ASSUME NEW c \in Corpses, SendLoot(c) PROVE FALSE
      <3>1. ASSUME NEW near \in SUBSET (group \cap connected), NEW passing \in SUBSET near,
                   GroupLoot(c, near, passing)
            PROVE  FALSE
        <4>1. NewRoll(near, passing) \in Rolls
          BY NewRollTally DEF LootInv, TypeOK
        <4> QED BY <3>1, <4>1, Absent DEF GroupLoot
      <3> QED BY <2>5, <3>1 DEF SendLoot
    <2>6. ASSUME NEW p \in Players, RemoveMember(p) PROVE group' = {}
      <3>1. roll[i] \in Rolls /\ Covers(roll[i])
        BY DEF LootInv, TypeOK, TalliesMatchVotes, Sound
      <3>2. WithoutVoter(roll[i], p) # NoRoll
        BY <3>1, WithoutVoterCovers, Absent
      <3> QED BY <2>6, <3>2 DEF RemoveMember, Disband
    <2>7. ASSUME NEW p \in Players, LeaveGroup(p) \/ LogoutPlayer(p) PROVE group' = {}
      BY <2>6, <2>7 DEF LeaveGroup, LogoutPlayer
    <2>8. /\ \A c \in Corpses : ~Kill(c)
          /\ \A j \in Items, p \in Players : ~StoreLootItem(j, p)
          /\ \A p \in Players : ~AddMember(p) /\ ~HandlePlayerLogin(p)
      BY DEF Kill, StoreLootItem, AddMember, HandlePlayerLogin
    <2>9. ~UNCHANGED vars
      BY DEF vars
    <2> HIDE DEF Fair
    <2>10. group' = {} \/ corpse'[CorpseOf[i]] # "open" => Fair(i)
      BY DEF Fair
    <2> QED
      BY <2>2, <2>3, <2>4, <2>5, <2>7, <2>8, <2>9, <2>10, CorpseOfType DEF Next
  <1>2. LootInv /\ [Next]_vars => [\A i \in Items : Fair(i)]_vars
    BY <1>1
  <1>3. Spec => [][\A i \in Items : Fair(i)]_vars
    BY <1>2, SpecLootInv, PTL DEF Spec
  <1> QED BY <1>3 DEF RollsAreFair

=============================================================================
