--------------------- MODULE PerspectiveEvidenceProofs --------------------
(***************************************************************************)
(* Proofs about the fact-grounded evidence.  The invariant says, beside    *)
(* what the validator of the perspective insists on, that there is one     *)
(* episode for each fact the opinions rest on, that each opinion rests on  *)
(* its primary fact's own counterpoints and consequences, and that every   *)
(* claim of a plan that was integrated has found its place.  Plans are     *)
(* integrated claim by claim, so that a lemma about one claim carries to   *)
(* every prefix of a plan by induction over its length.                    *)
(***************************************************************************)
EXTENDS PerspectiveEvidence, FiniteSetTheorems, WellFoundedInduction, TLAPS

OpinionRecords == [primary : Facts, polarity : BeliefPolarities,
                   grounding : SUBSET Facts, revision : Nat]

EpisodeRecords == [id : Nat, turn : Nat, topic : Concepts,
                   previous : BeliefPolarities \cup {NoPolarity},
                   resulting : BeliefPolarities, cited : SUBSET Facts,
                   reason : {"Established", "Qualified", "Reinforced"}]

PerspectiveType(p) ==
  /\ p = [opinions |-> p.opinions, episodes |-> p.episodes, nextId |-> p.nextId]
  /\ p.opinions \in UNION {[D -> OpinionRecords] : D \in SUBSET Concepts}
  /\ p.episodes \in Seq(EpisodeRecords)
  /\ p.nextId \in Nat

(* The facts the opinions of a perspective rest on.                        *)
Grounds(p) == UNION {p.opinions[c].grounding : c \in DOMAIN p.opinions}

(* What integration keeps true of a perspective up to a turn.              *)
WithinBasis(p) ==
  \A c \in DOMAIN p.opinions : p.opinions[c].grounding \subseteq Basis(p.opinions[c].primary)

Sound(p, turn) ==
  /\ PerspectiveType(p)
  /\ Cardinality(DOMAIN p.opinions) <= MaxOpinions
  /\ \A c \in DOMAIN p.opinions : OpinionValid(c, p.opinions[c])
  /\ WithinBasis(p)
  /\ Len(p.episodes) = Cardinality(Grounds(p))
  /\ EpisodesValid(p)
  /\ \A i \in 1 .. Len(p.episodes) : p.episodes[i].turn <= turn
  /\ \A c \in DOMAIN p.opinions : OpinionExplained(p, c)

(* A claim that has found its place: integrating it again changes nothing. *)
Cites(f, primary, role) ==
  CASE role = "Thesis"       -> f = primary
    [] role = "Counterpoint" -> <<f, primary>> \in Counters
    [] OTHER                 -> <<f, primary>> \in FollowsFrom

Settled(p, claim) ==
  LET c == SubjectOf[claim.fact]
  IN  /\ Has(p, c)
      /\ claim.fact \in p.opinions[c].grounding
      /\ Cites(claim.fact, p.opinions[c].primary, claim.role)

Wellformed(claims) ==
  /\ \A i \in 1 .. Len(claims) : claims[i].role # "DialogueAct"
  /\ \A i, j \in 1 .. Len(claims) : SubjectOf[claims[i].fact] = SubjectOf[claims[j].fact]

Claimed == UNION {{claims[i] : i \in DOMAIN claims} : claims \in accepted}

EvidenceInv ==
  /\ turnSeq \in Nat
  /\ accepted \subseteq Plans
  /\ Sound(Perspective, turnSeq)
  /\ \A claims \in accepted :
       Wellformed(claims) /\ \A i \in 1 .. Len(claims) : Settled(Perspective, claims[i])
  /\ Grounds(Perspective) = {cl.fact : cl \in Claimed}

-----------------------------------------------------------------------------
(* A set of positions that is not empty has a first; a set that holds 0    *)
(* and with every number the next holds them all.                          *)
LEMMA FirstOfNumbers ==
  ASSUME NEW S, S \subseteq Nat, S # {}
  PROVE  \E v \in S : \A w \in S : v <= w
<1>1. PICK v \in S : \A w \in S : <<w, v>> \notin OpToRel(<, Nat)
  BY NatLessThanWellFounded, WFMin, Zenon
<1>2. ASSUME NEW w \in S PROVE v <= w
  <2>1. <<w, v>> \notin {e \in Nat \X Nat : e[1] < e[2]}
    BY <1>1 DEF OpToRel
  <2> QED BY <2>1
<1> QED BY <1>2

LEMMA CountingUp ==
  ASSUME NEW S, 0 \in S, \A n \in Nat : n \in S => n + 1 \in S
  PROVE  Nat \subseteq S
<1> DEFINE missing == {n \in Nat : n \notin S}
<1>1. ASSUME missing # {} PROVE FALSE
  <2>1. PICK v \in missing : \A w \in missing : v <= w
    BY <1>1, FirstOfNumbers
  <2>2. v - 1 \in Nat /\ v - 1 \notin missing /\ (v - 1) + 1 = v
    BY <2>1
  <2> QED BY <2>1, <2>2
<1> QED BY <1>1

(* The perspectives after each prefix of a plan are what the loop computes *)
LEMMA ThroughEquations ==
  ASSUME NEW p, NEW turn, NEW claims, Len(claims) \in Nat
  PROVE  /\ Through(p, turn, claims)[0] = Ok(p)
         /\ \A n \in 1 .. Len(claims) :
              Through(p, turn, claims)[n]
                = IntegrateNext(Through(p, turn, claims)[n - 1], turn, claims[n])
<1> DEFINE Body(f, n) == [i \in 0 .. n |-> IF i = 0 THEN Ok(p)
                                           ELSE IntegrateNext(f[i - 1], turn, claims[i])]
           S == {n \in Nat : \E f : f = Body(f, n)}
<1>1. 0 \in S
  <2>1. [i \in 0 .. 0 |-> Ok(p)] = Body([i \in 0 .. 0 |-> Ok(p)], 0)
    OBVIOUS
  <2> QED BY <2>1
<1>2. ASSUME NEW n \in Nat, n \in S PROVE n + 1 \in S
  <2>1. PICK f : f = Body(f, n)
    BY <1>2
  <2> DEFINE g == [i \in 0 .. n + 1 |-> IF i <= n THEN f[i]
                                        ELSE IntegrateNext(f[n], turn, claims[n + 1])]
  <2>2. \A i \in 0 .. n + 1 : i # 0 => g[i - 1] = f[i - 1]
    OBVIOUS
  <2>3. \A i \in 0 .. n + 1 : g[i] = IF i = 0 THEN Ok(p)
                                      ELSE IntegrateNext(g[i - 1], turn, claims[i])
    <3> SUFFICES ASSUME NEW i \in 0 .. n + 1
                 PROVE  g[i] = IF i = 0 THEN Ok(p) ELSE IntegrateNext(g[i - 1], turn, claims[i])
      OBVIOUS
    <3>1. CASE i <= n
      BY <2>1, <2>2, <3>1
    <3>2. CASE i = n + 1
      BY <2>2, <3>2
    <3> QED BY <3>1, <3>2
  <2>4. g = Body(g, n + 1)
    BY <2>3
  <2>5. n + 1 \in Nat /\ \E h : h = Body(h, n + 1)
    <3> HIDE DEF g, Body
    <3> QED BY <2>4
  <2> QED BY <2>5
<1>3. Len(claims) \in S
  <2>1. \A n \in Nat : n \in S => n + 1 \in S
    BY <1>2
  <2> HIDE DEF S
  <2> QED BY <1>1, <2>1, CountingUp
<1>4. Through(p, turn, claims) = Body(Through(p, turn, claims), Len(claims))
  BY <1>3 DEF Through
<1> HIDE DEF Body
<1> DEFINE f == Through(p, turn, claims)
<1>5. f = Body(f, Len(claims))
  BY <1>4
<1> HIDE DEF f
<1>6. /\ f[0] = Ok(p)
      /\ \A n \in 1 .. Len(claims) : f[n] = IntegrateNext(f[n - 1], turn, claims[n])
  BY <1>5 DEF Body
<1> QED BY <1>6 DEF f

-----------------------------------------------------------------------------
(* Opinions within the bound rest on no more facts than there is room for  *)
(* episodes.                                                               *)
LEMMA RoomForGrounds ==
  ASSUME FactAssumption, RoomAssumption,
         NEW O, O \in UNION {[D -> OpinionRecords] : D \in SUBSET Concepts},
         Cardinality(DOMAIN O) <= MaxOpinions,
         \A c \in DOMAIN O : O[c].grounding \subseteq Basis(O[c].primary)
  PROVE  /\ IsFiniteSet(UNION {O[c].grounding : c \in DOMAIN O})
         /\ Cardinality(UNION {O[c].grounding : c \in DOMAIN O}) <= MaxEpisodes
<1> DEFINE Primaries == {O[c].primary : c \in DOMAIN O}
           Bases == UNION {Basis(f) : f \in Primaries}
           G == UNION {O[c].grounding : c \in DOMAIN O}
<1>1. DOMAIN O \subseteq Concepts /\ \A c \in DOMAIN O : O[c] \in OpinionRecords
  OBVIOUS
<1>2. IsFiniteSet(DOMAIN O)
  BY <1>1, FS_Subset DEF FactAssumption
<1>3. Primaries \in SUBSET Facts
  BY <1>1 DEF OpinionRecords
<1>4. Cardinality(Primaries) <= Cardinality(DOMAIN O)
  <2> DEFINE f == [c \in DOMAIN O |-> O[c].primary]
  <2>1. f \in Surjection(DOMAIN O, Primaries)
    BY DEF Surjection
  <2> HIDE DEF f, Primaries
  <2> QED BY <1>2, <2>1, FS_Surjection
<1>5. IsFiniteSet(Primaries)
  BY <1>3, FS_Subset DEF FactAssumption
<1>6. Cardinality(Primaries) <= MaxOpinions
  <2>1. Cardinality(Primaries) \in Nat /\ Cardinality(DOMAIN O) \in Nat
    BY <1>2, <1>5, FS_CardinalityType
  <2>2. MaxOpinions \in Nat
    BY DEF FactAssumption
  <2> HIDE DEF Primaries
  <2> QED BY <1>4, <2>1, <2>2
<1>7. Cardinality(Bases) <= MaxEpisodes
  BY <1>3, <1>6, Zenon DEF RoomAssumption
<1>8. G \subseteq Bases
  <2>1. \A c \in DOMAIN O : O[c].grounding \subseteq Basis(O[c].primary)
    OBVIOUS
  <2> QED BY <2>1
<1>9. Bases \subseteq Facts
  <2>1. \A f \in Facts : Basis(f) \subseteq Facts
    BY DEF Basis
  <2> QED BY <1>3, <2>1
<1>10. IsFiniteSet(Bases)
  BY <1>9, FS_Subset DEF FactAssumption
<1>11. IsFiniteSet(G) /\ Cardinality(G) <= Cardinality(Bases)
  BY <1>8, <1>10, FS_Subset
<1>12. Cardinality(G) \in Nat /\ Cardinality(Bases) \in Nat /\ MaxEpisodes \in Nat
  BY <1>10, <1>11, FS_CardinalityType DEF FactAssumption
<1> QED
  <2> HIDE DEF G, Bases
  <2>1. Cardinality(G) <= MaxEpisodes
    BY <1>7, <1>11, <1>12
  <2> QED BY <1>11, <2>1 DEF G

-----------------------------------------------------------------------------
(* What one claim may add to a perspective: a fact its opinion did not     *)
(* rest on, and the episode that says so.                                  *)
Addition(p, turn, c, o, e, f) ==
  /\ c \in Concepts /\ f \in Facts /\ SubjectOf[f] = c
  /\ o \in OpinionRecords /\ OpinionValid(c, o)
  /\ o.grounding \subseteq Basis(o.primary)
  /\ e \in EpisodeRecords /\ ReasonHolds(e, o)
  /\ e.id = p.nextId /\ e.turn = turn /\ e.topic = c /\ e.resulting = o.polarity
  /\ \/ /\ Has(p, c)
        /\ f \notin p.opinions[c].grounding
        /\ o.grounding = p.opinions[c].grounding \cup {f}
        /\ o.primary = p.opinions[c].primary
        /\ o.revision = p.opinions[c].revision + 1
        /\ e.previous = p.opinions[c].polarity
     \/ /\ ~ Has(p, c) /\ Cardinality(DOMAIN p.opinions) < MaxOpinions
        /\ o.grounding = {f} /\ o.revision = 1

Added(p, c, o, e) ==
  [opinions |-> [k \in DOMAIN p.opinions \cup {c} |-> IF k = c THEN o ELSE p.opinions[k]],
   episodes |-> Append(p.episodes, e), nextId |-> p.nextId + 1]

Extends(p, q) ==
  \A c \in DOMAIN p.opinions :
    /\ c \in DOMAIN q.opinions
    /\ q.opinions[c].primary = p.opinions[c].primary
    /\ p.opinions[c].grounding \subseteq q.opinions[c].grounding

(* The parts of the perspective after the addition.                        *)
LEMMA AddedParts ==
  ASSUME NEW p, NEW turn, NEW c, NEW o, NEW e, NEW f,
         PerspectiveType(p), Addition(p, turn, c, o, e, f)
  PROVE  LET q == Added(p, c, o, e)
             n == Len(p.episodes)
         IN  /\ DOMAIN q.opinions = DOMAIN p.opinions \cup {c}
             /\ q.opinions[c] = o
             /\ \A k \in DOMAIN p.opinions : k # c => q.opinions[k] = p.opinions[k]
             /\ n \in Nat /\ Len(q.episodes) = n + 1
             /\ q.episodes[n + 1] = e
             /\ \A i \in 1 .. n : q.episodes[i] = p.episodes[i]
             /\ q.nextId = p.nextId + 1
             /\ PerspectiveType(q)
<1> DEFINE q == Added(p, c, o, e)
           n == Len(p.episodes)
<1>1. /\ p.episodes \in Seq(EpisodeRecords) /\ e \in EpisodeRecords /\ p.nextId \in Nat
      /\ p.opinions \in UNION {[D -> OpinionRecords] : D \in SUBSET Concepts}
      /\ c \in Concepts /\ o \in OpinionRecords
  BY DEF PerspectiveType, Addition
<1>2. /\ q.opinions = [k \in DOMAIN p.opinions \cup {c} |-> IF k = c THEN o ELSE p.opinions[k]]
      /\ q.episodes = Append(p.episodes, e)
      /\ q.nextId = p.nextId + 1
      /\ q = [opinions |-> q.opinions, episodes |-> q.episodes, nextId |-> q.nextId]
  BY DEF Added
<1> HIDE DEF q
<1>3. /\ n \in Nat /\ Len(q.episodes) = n + 1 /\ q.episodes[n + 1] = e
      /\ \A i \in 1 .. n : q.episodes[i] = p.episodes[i]
      /\ q.episodes \in Seq(EpisodeRecords)
  <2> DEFINE E == p.episodes
             R == EpisodeRecords
  <2> HIDE DEF E, R
  <2>1. E \in Seq(R) /\ e \in R
    BY <1>1 DEF E, R
  <2>2. /\ Len(E) \in Nat /\ Len(Append(E, e)) = Len(E) + 1
        /\ Append(E, e)[Len(E) + 1] = e
        /\ \A i \in 1 .. Len(E) : Append(E, e)[i] = E[i]
        /\ Append(E, e) \in Seq(R)
    BY <2>1
  <2> QED BY <2>2, <1>2 DEF E, R
<1>4. DOMAIN p.opinions \subseteq Concepts
      /\ \A k \in DOMAIN p.opinions : p.opinions[k] \in OpinionRecords
  BY <1>1
<1>5. q.opinions \in [DOMAIN p.opinions \cup {c} -> OpinionRecords]
  BY <1>1, <1>2, <1>4
<1>6. q.opinions \in UNION {[D -> OpinionRecords] : D \in SUBSET Concepts}
  BY <1>1, <1>4, <1>5
<1>7. PerspectiveType(q)
  <2>1. q.nextId \in Nat
    BY <1>1, <1>2
  <2> QED BY <1>2, <1>3, <1>6, <2>1, Zenon DEF PerspectiveType
<1> QED BY <1>2, <1>3, <1>7 DEF q

(* The count of episodes follows the facts the opinions rest on, and stays *)
(* within the bound.                                                       *)
LEMMA AddedCount ==
  ASSUME FactAssumption, RoomAssumption,
         NEW p, NEW turn, NEW c, NEW o, NEW e, NEW f,
         Sound(p, turn), Addition(p, turn, c, o, e, f)
  PROVE  LET q == Added(p, c, o, e)
         IN  /\ Cardinality(DOMAIN q.opinions) <= MaxOpinions
             /\ WithinBasis(q)
             /\ Grounds(q) = Grounds(p) \cup {f}
             /\ Len(q.episodes) = Cardinality(Grounds(q))
             /\ Len(q.episodes) <= MaxEpisodes
             /\ \A k \in DOMAIN q.opinions : OpinionValid(k, q.opinions[k])
             /\ Extends(p, q)
<1> DEFINE q == Added(p, c, o, e)
           n == Len(p.episodes)
<1>1. /\ DOMAIN q.opinions = DOMAIN p.opinions \cup {c}
      /\ q.opinions[c] = o
      /\ \A k \in DOMAIN p.opinions : k # c => q.opinions[k] = p.opinions[k]
      /\ n \in Nat /\ Len(q.episodes) = n + 1
      /\ PerspectiveType(q)
  <2>1. PerspectiveType(p)
    BY Zenon DEF Sound
  <2> QED BY <2>1, AddedParts
<1> HIDE DEF q
<1>2. /\ p.opinions \in UNION {[D -> OpinionRecords] : D \in SUBSET Concepts}
      /\ q.opinions \in UNION {[D -> OpinionRecords] : D \in SUBSET Concepts}
  BY <1>1 DEF PerspectiveType, Sound
<1>3. Cardinality(DOMAIN q.opinions) <= MaxOpinions
  <2>1. IsFiniteSet(DOMAIN p.opinions)
    <3>1. DOMAIN p.opinions \in SUBSET Concepts
      BY <1>2
    <3> QED BY <3>1, FS_Subset DEF FactAssumption
  <2>2. CASE Has(p, c)
    <3>1. DOMAIN q.opinions = DOMAIN p.opinions
      BY <1>1, <2>2 DEF Has
    <3> QED BY <3>1 DEF Sound
  <2>3. CASE ~ Has(p, c)
    <3> DEFINE D == DOMAIN p.opinions
    <3>1. Cardinality(D) < MaxOpinions
      BY <2>3 DEF Addition
    <3>2. c \notin D
      BY <2>3 DEF Has
    <3> HIDE DEF D
    <3>3. IsFiniteSet(D)
      BY <2>1 DEF D
    <3>4. Cardinality(D \cup {c}) = Cardinality(D) + 1 /\ Cardinality(D) \in Nat
      BY <3>2, <3>3, FS_AddElement, FS_CardinalityType
    <3>5. Cardinality(D \cup {c}) <= MaxOpinions
      BY <3>1, <3>4 DEF FactAssumption
    <3> QED BY <3>5, <1>1 DEF D
  <2> QED BY <2>2, <2>3
<1>4. WithinBasis(q)
  BY <1>1 DEF WithinBasis, Sound, Addition
<1>5. Extends(p, q)
  BY <1>1 DEF Extends, Addition, Has
<1>6. \A k \in DOMAIN q.opinions : OpinionValid(k, q.opinions[k])
  <2> SUFFICES ASSUME NEW k \in DOMAIN q.opinions PROVE OpinionValid(k, q.opinions[k])
    OBVIOUS
  <2>1. CASE k = c
    BY <1>1, <2>1 DEF Addition
  <2>2. CASE k # c
    <3>1. k \in DOMAIN p.opinions /\ q.opinions[k] = p.opinions[k]
      BY <1>1, <2>2
    <3>2. OpinionValid(k, p.opinions[k])
      BY <3>1 DEF Sound
    <3> QED BY <3>1, <3>2
  <2> QED BY <2>1, <2>2
<1>7. Grounds(q) = Grounds(p) \cup {f}
  <2>1. CASE Has(p, c)
    <3>1. o.grounding = p.opinions[c].grounding \cup {f}
      BY <2>1 DEF Addition
    <3>2. DOMAIN q.opinions = DOMAIN p.opinions /\ c \in DOMAIN p.opinions
      BY <1>1, <2>1 DEF Has
    <3> QED BY <1>1, <3>1, <3>2 DEF Grounds
  <2>2. CASE ~ Has(p, c)
    <3>1. o.grounding = {f}
      BY <2>2 DEF Addition
    <3>2. c \notin DOMAIN p.opinions
      BY <2>2 DEF Has
    <3> QED BY <1>1, <3>1, <3>2 DEF Grounds
  <2> QED BY <2>1, <2>2
<1>8. f \notin Grounds(p)
  <2>1. SUFFICES ASSUME NEW k \in DOMAIN p.opinions, f \in p.opinions[k].grounding
                 PROVE  FALSE
    BY DEF Grounds
  <2>2. OpinionValid(k, p.opinions[k])
    BY DEF Sound
  <2>3. SubjectOf[f] = k
    BY <2>1, <2>2 DEF OpinionValid
  <2>4. k = c
    BY <2>3 DEF Addition
  <2> QED BY <2>1, <2>4 DEF Addition, Has
<1>9. /\ IsFiniteSet(Grounds(q)) /\ Cardinality(Grounds(q)) <= MaxEpisodes
      /\ IsFiniteSet(Grounds(p))
  <2>1. IsFiniteSet(Grounds(q)) /\ Cardinality(Grounds(q)) <= MaxEpisodes
    BY <1>2, <1>3, <1>4, RoomForGrounds DEF WithinBasis, Grounds
  <2>2. Grounds(p) \in SUBSET Grounds(q)
    BY <1>7
  <2> QED BY <2>1, <2>2, FS_Subset
<1>10. Cardinality(Grounds(q)) = Cardinality(Grounds(p)) + 1
  BY <1>7, <1>8, <1>9, FS_AddElement
<1>11. n = Cardinality(Grounds(p))
  BY DEF Sound
<1> QED BY <1>1, <1>3, <1>4, <1>5, <1>6, <1>7, <1>9, <1>10, <1>11 DEF q

(* Why an episode was written depends on the primary fact alone.           *)
LEMMA ReasonsKeep ==
  ASSUME NEW e, NEW o, NEW r, r.primary = o.primary, ReasonHolds(e, o)
  PROVE  ReasonHolds(e, r)
BY DEF ReasonHolds

(* The episodes stay valid, and of turns no later than the current one.    *)
LEMMA AddedHistory ==
  ASSUME FactAssumption, RoomAssumption,
         NEW p, NEW turn \in Nat \ {0}, NEW c, NEW o, NEW e, NEW f,
         Sound(p, turn), Addition(p, turn, c, o, e, f)
  PROVE  LET q == Added(p, c, o, e)
         IN  /\ EpisodesValid(q)
             /\ \A i \in 1 .. Len(q.episodes) : q.episodes[i].turn <= turn
<1> DEFINE q == Added(p, c, o, e)
           n == Len(p.episodes)
<1>1. /\ DOMAIN q.opinions = DOMAIN p.opinions \cup {c}
      /\ q.opinions[c] = o
      /\ n \in Nat /\ Len(q.episodes) = n + 1 /\ q.episodes[n + 1] = e
      /\ \A i \in 1 .. n : q.episodes[i] = p.episodes[i]
      /\ q.nextId = p.nextId + 1
  <2>1. PerspectiveType(p)
    BY Zenon DEF Sound
  <2> QED BY <2>1, AddedParts
<1>2. Extends(p, q)
  BY AddedCount
<1> HIDE DEF q
<1>3. \A i \in 1 .. n : p.episodes[i] \in EpisodeRecords
  <2>1. p.episodes \in Seq(EpisodeRecords)
    BY DEF Sound, PerspectiveType
  <2> QED BY <2>1
<1>4. EpisodesValid(p) /\ p.nextId \in Nat
  BY DEF Sound, PerspectiveType
<1>5. /\ e.id = p.nextId /\ e.turn = turn /\ e.topic = c /\ e.resulting = o.polarity
      /\ ReasonHolds(e, o)
  BY DEF Addition
<1>6. \A i \in 1 .. n : p.episodes[i].turn <= turn
  BY DEF Sound
<1>7. ASSUME NEW i \in 1 .. Len(q.episodes)
      PROVE  /\ q.episodes[i].id < q.nextId /\ q.episodes[i].turn > 0
             /\ q.episodes[i].turn <= turn
             /\ Has(q, q.episodes[i].topic)
             /\ ReasonHolds(q.episodes[i], q.opinions[q.episodes[i].topic])
  <2>1. CASE i = n + 1
    <3>1. q.episodes[i] = e
      BY <1>1, <2>1
    <3>2. Has(q, c) /\ q.opinions[c] = o
      BY <1>1 DEF Has
    <3>3. e.id < q.nextId /\ e.turn > 0 /\ e.turn <= turn
      BY <1>1, <1>4, <1>5
    <3> QED BY <3>1, <3>2, <3>3, <1>5, Zenon
  <2>2. CASE i \in 1 .. n
    <3> DEFINE g == p.episodes[i]
    <3>1. q.episodes[i] = g
      BY <1>1, <2>2
    <3>2. g.id < p.nextId /\ g.turn > 0 /\ Has(p, g.topic) /\ ReasonHolds(g, p.opinions[g.topic])
      BY <1>4, <2>2 DEF EpisodesValid
    <3>3. g.id \in Nat /\ g.turn <= turn
      BY <1>3, <1>6, <2>2 DEF EpisodeRecords
    <3>4. Has(q, g.topic) /\ q.opinions[g.topic].primary = p.opinions[g.topic].primary
      BY <1>2, <3>2 DEF Extends, Has
    <3>5. ReasonHolds(g, q.opinions[g.topic])
      BY <3>2, <3>4, ReasonsKeep, Zenon
    <3>6. g.id < q.nextId
      BY <1>1, <1>4, <3>2, <3>3
    <3> HIDE DEF g
    <3> QED BY <3>1, <3>2, <3>3, <3>4, <3>5, <3>6
  <2> QED BY <1>1, <2>1, <2>2
<1>8. ASSUME NEW i \in 1 .. Len(q.episodes), NEW j \in 1 .. Len(q.episodes), i < j
      PROVE  /\ q.episodes[i].id < q.episodes[j].id
             /\ q.episodes[i].turn <= q.episodes[j].turn
  <2>1. CASE j = n + 1
    <3>1. i \in 1 .. n /\ q.episodes[i] = p.episodes[i] /\ q.episodes[j] = e
      BY <1>1, <1>8, <2>1
    <3>2. p.episodes[i].id < p.nextId /\ p.episodes[i].turn <= turn
      BY <1>4, <1>6, <3>1 DEF EpisodesValid
    <3> QED BY <1>5, <3>1, <3>2
  <2>2. CASE j # n + 1
    <3>1. /\ i \in 1 .. n /\ j \in 1 .. n
          /\ q.episodes[i] = p.episodes[i] /\ q.episodes[j] = p.episodes[j]
      BY <1>1, <1>8, <2>2
    <3> QED BY <1>4, <1>8, <3>1 DEF EpisodesValid
  <2> QED BY <2>1, <2>2
<1>9. ASSUME NEW i \in 1 .. Len(q.episodes), NEW j \in 1 .. Len(q.episodes), i < j,
             q.episodes[i].topic = q.episodes[j].topic,
             \A k \in i + 1 .. j - 1 : q.episodes[k].topic # q.episodes[i].topic
      PROVE  q.episodes[j].previous = q.episodes[i].resulting
  <2>1. CASE j = n + 1
    <3>1. i \in 1 .. n /\ q.episodes[i] = p.episodes[i] /\ q.episodes[j] = e
      BY <1>1, <1>9, <2>1
    <3>2. p.episodes[i].topic = c
      BY <1>5, <1>9, <3>1
    <3>3. Has(p, c) /\ c \in DOMAIN p.opinions
      BY <1>4, <3>1, <3>2 DEF EpisodesValid, Has
    <3>4. e.previous = p.opinions[c].polarity
      BY <3>3 DEF Addition
    <3>5. PICK last \in EpisodesOf(p, c) :
            /\ \A k \in EpisodesOf(p, c) : k <= last
            /\ p.episodes[last].resulting = p.opinions[c].polarity
      BY <3>3 DEF Sound, OpinionExplained
    <3>6. last \in 1 .. n /\ p.episodes[last].topic = c /\ i <= last
      BY <3>1, <3>2, <3>5 DEF EpisodesOf
    <3>7. q.episodes[last] = p.episodes[last]
      BY <1>1, <3>6
    <3>8. ~ (i < last)
      BY <1>9, <2>1, <3>1, <3>2, <3>6, <3>7
    <3>9. last = i
      BY <3>1, <3>6, <3>8
    <3> QED BY <3>1, <3>4, <3>5, <3>9
  <2>2. CASE j # n + 1
    <3>1. /\ i \in 1 .. n /\ j \in 1 .. n
          /\ q.episodes[i] = p.episodes[i] /\ q.episodes[j] = p.episodes[j]
      BY <1>1, <1>9, <2>2
    <3>2. \A k \in i + 1 .. j - 1 : p.episodes[k].topic # p.episodes[i].topic
      <4> SUFFICES ASSUME NEW k \in i + 1 .. j - 1
                   PROVE  p.episodes[k].topic # p.episodes[i].topic
        OBVIOUS
      <4>1. k \in 1 .. n
        BY <1>1, <3>1
      <4> QED BY <1>1, <1>9, <3>1, <4>1
    <3> QED BY <1>4, <1>9, <3>1, <3>2 DEF EpisodesValid
  <2> QED BY <2>1, <2>2
<1> QED
  <2>1. EpisodesValid(q)
    BY <1>7, <1>8, <1>9 DEF EpisodesValid
  <2> QED BY <1>7, <2>1 DEF q

(* Every opinion is explained by its episodes, the new one among them.     *)
LEMMA AddedExplained ==
  ASSUME FactAssumption,
         NEW p, NEW turn, NEW c, NEW o, NEW e, NEW f,
         Sound(p, turn), Addition(p, turn, c, o, e, f)
  PROVE  LET q == Added(p, c, o, e)
         IN  \A k \in DOMAIN q.opinions : OpinionExplained(q, k)
<1> DEFINE q == Added(p, c, o, e)
           n == Len(p.episodes)
<1>1. /\ DOMAIN q.opinions = DOMAIN p.opinions \cup {c}
      /\ q.opinions[c] = o
      /\ \A k \in DOMAIN p.opinions : k # c => q.opinions[k] = p.opinions[k]
      /\ n \in Nat /\ Len(q.episodes) = n + 1 /\ q.episodes[n + 1] = e
      /\ \A i \in 1 .. n : q.episodes[i] = p.episodes[i]
  <2>1. PerspectiveType(p)
    BY Zenon DEF Sound
  <2> QED BY <2>1, AddedParts
<1> HIDE DEF q
<1>2. e.topic = c /\ e.resulting = o.polarity
  BY DEF Addition
<1>3. ASSUME NEW k \in DOMAIN q.opinions, k # c PROVE OpinionExplained(q, k)
  <2>1. k \in DOMAIN p.opinions /\ q.opinions[k] = p.opinions[k]
    BY <1>1, <1>3
  <2>2. OpinionExplained(p, k)
    BY <2>1 DEF Sound
  <2>3. EpisodesOf(q, k) = EpisodesOf(p, k)
    BY <1>1, <1>2, <1>3 DEF EpisodesOf
  <2>4. \A i \in EpisodesOf(p, k) : q.episodes[i] = p.episodes[i]
    BY <1>1 DEF EpisodesOf
  <2> QED BY <2>1, <2>2, <2>3, <2>4 DEF OpinionExplained
<1>4. OpinionExplained(q, c)
  <2> DEFINE old == EpisodesOf(p, c)
  <2>1. EpisodesOf(q, c) = old \cup {n + 1}
    BY <1>1, <1>2 DEF EpisodesOf
  <2>2. old \subseteq 1 .. n /\ IsFiniteSet(old) /\ Cardinality(old) \in Nat
    <3>1. old \in SUBSET (1 .. n)
      BY DEF EpisodesOf
    <3>2. IsFiniteSet(1 .. n)
      <4>1. 1 \in Int /\ n \in Int
        BY <1>1
      <4> QED BY <4>1, FS_Interval, Zenon
    <3> QED BY <3>1, <3>2, FS_Subset, FS_CardinalityType
  <2> HIDE DEF old
  <2>3. Cardinality(old \cup {n + 1}) = Cardinality(old) + 1
    <3>1. n + 1 \notin old
      BY <1>1, <2>2
    <3> QED BY <2>2, <3>1, FS_AddElement, Zenon
  <2>4. Cardinality(old) + 1 <= o.revision
    <3>1. CASE Has(p, c)
      <4>1. o.revision = p.opinions[c].revision + 1
        BY <3>1 DEF Addition
      <4>2. c \in DOMAIN p.opinions /\ p.opinions[c].revision \in Nat
        <5>1. c \in DOMAIN p.opinions
          BY <3>1 DEF Has
        <5>2. p.opinions[c] \in OpinionRecords
          BY <5>1 DEF Sound, PerspectiveType
        <5> QED BY <5>1, <5>2 DEF OpinionRecords
      <4>3. Cardinality(old) <= p.opinions[c].revision
        BY <4>2 DEF Sound, OpinionExplained, old
      <4> QED BY <2>2, <4>1, <4>2, <4>3
    <3>2. CASE ~ Has(p, c)
      <4>1. old = {}
        BY <3>2 DEF Sound, EpisodesValid, EpisodesOf, old
      <4>2. Cardinality(old) = 0 /\ o.revision = 1
        BY <3>2, <4>1, FS_EmptySet DEF Addition
      <4> QED BY <4>2
    <3> QED BY <3>1, <3>2
  <2>5. \A i \in old \cup {n + 1} : i <= n + 1
    BY <1>1, <2>2
  <2> QED BY <1>1, <1>2, <2>1, <2>3, <2>4, <2>5 DEF OpinionExplained
<1>5. \A k \in DOMAIN q.opinions : OpinionExplained(q, k)
  BY <1>3, <1>4
<1> QED BY <1>5 DEF q

-----------------------------------------------------------------------------
(* A claim that was taken: the perspective is sound, nothing was given up, *)
(* the claim has its place and the opinions rest on its fact, and on no    *)
(* other new one.                                                          *)
Taken(p, q, turn, claim) ==
  /\ Sound(q, turn)
  /\ Extends(p, q)
  /\ Settled(q, claim)
  /\ Grounds(q) = Grounds(p) \cup {claim.fact}

ClaimRecords == [role : Roles, fact : Facts]

LEMMA AdditionIsTaken ==
  ASSUME FactAssumption, RoomAssumption,
         NEW p, NEW turn \in Nat \ {0}, NEW c, NEW o, NEW e, NEW claim,
         Sound(p, turn), Addition(p, turn, c, o, e, claim.fact),
         Cites(claim.fact, o.primary, claim.role)
  PROVE  Taken(p, Added(p, c, o, e), turn, claim)
<1> DEFINE q == Added(p, c, o, e)
<1>1. PerspectiveType(q) /\ q.opinions[c] = o /\ c \in DOMAIN q.opinions
  <2>1. PerspectiveType(p)
    BY Zenon DEF Sound
  <2> QED BY <2>1, AddedParts
<1>2. /\ Cardinality(DOMAIN q.opinions) <= MaxOpinions
      /\ WithinBasis(q) /\ Extends(p, q)
      /\ Grounds(q) = Grounds(p) \cup {claim.fact}
      /\ Len(q.episodes) = Cardinality(Grounds(q))
      /\ \A k \in DOMAIN q.opinions : OpinionValid(k, q.opinions[k])
  BY AddedCount
<1>3. EpisodesValid(q) /\ \A i \in 1 .. Len(q.episodes) : q.episodes[i].turn <= turn
  BY AddedHistory
<1>4. \A k \in DOMAIN q.opinions : OpinionExplained(q, k)
  BY AddedExplained
<1> HIDE DEF q
<1>5. Sound(q, turn)
  BY <1>1, <1>2, <1>3, <1>4, Zenon DEF Sound
<1>6. Settled(q, claim)
  <2>1. SubjectOf[claim.fact] = c /\ claim.fact \in o.grounding
    BY DEF Addition
  <2> QED BY <1>1, <2>1 DEF Settled, Has
<1> QED BY <1>2, <1>5, <1>6, Zenon DEF Taken, q

LEMMA SettledIsTaken ==
  ASSUME NEW p, NEW turn, NEW claim, Sound(p, turn), Settled(p, claim)
  PROVE  Taken(p, p, turn, claim)
<1>1. Extends(p, p)
  BY DEF Extends
<1>2. Grounds(p) = Grounds(p) \cup {claim.fact}
  <2>1. claim.fact \in Grounds(p)
    BY DEF Settled, Has, Grounds
  <2> QED BY <2>1
<1> QED BY <1>1, <1>2, Zenon DEF Taken

NewEpisode(p, turn, c, previous, resulting, cited, reason) ==
  [id |-> p.nextId, turn |-> turn, topic |-> c, previous |-> previous,
   resulting |-> resulting, cited |-> cited, reason |-> reason]

(* An episode for which there is room drains none of the others.           *)
LEMMA AppendAdds ==
  ASSUME FactAssumption, NEW p, PerspectiveType(p), NEW turn, NEW c, NEW o,
         NEW previous, NEW resulting, NEW cited, NEW reason,
         Len(p.episodes) + 1 <= MaxEpisodes
  PROVE  AppendEpisode(Hold(p, c, o), turn, c, previous, resulting, cited, reason)
           = Added(p, c, o, NewEpisode(p, turn, c, previous, resulting, cited, reason))
<1> DEFINE e == NewEpisode(p, turn, c, previous, resulting, cited, reason)
           O == [k \in DOMAIN p.opinions \cup {c} |-> IF k = c THEN o ELSE p.opinions[k]]
           h == [opinions |-> O, episodes |-> p.episodes, nextId |-> p.nextId]
           all == Append(p.episodes, e)
<1>1. p = [opinions |-> p.opinions, episodes |-> p.episodes, nextId |-> p.nextId]
  BY Zenon DEF PerspectiveType
<1>2. Hold(p, c, o) = h
  <2> DEFINE r == p.opinions
             s == p.episodes
             m == p.nextId
  <2>1. p = [opinions |-> r, episodes |-> s, nextId |-> m]
    BY <1>1
  <2>2. Hold(p, c, o) = [p EXCEPT !.opinions = O]
    BY DEF Hold
  <2> HIDE DEF O
  <2> QED BY <2>1, <2>2
<1>3. Len(all) - MaxEpisodes <= 0
  <2>1. p.episodes \in Seq(EpisodeRecords)
    BY DEF PerspectiveType
  <2>2. Len(all) = Len(p.episodes) + 1 /\ Len(p.episodes) \in Nat
    BY <2>1
  <2> QED BY <2>2 DEF FactAssumption
<1>4. AppendEpisode(h, turn, c, previous, resulting, cited, reason)
        = [opinions |-> O, episodes |-> all, nextId |-> p.nextId + 1]
  <2>1. ~ (Len(all) - MaxEpisodes > 0)
    <3>1. Len(all) - MaxEpisodes \in Int
      <4>1. p.episodes \in Seq(EpisodeRecords)
        BY DEF PerspectiveType
      <4>2. Len(all) \in Nat
        BY <4>1
      <4> QED BY <4>2 DEF FactAssumption
    <3> QED BY <1>3, <3>1
  <2>2. h.episodes = p.episodes /\ h.nextId = p.nextId /\ h.opinions = O
    OBVIOUS
  <2> HIDE DEF h, O
  <2> QED BY <2>1, <2>2 DEF AppendEpisode, NewEpisode
<1> QED BY <1>2, <1>4 DEF Added

(* establish_opinion: a thesis is taken, or refused for another primary.   *)
LEMMA EstablishTakes ==
  ASSUME FactAssumption, PackAssumption, RoomAssumption,
         NEW p, NEW turn \in Nat \ {0}, NEW claim \in ClaimRecords,
         Sound(p, turn), claim.role = "Thesis",
         \/ Has(p, SubjectOf[claim.fact])
         \/ Cardinality(DOMAIN p.opinions) < MaxOpinions
  PROVE  LET r == Establish(p, turn, claim.fact)
         IN  r.ok \in BOOLEAN /\ (r.ok => Taken(p, r.p, turn, claim))
<1> DEFINE f == claim.fact
           c == SubjectOf[f]
           r == Establish(p, turn, f)
<1>1. f \in Facts /\ c \in Concepts
  BY DEF FactAssumption, ClaimRecords
<1>2. CASE Has(p, c) /\ p.opinions[c].primary = f
  <2>1. r = Ok(p)
    BY <1>2 DEF Establish
  <2>2. f \in p.opinions[c].grounding
    BY <1>2 DEF Sound, OpinionValid, Has
  <2>3. Settled(p, claim)
    BY <1>2, <2>2 DEF Settled, Cites
  <2>4. r.ok = TRUE /\ r.p = p
    BY <2>1 DEF Ok
  <2> QED BY <2>3, <2>4, SettledIsTaken
<1>3. CASE Has(p, c) /\ p.opinions[c].primary # f
  <2>1. r = Err(p)
    BY <1>3 DEF Establish
  <2> QED BY <2>1 DEF Err
<1>4. CASE ~ Has(p, c)
  <2> DEFINE o == [primary |-> f, polarity |-> "Affirmed", grounding |-> {f}, revision |-> 1]
             e == NewEpisode(p, turn, c, NoPolarity, "Affirmed", {f}, "Established")
  <2>1. OpinionValid(c, o)
    <3>1. <<f, f>> \notin Counters
      BY <1>1 DEF PackAssumption
    <3>2. ~ HasCounterpoint(o)
      BY <3>1 DEF HasCounterpoint
    <3> QED BY <3>2 DEF OpinionValid
  <2>2. o \in OpinionRecords /\ o.grounding \subseteq Basis(o.primary)
    BY <1>1 DEF OpinionRecords, BeliefPolarities, Basis
  <2>3. e \in EpisodeRecords
    <3>1. p.nextId \in Nat
      BY DEF Sound, PerspectiveType
    <3> QED BY <1>1, <3>1 DEF EpisodeRecords, NewEpisode, BeliefPolarities
  <2>4. ReasonHolds(e, o)
    BY DEF ReasonHolds, NewEpisode
  <2>5. /\ e.id = p.nextId /\ e.turn = turn /\ e.topic = c /\ e.resulting = o.polarity
        /\ o.grounding = {f} /\ o.revision = 1 /\ o.primary = f
    BY DEF NewEpisode
  <2>6. Cardinality(DOMAIN p.opinions) < MaxOpinions
    BY <1>4
  <2> HIDE DEF o, e
  <2>7. Addition(p, turn, c, o, e, f)
    BY <1>1, <1>4, <2>1, <2>2, <2>3, <2>4, <2>5, <2>6, Zenon DEF Addition
  <2>8. Cites(f, o.primary, claim.role)
    BY <2>5 DEF Cites
  <2>9. Taken(p, Added(p, c, o, e), turn, claim)
    BY <2>7, <2>8, AdditionIsTaken
  <2>10. PerspectiveType(p) /\ Len(p.episodes) + 1 <= MaxEpisodes
    <3>1. PerspectiveType(p)
      BY Zenon DEF Sound
    <3>2. Len(Added(p, c, o, e).episodes) = Len(p.episodes) + 1
      BY <2>7, <3>1, AddedParts
    <3> QED BY <2>7, <3>1, <3>2, AddedCount
  <2>11. AppendEpisode(Hold(p, c, o), turn, c, NoPolarity, "Affirmed", {f}, "Established")
           = Added(p, c, o, e)
    BY <2>10, AppendAdds DEF e
  <2>12. r = Ok(Added(p, c, o, e))
    BY <1>4, <2>11 DEF Establish, o
  <2>13. r.ok = TRUE /\ r.p = Added(p, c, o, e)
    BY <2>12 DEF Ok
  <2> QED BY <2>9, <2>13
<1> QED BY <1>2, <1>3, <1>4

(* A counterpoint or a consequence of the primary fact is taken: once as a *)
(* new episode, and ever after as already said.                            *)
LEMMA GroundTakes ==
  ASSUME FactAssumption, PackAssumption, RoomAssumption,
         NEW p, NEW turn \in Nat \ {0}, NEW claim \in ClaimRecords,
         NEW polarity, NEW reason,
         Sound(p, turn), Has(p, SubjectOf[claim.fact]),
         Cites(claim.fact, p.opinions[SubjectOf[claim.fact]].primary, claim.role),
         \/ /\ polarity = "Qualified" /\ reason = "Qualified"
            /\ <<claim.fact, p.opinions[SubjectOf[claim.fact]].primary>> \in Counters
         \/ /\ polarity = p.opinions[SubjectOf[claim.fact]].polarity /\ reason = "Reinforced"
            /\ <<claim.fact, p.opinions[SubjectOf[claim.fact]].primary>> \in FollowsFrom
  PROVE  Taken(p, Ground(p, turn, claim.fact, polarity, reason), turn, claim)
<1> DEFINE f == claim.fact
           c == SubjectOf[f]
           b == p.opinions[c]
<1>1. f \in Facts /\ c \in Concepts /\ c \in DOMAIN p.opinions
  BY DEF FactAssumption, ClaimRecords, Has
<1>2. b \in OpinionRecords /\ OpinionValid(c, b) /\ b.grounding \subseteq Basis(b.primary)
  BY <1>1 DEF Sound, PerspectiveType, WithinBasis
<1>3. CASE f \in b.grounding
  <2>1. Settled(p, claim)
    BY <1>3 DEF Settled
  <2>2. Ground(p, turn, f, polarity, reason) = p
    BY <1>3 DEF Ground
  <2> QED BY <2>1, <2>2, SettledIsTaken
<1>4. CASE f \notin b.grounding
  <2> DEFINE o == [primary |-> b.primary, polarity |-> polarity,
                   grounding |-> b.grounding \cup {f}, revision |-> b.revision + 1]
             e == NewEpisode(p, turn, c, b.polarity, polarity, {b.primary, f}, reason)
  <2>1. /\ b.primary \in Facts /\ b.polarity \in BeliefPolarities /\ b.revision \in Nat
        /\ b.grounding \subseteq Facts /\ b.primary \in b.grounding
        /\ SubjectOf[b.primary] = c /\ \A g \in b.grounding : SubjectOf[g] = c
        /\ (b.polarity = "Qualified") <=> HasCounterpoint(b)
    BY <1>2 DEF OpinionRecords, OpinionValid
  <2>2. polarity \in BeliefPolarities /\ reason \in {"Established", "Qualified", "Reinforced"}
    BY <2>1 DEF BeliefPolarities
  <2>3. /\ o.primary = b.primary /\ o.polarity = polarity
        /\ o.grounding = b.grounding \cup {f} /\ o.revision = b.revision + 1
        /\ e.id = p.nextId /\ e.turn = turn /\ e.topic = c /\ e.resulting = o.polarity
        /\ e.previous = b.polarity /\ e.cited = {b.primary, f} /\ e.reason = reason
    BY DEF NewEpisode
  <2>4. o \in OpinionRecords
    BY <1>1, <2>1, <2>2 DEF OpinionRecords
  <2>5. e \in EpisodeRecords
    <3>1. p.nextId \in Nat
      BY DEF Sound, PerspectiveType
    <3> QED BY <1>1, <2>1, <2>2, <3>1 DEF EpisodeRecords, NewEpisode
  <2> HIDE DEF o, e
  <2>6. HasCounterpoint(o) <=> (HasCounterpoint(b) \/ <<f, b.primary>> \in Counters)
    BY <2>3 DEF HasCounterpoint
  <2>7. OpinionValid(c, o)
    <3>1. (o.polarity = "Qualified") <=> HasCounterpoint(o)
      <4>1. CASE <<f, b.primary>> \in Counters
        <5>1. <<f, b.primary>> \notin FollowsFrom
          BY <4>1 DEF PackAssumption
        <5> QED BY <2>3, <2>6, <4>1, <5>1
      <4>2. CASE <<f, b.primary>> \notin Counters
        BY <2>1, <2>3, <2>6, <4>2
      <4> QED BY <4>1, <4>2
    <3>2. o.revision > 0
      BY <2>1, <2>3
    <3>3. o.primary \in o.grounding /\ \A g \in o.grounding : SubjectOf[g] = c
      BY <2>1, <2>3
    <3> QED BY <3>1, <3>2, <3>3, Zenon DEF OpinionValid
  <2>8. o.grounding \subseteq Basis(o.primary)
    <3>1. f \in Basis(b.primary)
      BY <1>1 DEF Basis
    <3> QED BY <1>2, <2>3, <3>1
  <2>9. ReasonHolds(e, o)
    <3>1. b.primary \in e.cited /\ f \in e.cited /\ \A g \in e.cited : SubjectOf[g] = e.topic
      BY <2>1, <2>3
    <3>2. e.previous # NoPolarity
      BY <2>1, <2>3 DEF FactAssumption
    <3>3. CASE reason = "Qualified"
      BY <2>3, <3>1, <3>2, <3>3 DEF ReasonHolds
    <3>4. CASE reason = "Reinforced"
      BY <2>3, <3>1, <3>4 DEF ReasonHolds
    <3> QED BY <3>3, <3>4
  <2>10. Addition(p, turn, c, o, e, f)
    BY <1>1, <1>4, <2>3, <2>4, <2>5, <2>7, <2>8, <2>9, Zenon DEF Addition
  <2>11. Taken(p, Added(p, c, o, e), turn, claim)
    BY <2>3, <2>10, AdditionIsTaken
  <2>12. PerspectiveType(p) /\ Len(p.episodes) + 1 <= MaxEpisodes
    <3>1. PerspectiveType(p)
      BY Zenon DEF Sound
    <3>2. Len(Added(p, c, o, e).episodes) = Len(p.episodes) + 1
      BY <2>10, <3>1, AddedParts
    <3> QED BY <2>10, <3>1, <3>2, AddedCount
  <2>13. AppendEpisode(Hold(p, c, o), turn, c, b.polarity, polarity, {b.primary, f}, reason)
           = Added(p, c, o, e)
    BY <2>12, AppendAdds DEF e
  <2>14. Ground(p, turn, f, polarity, reason) = Added(p, c, o, e)
    BY <1>4, <2>13 DEF Ground, o
  <2> QED BY <2>11, <2>14
<1> QED BY <1>3, <1>4

(* integrate_curated_claims on one claim.                                  *)
RoomFor(p, c) == Has(p, c) \/ Cardinality(DOMAIN p.opinions) < MaxOpinions

LEMMA ClaimTakes ==
  ASSUME FactAssumption, PackAssumption, RoomAssumption,
         NEW p, NEW turn \in Nat \ {0}, NEW claim \in ClaimRecords,
         Sound(p, turn), RoomFor(p, SubjectOf[claim.fact])
  PROVE  LET r == IntegrateClaim(p, turn, claim)
         IN  r.ok \in BOOLEAN /\ (r.ok => Taken(p, r.p, turn, claim))
<1> DEFINE r == IntegrateClaim(p, turn, claim)
           f == claim.fact
           c == SubjectOf[f]
<1>1. CASE claim.role = "Thesis"
  <2>1. r = Establish(p, turn, f)
    BY <1>1 DEF IntegrateClaim
  <2> QED BY <1>1, <2>1, EstablishTakes DEF RoomFor
<1>2. CASE claim.role = "Counterpoint"
  <2>1. r = Qualify(p, turn, f)
    BY <1>2 DEF IntegrateClaim
  <2>2. CASE Has(p, c) /\ <<f, p.opinions[c].primary>> \in Counters
    <3>1. r = Ok(Ground(p, turn, f, "Qualified", "Qualified"))
      BY <2>1, <2>2 DEF Qualify
    <3>2. Cites(f, p.opinions[c].primary, claim.role)
      BY <1>2, <2>2 DEF Cites
    <3>3. Taken(p, Ground(p, turn, f, "Qualified", "Qualified"), turn, claim)
      BY <2>2, <3>2, GroundTakes
    <3> QED BY <3>1, <3>3 DEF Ok
  <2>3. CASE ~ (Has(p, c) /\ <<f, p.opinions[c].primary>> \in Counters)
    <3>1. r = Err(p)
      BY <2>1, <2>3 DEF Qualify
    <3> QED BY <3>1 DEF Err
  <2> QED BY <2>2, <2>3
<1>3. CASE claim.role \notin {"Thesis", "Counterpoint"}
  <2>1. r = Reinforce(p, turn, f)
    BY <1>3 DEF IntegrateClaim
  <2>2. CASE Has(p, c) /\ <<f, p.opinions[c].primary>> \in FollowsFrom
    <3>1. r = Ok(Ground(p, turn, f, p.opinions[c].polarity, "Reinforced"))
      BY <2>1, <2>2 DEF Reinforce
    <3>2. Cites(f, p.opinions[c].primary, claim.role)
      BY <1>3, <2>2 DEF Cites
    <3>3. Taken(p, Ground(p, turn, f, p.opinions[c].polarity, "Reinforced"), turn, claim)
      BY <2>2, <3>2, GroundTakes
    <3> QED BY <3>1, <3>3 DEF Ok
  <2>3. CASE ~ (Has(p, c) /\ <<f, p.opinions[c].primary>> \in FollowsFrom)
    <3>1. r = Err(p)
      BY <2>1, <2>3 DEF Reinforce
    <3> QED BY <3>1 DEF Err
  <2> QED BY <2>2, <2>3
<1> QED BY <1>1, <1>2, <1>3

(* A claim that has its place leaves everything as it is.                  *)
LEMMA SettledClaimIsIdle ==
  ASSUME NEW p, NEW turn, NEW claim, Settled(p, claim)
  PROVE  IntegrateClaim(p, turn, claim) = Ok(p)
<1> DEFINE f == claim.fact
           c == SubjectOf[f]
<1>1. Has(p, c) /\ f \in p.opinions[c].grounding /\ Cites(f, p.opinions[c].primary, claim.role)
  BY DEF Settled
<1>2. \A polarity, reason : Ground(p, turn, f, polarity, reason) = p
  BY <1>1 DEF Ground
<1>3. CASE claim.role = "Thesis"
  BY <1>1, <1>3 DEF IntegrateClaim, Establish, Cites
<1>4. CASE claim.role = "Counterpoint"
  BY <1>1, <1>2, <1>4 DEF IntegrateClaim, Qualify, Cites
<1>5. CASE claim.role \notin {"Thesis", "Counterpoint"}
  BY <1>1, <1>2, <1>5 DEF IntegrateClaim, Reinforce, Cites
<1> QED BY <1>3, <1>4, <1>5

LEMMA ExtendsTransitive ==
  ASSUME NEW p, NEW q, NEW r, Extends(p, q), Extends(q, r)
  PROVE  Extends(p, r)
BY DEF Extends

LEMMA SettledStays ==
  ASSUME NEW p, NEW q, NEW claim, Extends(p, q), Settled(p, claim)
  PROVE  Settled(q, claim)
BY DEF Extends, Settled, Has

-----------------------------------------------------------------------------
(* A plan, claim by claim: what holds once its first n claims were taken.  *)
TakenSoFar(p, q, turn, claims, n) ==
  /\ Sound(q, turn)
  /\ Extends(p, q)
  /\ \A i \in 1 .. n : Settled(q, claims[i])
  /\ Grounds(q) = Grounds(p) \cup {claims[i].fact : i \in 1 .. n}

LEMMA NextIsTaken ==
  ASSUME NEW p, NEW q, NEW r, NEW turn, NEW claims, NEW n \in Nat \ {0},
         TakenSoFar(p, q, turn, claims, n - 1), Taken(q, r, turn, claims[n])
  PROVE  TakenSoFar(p, r, turn, claims, n)
<1>1. 1 .. n = (1 .. n - 1) \cup {n}
  OBVIOUS
<1>2. Sound(r, turn) /\ Extends(q, r) /\ Settled(r, claims[n])
  BY DEF Taken
<1>3. Extends(p, r)
  BY <1>2, ExtendsTransitive DEF TakenSoFar
<1>4. \A i \in 1 .. n : Settled(r, claims[i])
  <2>1. \A i \in 1 .. n - 1 : Settled(r, claims[i])
    BY <1>2, SettledStays DEF TakenSoFar
  <2> QED BY <1>1, <1>2, <2>1
<1>5. Grounds(r) = Grounds(p) \cup {claims[i].fact : i \in 1 .. n}
  <2>1. Grounds(r) = Grounds(p) \cup {claims[i].fact : i \in 1 .. n - 1} \cup {claims[n].fact}
    BY DEF Taken, TakenSoFar
  <2> QED BY <1>1, <2>1
<1> QED BY <1>2, <1>3, <1>4, <1>5 DEF TakenSoFar

LEMMA PlanTakes ==
  ASSUME FactAssumption, PackAssumption, RoomAssumption,
         NEW p, NEW turn \in Nat \ {0}, NEW claims \in Seq(ClaimRecords),
         claims # <<>>, Sound(p, turn), Wellformed(claims),
         RoomFor(p, SubjectOf[claims[1].fact])
  PROVE  LET r == Through(p, turn, claims)[Len(claims)]
         IN  r.ok => TakenSoFar(p, r.p, turn, claims, Len(claims))
<1> DEFINE c == SubjectOf[claims[1].fact]
           t == Through(p, turn, claims)
           Good(n) == t[n].ok => TakenSoFar(p, t[n].p, turn, claims, n) /\ RoomFor(t[n].p, c)
           S == {n \in Nat : n \in 0 .. Len(claims) => Good(n)}
<1>1. /\ Len(claims) \in Nat \ {0}
      /\ \A i \in 1 .. Len(claims) : claims[i] \in ClaimRecords /\ SubjectOf[claims[i].fact] = c
  BY DEF Wellformed
<1>2. /\ t[0] = Ok(p)
      /\ \A n \in 1 .. Len(claims) : t[n] = IntegrateNext(t[n - 1], turn, claims[n])
  BY <1>1, ThroughEquations
<1> HIDE DEF t
<1>3. 0 \in S
  <2>1. t[0].p = p
    BY <1>2 DEF Ok
  <2>2. Extends(p, p)
    BY DEF Extends
  <2>3. TakenSoFar(p, p, turn, claims, 0)
    BY <2>2 DEF TakenSoFar
  <2> QED BY <2>1, <2>3
<1>4. ASSUME NEW m \in Nat, m \in S PROVE m + 1 \in S
  <2> SUFFICES ASSUME m + 1 \in 0 .. Len(claims), t[m + 1].ok
               PROVE  /\ TakenSoFar(p, t[m + 1].p, turn, claims, m + 1)
                      /\ RoomFor(t[m + 1].p, c)
    OBVIOUS
  <2> DEFINE n == m + 1
             q == t[m].p
  <2>1. n \in 1 .. Len(claims) /\ n - 1 = m /\ m \in 0 .. Len(claims) /\ n \in Nat \ {0}
    BY <1>1
  <2>2. t[n] = IntegrateNext(t[m], turn, claims[n])
    BY <1>2, <2>1
  <2>3. t[m].ok
    BY <2>2 DEF IntegrateNext
  <2>4. TakenSoFar(p, q, turn, claims, n - 1) /\ RoomFor(q, c)
    BY <1>4, <2>1, <2>3
  <2>5. t[n] = IntegrateClaim(q, turn, claims[n])
    BY <2>2, <2>3 DEF IntegrateNext
  <2>6. claims[n] \in ClaimRecords /\ SubjectOf[claims[n].fact] = c
    BY <1>1, <2>1
  <2> HIDE DEF n, q
  <2>7. Taken(q, t[n].p, turn, claims[n])
    <3>1. Sound(q, turn)
      BY <2>4 DEF TakenSoFar
    <3>2. t[n].ok
      BY DEF n
    <3> QED BY <2>4, <2>5, <2>6, <3>1, <3>2, ClaimTakes
  <2>8. TakenSoFar(p, t[n].p, turn, claims, n)
    BY <2>1, <2>4, <2>7, NextIsTaken
  <2>9. RoomFor(t[n].p, c)
    BY <2>6, <2>7 DEF Taken, Settled, RoomFor
  <2> QED BY <2>8, <2>9 DEF n
<1>5. Len(claims) \in S
  <2>1. \A n \in Nat : n \in S => n + 1 \in S
    BY <1>4
  <2> HIDE DEF S
  <2> QED BY <1>1, <1>3, <2>1, CountingUp
<1> QED BY <1>1, <1>5 DEF t

LEMMA SettledPlanIsIdle ==
  ASSUME NEW p, NEW turn, NEW claims, Len(claims) \in Nat,
         \A i \in 1 .. Len(claims) : Settled(p, claims[i])
  PROVE  Through(p, turn, claims)[Len(claims)] = Ok(p)
<1> DEFINE t == Through(p, turn, claims)
           S == {n \in Nat : n \in 0 .. Len(claims) => t[n] = Ok(p)}
<1>1. /\ t[0] = Ok(p)
      /\ \A n \in 1 .. Len(claims) : t[n] = IntegrateNext(t[n - 1], turn, claims[n])
  BY ThroughEquations
<1> HIDE DEF t
<1>2. 0 \in S
  BY <1>1
<1>3. ASSUME NEW m \in Nat, m \in S PROVE m + 1 \in S
  <2> SUFFICES ASSUME m + 1 \in 0 .. Len(claims) PROVE t[m + 1] = Ok(p)
    OBVIOUS
  <2>1. m + 1 \in 1 .. Len(claims) /\ (m + 1) - 1 = m /\ m \in 0 .. Len(claims)
    OBVIOUS
  <2>2. t[m + 1] = IntegrateNext(Ok(p), turn, claims[m + 1])
    BY <1>1, <1>3, <2>1
  <2>3. IntegrateClaim(p, turn, claims[m + 1]) = Ok(p)
    BY <2>1, SettledClaimIsIdle
  <2> QED BY <2>2, <2>3 DEF IntegrateNext, Ok
<1>4. Len(claims) \in S
  <2>1. \A n \in Nat : n \in S => n + 1 \in S
    BY <1>3
  <2> HIDE DEF S
  <2> QED BY <1>2, <2>1, CountingUp
<1> QED BY <1>4 DEF t

(* integrate_curated_claims gives back a perspective with the whole plan   *)
(* in its place, or the one it was given.                                  *)
LEMMA IntegrateTakesWholePlans ==
  ASSUME FactAssumption, PackAssumption, RoomAssumption,
         NEW p, NEW turn \in Nat \ {0}, NEW claims \in Plans, Sound(p, turn)
  PROVE  LET r == Integrate(p, turn, claims)
         IN  IF r.ok
               THEN Wellformed(claims) /\ TakenSoFar(p, r.p, turn, claims, Len(claims))
               ELSE r.p = p
<1> DEFINE r == Integrate(p, turn, claims)
           end == Through(p, turn, claims)[Len(claims)]
<1>1. claims \in Seq(ClaimRecords)
  BY DEF FactAssumption, ClaimRecords
<1>2. CASE claims = <<>>
  <2>1. r.ok = TRUE /\ r.p = p
    BY <1>2 DEF Integrate, Ok
  <2>2. Len(claims) = 0
    BY <1>2
  <2>3. Wellformed(claims)
    BY <2>2 DEF Wellformed
  <2>4. TakenSoFar(p, p, turn, claims, 0)
    <3>1. Extends(p, p)
      BY DEF Extends
    <3> QED BY <3>1 DEF TakenSoFar
  <2> QED BY <2>1, <2>2, <2>3, <2>4
<1>3. CASE claims # <<>> /\ ~ Admissible(p, claims)
  BY <1>3 DEF Integrate, Err
<1>4. CASE claims # <<>> /\ Admissible(p, claims) /\ ~ end.ok
  BY <1>4 DEF Integrate, Err
<1>5. CASE claims # <<>> /\ Admissible(p, claims) /\ end.ok
  <2>1. r = end
    BY <1>5 DEF Integrate
  <2>2. Wellformed(claims) /\ RoomFor(p, SubjectOf[claims[1].fact])
    BY <1>5 DEF Admissible, Wellformed, RoomFor
  <2>3. TakenSoFar(p, end.p, turn, claims, Len(claims))
    BY <1>1, <1>5, <2>2, PlanTakes
  <2> QED BY <1>5, <2>1, <2>2, <2>3
<1> QED BY <1>2, <1>3, <1>4, <1>5

LEMMA SoundLater ==
  ASSUME NEW p, NEW t \in Nat, NEW u \in Nat, t <= u, Sound(p, t)
  PROVE  Sound(p, u)
<1>1. \A i \in 1 .. Len(p.episodes) : p.episodes[i].turn <= u
  <2> SUFFICES ASSUME NEW i \in 1 .. Len(p.episodes) PROVE p.episodes[i].turn <= u
    OBVIOUS
  <2>1. p.episodes \in Seq(EpisodeRecords)
    BY DEF Sound, PerspectiveType
  <2>2. p.episodes[i] \in EpisodeRecords
    BY <2>1
  <2>3. p.episodes[i].turn \in Nat /\ p.episodes[i].turn <= t
    BY <2>2 DEF EpisodeRecords, Sound
  <2> QED BY <2>3
<1> QED BY <1>1, Zenon DEF Sound

-----------------------------------------------------------------------------
LEMMA EvidenceInitially ==
  ASSUME FactAssumption, EvidenceInit
  PROVE  EvidenceInv
<1> DEFINE p == Perspective
<1>1. /\ p.opinions = << >> /\ p.episodes = << >> /\ p.nextId = 0
      /\ turnSeq = 0 /\ accepted = {}
      /\ p = [opinions |-> p.opinions, episodes |-> p.episodes, nextId |-> p.nextId]
  BY DEF EvidenceInit, Perspective
<1> HIDE DEF p
<1>2. DOMAIN p.opinions = {} /\ Len(p.episodes) = 0
  BY <1>1
<1>3. PerspectiveType(p)
  <2>1. p.opinions \in [{} -> OpinionRecords]
    BY <1>1
  <2>2. p.opinions \in UNION {[D -> OpinionRecords] : D \in SUBSET Concepts}
    BY <2>1
  <2>3. p.episodes \in Seq(EpisodeRecords) /\ p.nextId \in Nat
    BY <1>1
  <2> QED BY <1>1, <2>2, <2>3, Zenon DEF PerspectiveType
<1>4. Grounds(p) = {}
  BY <1>2 DEF Grounds
<1>5. Cardinality(Grounds(p)) = 0 /\ Cardinality(DOMAIN p.opinions) = 0
  BY <1>2, <1>4, FS_EmptySet
<1>6. Sound(p, turnSeq)
  <2>1. Cardinality(DOMAIN p.opinions) <= MaxOpinions
    BY <1>5 DEF FactAssumption
  <2>2. EpisodesValid(p)
    BY <1>2 DEF EpisodesValid
  <2>3. WithinBasis(p)
    BY <1>2 DEF WithinBasis
  <2> QED BY <1>2, <1>3, <1>5, <2>1, <2>2, <2>3 DEF Sound
<1>7. {cl.fact : cl \in Claimed} = {}
  BY <1>1 DEF Claimed
<1> QED BY <1>1, <1>4, <1>6, <1>7 DEF EvidenceInv, p

(* A grounded turn that is taken, or rolled back.                          *)
LEMMA GroundedTurnKeeps ==
  ASSUME FactAssumption, PackAssumption, RoomAssumption, EvidenceInv,
         NEW claims \in Plans, GroundedTurn(claims)
  PROVE  EvidenceInv'
<1> DEFINE p == Perspective
           turn == turnSeq + 1
           r == Integrate(p, turn, claims)
<1>1. turn \in Nat \ {0} /\ turnSeq \in Nat /\ Sound(p, turnSeq) /\ Sound(p, turn)
  BY SoundLater DEF EvidenceInv
<1>2. IF r.ok THEN Wellformed(claims) /\ TakenSoFar(p, r.p, turn, claims, Len(claims))
              ELSE r.p = p
  BY <1>1, IntegrateTakesWholePlans
<1>3. PerspectiveType(r.p)
  BY <1>1, <1>2, Zenon DEF TakenSoFar, Sound
<1>4. Perspective' = r.p
  <2>1. opinions' = r.p.opinions /\ episodes' = r.p.episodes /\ nextEpisode' = r.p.nextId
    BY DEF GroundedTurn
  <2>2. Perspective' = [opinions |-> r.p.opinions, episodes |-> r.p.episodes,
                        nextId |-> r.p.nextId]
    BY <2>1, Zenon DEF Perspective
  <2> QED BY <1>3, <2>2, Zenon DEF PerspectiveType
<1>5. /\ turnSeq' = IF r.ok THEN turn ELSE turnSeq
      /\ accepted' = IF r.ok THEN accepted \cup {claims} ELSE accepted
  BY DEF GroundedTurn
<1> HIDE DEF r
<1>6. CASE ~ r.ok
  <2>1. turnSeq' = turnSeq /\ accepted' = accepted /\ Perspective' = Perspective
    BY <1>2, <1>4, <1>5, <1>6
  <2>2. Claimed' = Claimed
    BY <2>1 DEF Claimed
  <2> QED BY <2>1, <2>2 DEF EvidenceInv
<1>7. CASE r.ok
  <2>1. /\ turnSeq' = turn /\ accepted' = accepted \cup {claims}
        /\ Wellformed(claims) /\ TakenSoFar(p, Perspective', turn, claims, Len(claims))
    BY <1>2, <1>4, <1>5, <1>7
  <2>2. turnSeq' \in Nat /\ accepted' \subseteq Plans
    BY <1>1, <2>1 DEF EvidenceInv
  <2>3. Sound(Perspective', turnSeq')
    BY <2>1 DEF TakenSoFar
  <2>4. ASSUME NEW cs \in accepted', NEW i \in 1 .. Len(cs)
        PROVE  Wellformed(cs) /\ Settled(Perspective', cs[i])
    <3>1. CASE cs = claims
      BY <2>1, <3>1 DEF TakenSoFar
    <3>2. CASE cs \in accepted
      <4>1. Wellformed(cs) /\ Settled(p, cs[i]) /\ Extends(p, Perspective')
        BY <2>1, <3>2 DEF EvidenceInv, TakenSoFar
      <4> QED BY <4>1, SettledStays
    <3> QED BY <2>1, <3>1, <3>2
  <2>5. ASSUME NEW cs \in accepted' PROVE Wellformed(cs)
    BY <2>1 DEF EvidenceInv
  <2>6. Claimed' = Claimed \cup {claims[i] : i \in DOMAIN claims}
    BY <2>1 DEF Claimed
  <2>7. DOMAIN claims = 1 .. Len(claims)
    BY DEF FactAssumption
  <2>8. Grounds(Perspective)  = {cl.fact : cl \in Claimed}
    BY DEF EvidenceInv
  <2>9. Grounds(Perspective') = Grounds(Perspective) \cup {claims[i].fact : i \in 1 .. Len(claims)}
    BY <2>1 DEF TakenSoFar
  <2>10. Grounds(Perspective') = {cl.fact : cl \in Claimed'}
    BY <2>6, <2>7, <2>8, <2>9
  <2>11. \A cs \in accepted' :
           Wellformed(cs) /\ \A i \in 1 .. Len(cs) : Settled(Perspective', cs[i])
    BY <2>4, <2>5
  <2> QED BY <2>2, <2>3, <2>10, <2>11 DEF EvidenceInv
<1> QED BY <1>6, <1>7

LEMMA EvidenceStep ==
  ASSUME FactAssumption, PackAssumption, RoomAssumption, EvidenceInv,
         [EvidenceNext]_evidenceVars
  PROVE  EvidenceInv'
<1>1. ASSUME OtherTurn \/ UNCHANGED evidenceVars PROVE EvidenceInv'
  <2>1. Perspective' = Perspective /\ accepted' = accepted
    BY <1>1 DEF OtherTurn, evidenceVars, Perspective
  <2>2. turnSeq' \in Nat /\ turnSeq <= turnSeq' /\ turnSeq \in Nat
    BY <1>1 DEF OtherTurn, evidenceVars, EvidenceInv
  <2>3. Sound(Perspective, turnSeq')
    BY <2>2, SoundLater DEF EvidenceInv
  <2>4. Claimed' = Claimed
    BY <2>1 DEF Claimed
  <2> QED BY <2>1, <2>2, <2>3, <2>4 DEF EvidenceInv
<1>2. ASSUME NEW claims \in Plans, GroundedTurn(claims) PROVE EvidenceInv'
  BY <1>2, GroundedTurnKeeps
<1> QED BY <1>1, <1>2 DEF EvidenceNext

-----------------------------------------------------------------------------
(***************************************************************************)
(* The inductive invariant of integrate_curated_claims and of the turns    *)
(* that call it: one episode for each fact the opinions rest on, each      *)
(* opinion within its primary fact's basis, every integrated claim in its  *)
(* place, and no fact from anywhere else.                                  *)
(***************************************************************************)
THEOREM EvidenceIsKept ==
  ASSUME FactAssumption, PackAssumption, RoomAssumption
  PROVE  EvidenceSpec => []EvidenceInv
<1>1. EvidenceInit => EvidenceInv
  BY EvidenceInitially
<1>2. EvidenceInv /\ [EvidenceNext]_evidenceVars => EvidenceInv'
  BY EvidenceStep
<1> QED BY <1>1, <1>2, PTL DEF EvidenceSpec

(* A session that grounds its turns always passes the validator that       *)
(* save_state and load_state insist on, as long as the facts the opinions  *)
(* may come to rest on are no more than the episodes retained: the bound   *)
(* on opinions alone does not secure it.                                   *)
THEOREM AlwaysLoads ==
  ASSUME FactAssumption, PackAssumption, RoomAssumption
  PROVE  EvidenceSpec => []AlwaysLoadable
<1>1. ASSUME EvidenceInv PROVE AlwaysLoadable
  <2> DEFINE p == Perspective
  <2>1. Sound(p, turnSeq)
    BY <1>1 DEF EvidenceInv
  <2> HIDE DEF p
  <2>2. Cardinality(Grounds(p)) <= MaxEpisodes
    BY <2>1, RoomForGrounds DEF Sound, PerspectiveType, WithinBasis, Grounds
  <2>3. Len(p.episodes) <= MaxEpisodes
    BY <2>1, <2>2 DEF Sound
  <2>4. Validates(p)
    BY <2>1, <2>3, Zenon DEF Sound, Validates
  <2> QED BY <2>4 DEF AlwaysLoadable, p
<1> QED BY <1>1, EvidenceIsKept, PTL

(* Rendering a plan again, at any later turn and whatever plans came       *)
(* between, changes no opinion and writes no episode.                      *)
THEOREM ReplaysAreIdle ==
  ASSUME FactAssumption, PackAssumption, RoomAssumption
  PROVE  EvidenceSpec => []ReplayIsIdempotent
<1>1. ASSUME EvidenceInv PROVE ReplayIsIdempotent
  <2> SUFFICES ASSUME NEW claims \in accepted
               PROVE  Integrate(Perspective, turnSeq + 1, claims) = Ok(Perspective)
    BY DEF ReplayIsIdempotent
  <2>1. /\ Wellformed(claims) /\ claims \in Seq(ClaimRecords)
        /\ \A i \in 1 .. Len(claims) : Settled(Perspective, claims[i])
    BY <1>1 DEF EvidenceInv, FactAssumption, ClaimRecords
  <2>2. CASE claims = <<>>
    BY <2>2 DEF Integrate
  <2>3. CASE claims # <<>>
    <3>1. Len(claims) \in Nat /\ 1 \in 1 .. Len(claims)
      BY <2>1, <2>3
    <3>2. Has(Perspective, SubjectOf[claims[1].fact])
      BY <2>1, <3>1 DEF Settled
    <3>3. Admissible(Perspective, claims)
      BY <2>1, <3>2 DEF Admissible, Wellformed
    <3>4. Through(Perspective, turnSeq + 1, claims)[Len(claims)] = Ok(Perspective)
      BY <2>1, <3>1, SettledPlanIsIdle
    <3>5. Ok(Perspective).ok
      BY DEF Ok
    <3> QED BY <2>3, <3>3, <3>4, <3>5, Zenon DEF Integrate
  <2> QED BY <2>2, <2>3
<1> QED BY <1>1, EvidenceIsKept, PTL

(* The opinions rest on the facts of the plans that were integrated and on *)
(* no other, and every opinion renders for its own thesis, Qualified       *)
(* exactly when one of those plans brought a counterpoint.                 *)
THEOREM WholePlansOnly ==
  ASSUME FactAssumption, PackAssumption, RoomAssumption
  PROVE  EvidenceSpec => []OnlyWholePlans
<1>1. ASSUME EvidenceInv PROVE OnlyWholePlans
  <2> DEFINE p == Perspective
  <2>1. /\ Sound(p, turnSeq) /\ p.opinions = opinions
        /\ Grounds(p) = {cl.fact : cl \in Claimed}
    BY <1>1 DEF EvidenceInv, Perspective
  <2>2. \A cl \in Claimed : Settled(p, cl) /\ cl \in ClaimRecords
    <3>1. \A claims \in accepted : claims \in Seq(ClaimRecords)
      BY <1>1 DEF EvidenceInv, FactAssumption, ClaimRecords
    <3>2. \A claims \in accepted : \A i \in DOMAIN claims :
            i \in 1 .. Len(claims) /\ claims[i] \in ClaimRecords
      BY <3>1
    <3> QED BY <1>1, <3>2 DEF EvidenceInv, Claimed
  <2> HIDE DEF p
  <2>3. UNION {opinions[c].grounding : c \in DOMAIN opinions} = {cl.fact : cl \in Claimed}
    BY <2>1 DEF Grounds
  <2>4. ASSUME NEW c \in DOMAIN opinions
        PROVE  RenderStance(p, c, opinions[c].primary)
                 = IF \E cl \in Claimed : cl.role = "Counterpoint" /\ SubjectOf[cl.fact] = c
                     THEN "Qualified" ELSE "Affirmed"
    <3> DEFINE o == p.opinions[c]
               Countered == \E cl \in Claimed : cl.role = "Counterpoint" /\ SubjectOf[cl.fact] = c
    <3>1. OpinionValid(c, o) /\ o \in OpinionRecords /\ c \in DOMAIN p.opinions
      BY <2>1 DEF Sound, PerspectiveType
    <3>2. /\ o.primary \in o.grounding /\ SubjectOf[o.primary] = c
          /\ \A f \in o.grounding : SubjectOf[f] = c
          /\ o.polarity = "Qualified" <=> HasCounterpoint(o)
          /\ o.polarity \in BeliefPolarities /\ o.primary \in Facts
      BY <3>1 DEF OpinionValid, OpinionRecords
    <3>3. RenderStance(p, c, o.primary) = o.polarity
      BY <3>1, <3>2 DEF RenderStance, Has
    <3>4. ASSUME HasCounterpoint(o) PROVE Countered
      <4>1. PICK f \in o.grounding : <<f, o.primary>> \in Counters
        BY <3>4 DEF HasCounterpoint
      <4>2. f \in Grounds(p)
        BY <3>1 DEF Grounds
      <4>3. PICK cl \in Claimed : cl.fact = f
        BY <2>1, <4>2
      <4>4. SubjectOf[f] = c /\ Cites(f, o.primary, cl.role)
        BY <2>2, <3>2, <4>3 DEF Settled
      <4>5. f # o.primary /\ <<f, o.primary>> \notin FollowsFrom
        BY <3>2, <4>1 DEF PackAssumption
      <4>6. cl.role = "Counterpoint"
        BY <4>4, <4>5 DEF Cites
      <4> QED BY <4>3, <4>4, <4>6
    <3>5. ASSUME NEW cl \in Claimed, cl.role = "Counterpoint", SubjectOf[cl.fact] = c
          PROVE  HasCounterpoint(o)
      <4>1. cl.fact \in o.grounding /\ Cites(cl.fact, o.primary, cl.role)
        BY <2>2, <3>5 DEF Settled
      <4> QED BY <3>5, <4>1 DEF Cites, HasCounterpoint
    <3>6. o.polarity = IF Countered THEN "Qualified" ELSE "Affirmed"
      BY <3>2, <3>4, <3>5 DEF BeliefPolarities
    <3> QED BY <2>1, <3>3, <3>6
  <2> QED BY <2>3, <2>4 DEF OnlyWholePlans, Claimed, p
<1> QED BY <1>1, EvidenceIsKept, PTL
============================================================================
