-------------------------- MODULE Placement_proofs --------------------------
(* That the check of the resources gives a GPU twice only by a race, that a *)
(* node port is refused only by a race, and the same of the ports of a      *)
(* docker host (Placement, HostPorts).                                      *)
EXTENDS Placement, HostPorts, FiniteSetTheorems, WellFoundedInduction, TLAPS

-----------------------------------------------------------------------------
(* Lowest elements. Induction is by the least counterexample.              *)

\* A set of naturals has a least element.
LEMMA LeastNat ==
    ASSUME NEW S \in SUBSET Nat, S # {}
    PROVE  \E n \in S : \A m \in S : n =< m
<1>1. PICK top \in S : top \in Nat
  OBVIOUS
<1> DEFINE U == 0 .. top
           T == {X \in SUBSET U : \E m \in S : X = 0 .. m}
<1>2. IsFiniteSet(U)
  BY <1>1, FS_Interval
<1>3. IsWellFoundedOn(StrictSubsetOrdering(U), SUBSET U)
  BY <1>2, FS_StrictSubsetOrderingWellFounded, FS_FiniteSubsetsOfFinite
<1>4. T \subseteq SUBSET U /\ U \in T
  BY <1>1
<1> HIDE DEF T, U
<1>5. PICK X \in T : \A Y \in T : ~(<<Y, X>> \in StrictSubsetOrdering(U))
  BY <1>3, <1>4, WFMin
<1>6. PICK n \in S : X = 0 .. n /\ n \in Nat
  BY DEF T
<1>7. ASSUME NEW m \in S, m < n PROVE FALSE
  <2>1. m \in Nat /\ n \in Nat
    OBVIOUS
  <2>2. 0 .. m \subseteq X /\ 0 .. m # X
    BY <1>6, <1>7, <2>1
  <2>3. 0 .. m \in T
    BY <2>2 DEF T
  <2>4. <<0 .. m, X>> \in StrictSubsetOrdering(U)
    BY <2>2, <2>3 DEF StrictSubsetOrdering, T
  <2>5. QED
    BY <1>5, <2>3, <2>4
<1>8. QED
  BY <1>6, <1>7

\* Of a finite set of naturals there are so many that are lower than the rest.
LEMMA LowestSubset ==
    ASSUME NEW F \in SUBSET Nat, IsFiniteSet(F), NEW n \in Nat, n =< Cardinality(F)
    PROVE  \E S \in kSubset(n, F) : \A g \in S, h \in F \ S : g < h
<1> DEFINE Low(k) == \E S \in SUBSET F : /\ Cardinality(S) = k
                                         /\ \A g \in S, h \in F \ S : g < h
           Bad == {k \in Nat : k =< Cardinality(F) /\ ~Low(k)}
<1>1. Cardinality(F) \in Nat
  BY FS_CardinalityType
<1>2. ASSUME NEW k \in Bad, \A m \in Bad : k =< m PROVE FALSE
  <2>1. k # 0
    <3>1. Cardinality({}) = 0
      BY FS_EmptySet
    <3>2. QED
      BY <1>2, <3>1
  <2>2. k - 1 \in Nat /\ k - 1 \notin Bad /\ k - 1 < Cardinality(F) /\ k \in Nat
    BY <1>1, <1>2, <2>1
  <2>3. PICK S \in SUBSET F : Cardinality(S) = k - 1 /\ \A g \in S, h \in F \ S : g < h
    BY <1>1, <2>2
  <2>4. F \ S # {}
    <3>1. S # F
      BY <1>1, <2>2, <2>3
    <3>2. QED
      BY <3>1
  <2>5. PICK least \in F \ S : \A m \in F \ S : least =< m
    BY <2>4, LeastNat
  <2>6. IsFiniteSet(S)
    BY FS_Subset
  <2>7. Cardinality(S \cup {least}) = k
    <3>1. Cardinality(S \cup {least}) = Cardinality(S) + 1
      BY <2>5, <2>6, FS_AddElement
    <3>2. QED
      BY <2>2, <2>3, <3>1
  <2>8. \A g \in S \cup {least}, h \in F \ (S \cup {least}) : g < h
    <3>1. TAKE g \in S \cup {least}, h \in F \ (S \cup {least})
    <3>2. CASE g \in S
      BY <2>3, <3>2
    <3>3. CASE g = least
      <4>1. g =< h /\ g # h /\ g \in Nat /\ h \in Nat
        BY <2>5, <3>3
      <4>2. QED
        BY <4>1
    <3>4. QED
      BY <3>2, <3>3
  <2>9. Low(k)
    BY <2>5, <2>7, <2>8
  <2>10. QED
    BY <2>9
<1>3. Bad = {}
  BY <1>2, LeastNat
<1>4. Low(n)
  BY <1>3
<1>5. QED
  BY <1>4 DEF kSubset

-----------------------------------------------------------------------------
(* The sums of what spaces ask for.                                        *)

NeedOf(S) == MapThenSumSet(LAMBDA s : Need[s], S)

First(X) == CHOOSE s \in X : TRUE

\* What MapThenSumSet(...) says of the subsets of S.
SumsOf(S, sum) ==
    sum = [X \in SUBSET S |-> IF X = {} THEN 0 ELSE Need[First(X)] + sum[X \ {First(X)}]]

Summed(X) == NeedOf(X) = IF X = {} THEN 0 ELSE Need[First(X)] + NeedOf(X \ {First(X)})

\* Of finite sets, some have none with P below them.
LEMMA LeastSubset ==
    ASSUME NEW S, IsFiniteSet(S), NEW Bad \in SUBSET (SUBSET S), Bad # {}
    PROVE  \E X \in Bad : \A Y \in SUBSET X : Y # X => Y \notin Bad
<1>1. IsWellFoundedOn(StrictSubsetOrdering(S), SUBSET S)
  BY FS_StrictSubsetOrderingWellFounded, FS_FiniteSubsetsOfFinite
<1>2. PICK X \in Bad : \A Y \in Bad : ~(<<Y, X>> \in StrictSubsetOrdering(S))
  BY <1>1, WFMin
<1>3. ASSUME NEW Y \in SUBSET X, Y # X, Y \in Bad PROVE FALSE
  <2>1. <<Y, X>> \in StrictSubsetOrdering(S)
    BY <1>3 DEF StrictSubsetOrdering
  <2>2. QED
    BY <1>2, <1>3, <2>1
<1>4. QED
  BY <1>3

LEMMA FirstIsIn == ASSUME NEW X, X # {} PROVE First(X) \in X
  BY DEF First

LEMMA NeedUnfolds == ASSUME NEW S PROVE NeedOf(S) = (CHOOSE sum : SumsOf(S, sum))[S]
  BY DEF NeedOf, SumsOf, First, MapThenSumSet, MapThenFoldSet

\* There is a sum where there is one of everything smaller.
LEMMA SumExists ==
    ASSUME NEW X, X # {}, \A Y \in SUBSET X : Y # X => Summed(Y)
    PROVE  \E sum : SumsOf(X, sum)
<1> DEFINE g == [Y \in SUBSET X |-> IF Y = X THEN Need[First(X)] + NeedOf(X \ {First(X)})
                                    ELSE NeedOf(Y)]
<1>1. ASSUME NEW Y \in SUBSET X
      PROVE  g[Y] = IF Y = {} THEN 0 ELSE Need[First(Y)] + g[Y \ {First(Y)}]
  <2>1. CASE Y = {}
    BY <1>1, <2>1 DEF Summed
  <2>2. CASE Y # {}
    <3>1. First(Y) \in Y /\ Y \ {First(Y)} \in SUBSET X /\ Y \ {First(Y)} # X
      BY <2>2, FirstIsIn
    <3>2. g[Y \ {First(Y)}] = NeedOf(Y \ {First(Y)})
      BY <3>1
    <3>3. g[Y] = Need[First(Y)] + NeedOf(Y \ {First(Y)})
      <4>1. CASE Y = X
        BY <4>1
      <4>2. CASE Y # X
        BY <2>2, <4>2 DEF Summed
      <4>3. QED
        BY <4>1, <4>2
    <3>4. QED
      BY <2>2, <3>2, <3>3
  <2>3. QED
    BY <2>1, <2>2
<1>2. g = [Y \in SUBSET X |-> g[Y]]
  OBVIOUS
<1> HIDE DEF g
<1>3. SumsOf(X, g)
  BY <1>1, <1>2 DEF SumsOf
<1>4. QED
  BY <1>3

\* A sum over a finite set is that of a member of it and of the rest.
LEMMA SumIsSummed == ASSUME NEW S, IsFiniteSet(S) PROVE Summed(S)
<1>1. SUFFICES ASSUME ~Summed(S) PROVE FALSE
  OBVIOUS
<1> DEFINE Bad == {X \in SUBSET S : ~Summed(X)}
<1>2. PICK X \in Bad : \A Y \in SUBSET X : Y # X => Y \notin Bad
  <2>1. Bad # {} /\ Bad \in SUBSET (SUBSET S)
    BY <1>1
  <2> HIDE DEF Bad
  <2>2. QED
    BY <2>1, LeastSubset
<1>3. \A Y \in SUBSET X : Y # X => Summed(Y)
  BY <1>2
<1>4. ~Summed(X) /\ X \in SUBSET S
  BY <1>2
<1>5. CASE X = {}
  <2> DEFINE zero == [Y \in SUBSET X |-> 0]
  <2>1. \A Y \in SUBSET X : Y = {}
    BY <1>5
  <2>2. SumsOf(X, zero)
    BY <2>1 DEF SumsOf
  <2>3. SumsOf(X, CHOOSE sum : SumsOf(X, sum))
    BY <2>2
  <2>4. (CHOOSE sum : SumsOf(X, sum))[X] = 0
    BY <1>5, <2>3 DEF SumsOf
  <2>5. QED
    BY <1>4, <1>5, <2>4, NeedUnfolds DEF Summed
<1>6. CASE X # {}
  <2> DEFINE sum == CHOOSE g : SumsOf(X, g)
  <2>1. SumsOf(X, sum)
    BY <1>3, <1>6, SumExists
  <2>2. NeedOf(X) = sum[X]
    BY NeedUnfolds
  <2> HIDE DEF sum
  <2>3. \A Y \in SUBSET X : sum[Y] = IF Y = {} THEN 0 ELSE Need[First(Y)] + sum[Y \ {First(Y)}]
    BY <2>1 DEF SumsOf
  <2> DEFINE Odd == {Y \in SUBSET X : Y # X /\ sum[Y] # NeedOf(Y)}
  <2>4. ASSUME Odd # {} PROVE FALSE
    <3>1. PICK Y \in Odd : \A Z \in SUBSET Y : Z # Y => Z \notin Odd
      <4>1. Odd \in SUBSET (SUBSET X) /\ IsFiniteSet(X)
        BY <1>4, FS_Subset
      <4> HIDE DEF Odd
      <4>2. QED
        BY <2>4, <4>1, LeastSubset
    <3>2. Y \in SUBSET X /\ Y # X /\ sum[Y] # NeedOf(Y) /\ Summed(Y)
      BY <1>3, <3>1
    <3>3. Y # {}
      BY <2>3, <3>2 DEF Summed
    <3>4. First(Y) \in Y
      BY <3>3, FirstIsIn
    <3>5. sum[Y \ {First(Y)}] = NeedOf(Y \ {First(Y)})
      BY <3>1, <3>2, <3>4
    <3>6. QED
      BY <2>3, <3>2, <3>3, <3>5 DEF Summed
  <2>5. First(X) \in X
    BY <1>6, FirstIsIn
  <2>6. sum[X \ {First(X)}] = NeedOf(X \ {First(X)})
    BY <2>4, <2>5
  <2>7. QED
    BY <1>4, <1>6, <2>2, <2>3, <2>6 DEF Summed
<1>7. QED
  BY <1>5, <1>6

\* Whichever member of it that is.
LEMMA NeedAdds ==
    ASSUME NEW S \in SUBSET Spaces
    PROVE  /\ NeedOf(S) \in Nat
           /\ NeedOf({}) = 0
           /\ \A s \in S : NeedOf(S) = Need[s] + NeedOf(S \ {s})
<1>0. \A X \in SUBSET Spaces : Summed(X)
  BY PlacementAssumption, FS_Subset, SumIsSummed
<1> DEFINE Good(X) == /\ NeedOf(X) \in Nat
                      /\ \A s \in X : NeedOf(X) = Need[s] + NeedOf(X \ {s})
           Bad == {X \in SUBSET Spaces : ~Good(X)}
<1>1. NeedOf({}) = 0
  BY FS_EmptySet, SumIsSummed DEF Summed
<1>2. ASSUME Bad # {} PROVE FALSE
  <2>1. PICK X \in Bad : \A Y \in SUBSET X : Y # X => Y \notin Bad
    <3>1. Bad \in SUBSET (SUBSET Spaces)
      OBVIOUS
    <3> HIDE DEF Bad
    <3>2. QED
      BY <1>2, <3>1, PlacementAssumption, LeastSubset
  <2>2. X \in SUBSET Spaces /\ ~Good(X) /\ \A Y \in SUBSET X : Y # X => Good(Y)
    BY <2>1
  <2>3. ASSUME X = {} PROVE FALSE
    <3>1. Good({})
      BY <1>1
    <3>2. QED
      BY <2>2, <2>3, <3>1
  <2> DEFINE p == First(X)
  <2>4. p \in X /\ NeedOf(X) = Need[p] + NeedOf(X \ {p}) /\ Good(X \ {p})
    <3>1. p \in X
      BY <2>3, FirstIsIn
    <3>2. Good(X \ {p})
      BY <2>2, <3>1
    <3>3. QED
      BY <1>0, <2>2, <2>3, <3>1, <3>2 DEF Summed
  <2> HIDE DEF p
  <2>5. \A s \in X : Need[s] \in Nat
    BY <2>2, PlacementAssumption
  <2>6. NeedOf(X) \in Nat
    BY <2>4, <2>5
  <2>7. ASSUME NEW s \in X, s # p PROVE NeedOf(X) = Need[s] + NeedOf(X \ {s})
    <3>1. X \ {s} \in SUBSET X /\ X \ {s} # X /\ p \in X \ {s} /\ s \in X \ {p}
      BY <2>4, <2>7
    <3>2. Good(X \ {s})
      BY <2>2, <3>1
    <3>3. (X \ {s}) \ {p} = (X \ {p}) \ {s}
      OBVIOUS
    <3>4. NeedOf(X \ {s}) = Need[p] + NeedOf((X \ {p}) \ {s})
      BY <3>1, <3>2, <3>3
    <3>5. NeedOf(X \ {p}) = Need[s] + NeedOf((X \ {p}) \ {s})
      BY <2>4, <3>1
    <3>6. (X \ {p}) \ {s} \in SUBSET X /\ (X \ {p}) \ {s} # X
      BY <3>1
    <3>7. NeedOf((X \ {p}) \ {s}) \in Nat
      BY <2>2, <3>6
    <3>8. QED
      BY <2>4, <2>5, <3>4, <3>5, <3>7
  <2>8. QED
    BY <2>2, <2>4, <2>6, <2>7
<1>3. QED
  BY <1>1, <1>2

-----------------------------------------------------------------------------
(* What the check of the resources answers.                                *)

\* The GPUs picked are among the free ones.
LEMMA PickedAreFree ==
    ASSUME PlaceTypeOK, NEW s \in Spaces, Cardinality(Gpus \ UsedGpus) >= Need[s]
    PROVE  FirstOf(Gpus \ UsedGpus, Need[s]) \in SUBSET (Gpus \ UsedGpus)
<1> DEFINE free == Gpus \ UsedGpus
<1>1. free \in SUBSET Nat /\ IsFiniteSet(free) /\ Need[s] \in Nat
  BY PlacementAssumption, FS_Subset
<1>2. Need[s] =< Cardinality(free)
  BY <1>1, FS_CardinalityType
<1> HIDE DEF free
<1>3. \E S \in kSubset(Need[s], free) : \A g \in S, h \in free \ S : g < h
  BY <1>1, <1>2, LowestSubset
<1>4. FirstOf(free, Need[s]) \in kSubset(Need[s], free)
  BY <1>3 DEF FirstOf
<1>5. QED
  BY <1>4 DEF kSubset, free

\* A space that looks for a port has no service, so there is a port left for it.
LEMMA PortPicked ==
    ASSUME PlaceTypeOK, NEW s \in Spaces, service[s] = 0
    PROVE  Min(NodePorts \ UsedPorts) \in NodePorts \ UsedPorts
<1> DEFINE rest == Spaces \ {s}
           holder == [port \in NodePorts |-> CHOOSE t \in rest : service[t] = port]
<1>1. IsFiniteSet(rest) /\ Cardinality(rest) = Cardinality(Spaces) - 1
  BY PlacementAssumption, FS_RemoveElement
<1>2. Cardinality(rest) < Cardinality(NodePorts)
  <2>1. Cardinality(NodePorts) \in Nat /\ Cardinality(Spaces) \in Nat
    BY PlacementAssumption, FS_CardinalityType
  <2>2. QED
    BY <1>1, <2>1, PlacementAssumption
<1>3. ASSUME NodePorts \subseteq UsedPorts PROVE FALSE
  <2>1. \A port \in NodePorts : holder[port] \in rest /\ service[holder[port]] = port
    <3> SUFFICES ASSUME NEW port \in NodePorts
                 PROVE  \E t \in rest : service[t] = port
      OBVIOUS
    <3>1. port # 0 /\ port \in UsedPorts
      BY <1>3, PlacementAssumption
    <3>2. PICK t \in Spaces : service[t] = port
      BY <3>1 DEF UsedPorts
    <3>3. QED
      BY <3>1, <3>2
  <2>2. holder \in [NodePorts -> rest]
    BY <2>1
  <2> HIDE DEF holder, rest
  <2>3. \E x, y \in NodePorts : x # y /\ holder[x] = holder[y]
    <3>1. IsFiniteSet(NodePorts)
      BY PlacementAssumption
    <3>2. QED
      BY <1>1, <1>2, <2>2, <3>1, FS_PigeonHole
  <2>4. QED
    BY <2>1, <2>3
<1>4. NodePorts \ UsedPorts # {}
  BY <1>3
<1>5. NodePorts \ UsedPorts \in SUBSET Nat
  BY PlacementAssumption
<1>6. QED
  BY <1>4, <1>5, LeastNat DEF Min

-----------------------------------------------------------------------------
(* The cluster.                                                            *)

\* A service that is there has the port picked for its space, and its pod runs,
\* until the space ends.
ServiceInv ==
    \A s \in Spaces : service[s] # 0 =>
        /\ service[s] = place[s].port
        /\ pod[s] = "running"
        /\ \/ place[s].at \in {"done", "deleting"} /\ place[s].ok
           \/ place[s].at = "over"

\* Two spaces hold the same GPU, in whatever state their pods are, only by a race.
GpuInv ==
    \A s \in Spaces : \A t \in Spaces \ {s} :
        place[s].gpus \cap place[t].gpus # {} => {s, t} \in gpuRaces

\* Two spaces have picked the same port only by a race.
PortInv ==
    \A s \in Spaces : \A t \in Spaces \ {s} :
        place[s].port # 0 /\ place[s].port = place[t].port => {s, t} \in portRaces

PlaceInv == PlaceTypeOK /\ ServiceInv /\ GpuInv /\ PortInv

Places == [at : {"none", "port", "checked", "saving", "deploying",
                 "waiting", "done", "deleting", "over"},
           ok : BOOLEAN, gpus : SUBSET Gpus, port : NodePorts \cup {0}, loaded : Nat]

\* What the type of every variable says, of one space at a time.
LEMMA PlaceTypes ==
    PlaceTypeOK <=>
        /\ place \in [Spaces -> Places]
        /\ pod \in [Spaces -> {"none", "pending", "running"}]
        /\ service \in [Spaces -> NodePorts \cup {0}]
        /\ cache \in Nat /\ overlapped \in BOOLEAN
        /\ gpuRaces \subseteq SUBSET Spaces /\ portRaces \subseteq SUBSET Spaces
        /\ restarts \in 0 .. MaxRestarts
  BY DEF PlaceTypeOK, Places

\* A step of one space that picks nothing: it keeps its GPUs and its port or loses
\* both, and its service is what it was.
LEMMA NothingPicked ==
    ASSUME PlaceInv, NEW s \in Spaces, NEW p \in Places,
           place' = [place EXCEPT ![s] = p],
           p.gpus \in {place[s].gpus, {}}, p.port \in {place[s].port, 0},
           UNCHANGED <<gpuRaces, portRaces>>
    PROVE  GpuInv' /\ PortInv'
<1>1. /\ place'[s] = p
      /\ \A t \in Spaces \ {s} : place'[t] = place[t]
  BY PlaceTypes DEF PlaceInv
<1>2. \A t \in Spaces : /\ place'[t].gpus \in {place[t].gpus, {}}
                        /\ place'[t].port \in {place[t].port, 0}
  BY <1>1
<1>3. GpuInv'
  BY <1>2 DEF PlaceInv, GpuInv
<1>4. PortInv'
  BY <1>2 DEF PlaceInv, PortInv
<1>5. QED
  BY <1>3, <1>4

\* The same of a step that leaves services and pods alone too.
LEMMA OnlyPlaceMoves ==
    ASSUME PlaceInv, NEW s \in Spaces, NEW p \in Places,
           place' = [place EXCEPT ![s] = p],
           p.gpus \in {place[s].gpus, {}}, p.port \in {place[s].port, 0},
           service[s] # 0 =>
               /\ service[s] = p.port
               /\ \/ p.at \in {"done", "deleting"} /\ p.ok
                  \/ p.at = "over",
           cache' \in Nat, overlapped' \in BOOLEAN,
           UNCHANGED <<pod, service, gpuRaces, portRaces, restarts>>
    PROVE  PlaceInv'
<1>1. GpuInv' /\ PortInv'
  BY NothingPicked
<1>2. PlaceTypeOK'
  BY PlaceTypes DEF PlaceInv, PlaceTypeOK, Places
<1>3. ServiceInv'
  BY PlaceTypes DEF PlaceInv, ServiceInv
<1>4. QED
  BY <1>1, <1>2, <1>3 DEF PlaceInv

\* A space of which nothing is left has a record of the right type.
LEMMA GoneIsAPlace == [Nowhere EXCEPT !.at = "over"] \in Places /\ Nowhere \in Places
  BY DEF Places, Nowhere

-----------------------------------------------------------------------------
(* The steps.                                                              *)

LEMMA PlaceStep == PlaceInv /\ [PlaceNext]_placeVars => PlaceInv'
<1> SUFFICES ASSUME PlaceInv, [PlaceNext]_placeVars PROVE PlaceInv'
  OBVIOUS
<1>0. /\ place \in [Spaces -> Places] /\ cache \in Nat /\ overlapped \in BOOLEAN
      /\ \A s \in Spaces : Need[s] \in Nat
  BY PlaceTypes, PlacementAssumption DEF PlaceInv
<1>1. ASSUME NEW s \in Spaces, CheckResources(s) PROVE PlaceInv'
  <2> DEFINE picked == FirstOf(Gpus \ UsedGpus, Need[s])
  <2>1. PICK at \in {"port", "checked"} :
            place' = [place EXCEPT ![s] = [@ EXCEPT !.at = at, !.gpus = picked]]
    BY <1>1 DEF CheckResources
  <2>2. picked \in SUBSET (Gpus \ UsedGpus)
    BY <1>1, PickedAreFree DEF CheckResources, PlaceInv
  <2> HIDE DEF picked
  <2> DEFINE p == [place[s] EXCEPT !.at = at, !.gpus = picked]
  <2>3. /\ p \in Places /\ p.gpus = picked /\ p.port = place[s].port
        /\ p.at = at /\ place' = [place EXCEPT ![s] = p]
    BY <1>0, <2>1, <2>2 DEF Places
  <2> HIDE DEF p
  <2>4. /\ place' \in [Spaces -> Places] /\ place'[s] = p
        /\ \A t \in Spaces \ {s} : place'[t] = place[t]
    BY <1>0, <2>3
  <2>5. PlaceTypeOK'
    <3>1. gpuRaces' \subseteq SUBSET Spaces
      BY <1>1, PlaceTypes DEF CheckResources, PlaceInv
    <3>2. QED
      BY <1>1, <2>4, <3>1, PlaceTypes DEF CheckResources, PlaceInv, PlaceTypeOK, Places
  <2>6. ServiceInv'
    BY <1>1, <2>4 DEF CheckResources, PlaceInv, ServiceInv
  <2>7. PortInv'
    BY <1>1, <2>3, <2>4 DEF CheckResources, PlaceInv, PortInv
  <2>8. ASSUME NEW t \in Spaces \ {s}, place'[s].gpus \cap place'[t].gpus # {}
        PROVE  {s, t} \in gpuRaces'
    <3>1. pod[t] # "running"
      BY <2>2, <2>3, <2>4, <2>8 DEF UsedGpus
    <3>2. place[t].gpus # {}
      BY <2>4, <2>8
    <3>3. QED
      BY <1>1, <3>1, <3>2 DEF CheckResources
  <2>9. GpuInv'
    <3> SUFFICES ASSUME NEW u \in Spaces, NEW t \in Spaces \ {u},
                        place'[u].gpus \cap place'[t].gpus # {}
                 PROVE  {u, t} \in gpuRaces'
      BY DEF GpuInv
    <3>1. CASE u = s
      BY <2>8, <3>1
    <3>2. CASE t = s
      <4>1. {s, u} \in gpuRaces'
        BY <2>8, <3>2
      <4>2. QED
        BY <3>2, <4>1
    <3>3. CASE u # s /\ t # s
      BY <1>1, <2>4, <3>3 DEF CheckResources, PlaceInv, GpuInv
    <3>4. QED
      BY <3>1, <3>2, <3>3
  <2>10. QED
    BY <2>5, <2>6, <2>7, <2>9 DEF PlaceInv
<1>2. ASSUME NEW s \in Spaces, CheckServiceNodePort(s) PROVE PlaceInv'
  <2> DEFINE picked == Min(NodePorts \ UsedPorts)
  <2>1. service[s] = 0 /\ place[s].at = "port"
    BY <1>2 DEF CheckServiceNodePort, PlaceInv, ServiceInv
  <2>2. picked \in NodePorts \ UsedPorts
    BY <2>1, PortPicked DEF PlaceInv
  <2>3. place' = [place EXCEPT ![s] = [@ EXCEPT !.at = "checked", !.port = picked]]
    BY <1>2 DEF CheckServiceNodePort
  <2> HIDE DEF picked
  <2> DEFINE p == [place[s] EXCEPT !.at = "checked", !.port = picked]
  <2>4. /\ p \in Places /\ p.gpus = place[s].gpus /\ p.port = picked
        /\ p.at = "checked" /\ place' = [place EXCEPT ![s] = p]
    BY <1>0, <2>2, <2>3 DEF Places
  <2> HIDE DEF p
  <2>5. /\ place' \in [Spaces -> Places] /\ place'[s] = p
        /\ \A t \in Spaces \ {s} : place'[t] = place[t]
    BY <1>0, <2>4
  <2>6. PlaceTypeOK'
    <3>1. portRaces' \subseteq SUBSET Spaces
      BY <1>2, PlaceTypes DEF CheckServiceNodePort, PlaceInv
    <3>2. QED
      BY <1>2, <2>5, <3>1, PlaceTypes DEF CheckServiceNodePort, PlaceInv, PlaceTypeOK, Places
  <2>7. ServiceInv'
    BY <1>2, <2>1, <2>5 DEF CheckServiceNodePort, PlaceInv, ServiceInv
  <2>8. GpuInv'
    BY <1>2, <2>4, <2>5 DEF CheckServiceNodePort, PlaceInv, GpuInv
  <2>9. ASSUME NEW t \in Spaces \ {s}, picked # 0, picked = place[t].port
        PROVE  {s, t} \in portRaces'
    <3>1. service[t] = 0
      BY <2>2, <2>9 DEF UsedPorts, PlaceInv, ServiceInv
    <3>2. QED
      BY <1>2, <2>9, <3>1 DEF CheckServiceNodePort
  <2>10. PortInv'
    <3> SUFFICES ASSUME NEW u \in Spaces, NEW t \in Spaces \ {u},
                        place'[u].port # 0, place'[u].port = place'[t].port
                 PROVE  {u, t} \in portRaces'
      BY DEF PortInv
    <3>1. CASE u = s
      BY <2>4, <2>5, <2>9, <3>1
    <3>2. CASE t = s
      <4>1. {s, u} \in portRaces'
        BY <2>4, <2>5, <2>9, <3>2
      <4>2. QED
        BY <3>2, <4>1
    <3>3. CASE u # s /\ t # s
      BY <1>2, <2>5, <3>3 DEF CheckServiceNodePort, PlaceInv, PortInv
    <3>4. QED
      BY <3>1, <3>2, <3>3
  <2>11. QED
    BY <2>6, <2>7, <2>8, <2>10 DEF PlaceInv
<1>3. ASSUME NEW s \in Spaces, Refused(s) PROVE PlaceInv'
  <2> DEFINE p == [Nowhere EXCEPT !.at = "over"]
  <2>1. /\ p \in Places /\ p.gpus \in {place[s].gpus, {}} /\ p.port \in {place[s].port, 0}
        /\ place' = [place EXCEPT ![s] = p]
    BY <1>0, <1>3, GoneIsAPlace DEF Refused, Places, Leaves, Nowhere
  <2>2. service[s] = 0
    BY <1>0, <1>3 DEF Refused, PlaceInv, ServiceInv, Places
  <2> HIDE DEF p
  <2>3. cache' \in Nat /\ overlapped' \in BOOLEAN
    BY <1>0, <1>3 DEF Refused, Places, Store
  <2>4. QED
    BY <1>3, <2>1, <2>2, <2>3, OnlyPlaceMoves DEF Refused, Store
<1>4. ASSUME NEW s \in Spaces, LoadToSave(s) PROVE PlaceInv'
  <2> DEFINE p == [place[s] EXCEPT !.at = "saving", !.loaded = cache]
  <2>1. /\ p \in Places /\ p.gpus \in {place[s].gpus, {}} /\ p.port \in {place[s].port, 0}
        /\ place' = [place EXCEPT ![s] = p]
    BY <1>0, <1>4 DEF LoadToSave, Places, Goes
  <2>2. service[s] = 0
    BY <1>0, <1>4 DEF LoadToSave, PlaceInv, ServiceInv, Places
  <2> HIDE DEF p
  <2>3. cache' \in Nat /\ overlapped' \in BOOLEAN
    BY <1>0, <1>4 DEF LoadToSave, Places, Store
  <2>4. QED
    BY <1>4, <2>1, <2>2, <2>3, OnlyPlaceMoves DEF LoadToSave, Store
<1>5. ASSUME NEW s \in Spaces, SaveGpuCache(s) PROVE PlaceInv'
  <2> DEFINE p == [place[s] EXCEPT !.at = "deploying"]
  <2>1. /\ p \in Places /\ p.gpus \in {place[s].gpus, {}} /\ p.port \in {place[s].port, 0}
        /\ place' = [place EXCEPT ![s] = p]
    BY <1>0, <1>5 DEF SaveGpuCache, Places, Goes
  <2>2. service[s] = 0
    BY <1>0, <1>5 DEF SaveGpuCache, PlaceInv, ServiceInv, Places
  <2> HIDE DEF p
  <2>3. cache' \in Nat /\ overlapped' \in BOOLEAN
    BY <1>0, <1>5 DEF SaveGpuCache, Places, Store
  <2>4. QED
    BY <1>5, <2>1, <2>2, <2>3, OnlyPlaceMoves DEF SaveGpuCache, Store
<1>6. ASSUME NEW s \in Spaces, PortRefused(s) PROVE PlaceInv'
  <2> DEFINE p == [place[s] EXCEPT !.at = "done"]
  <2>1. /\ p \in Places /\ p.gpus \in {place[s].gpus, {}} /\ p.port \in {place[s].port, 0}
        /\ place' = [place EXCEPT ![s] = p]
    BY <1>0, <1>6 DEF PortRefused, Places, Goes
  <2>2. service[s] = 0
    BY <1>0, <1>6 DEF PortRefused, PlaceInv, ServiceInv, Places
  <2> HIDE DEF p
  <2>3. cache' \in Nat /\ overlapped' \in BOOLEAN
    BY <1>0, <1>6 DEF PortRefused, Places, Store
  <2>4. QED
    BY <1>6, <2>1, <2>2, <2>3, OnlyPlaceMoves DEF PortRefused, Store
<1>7. ASSUME NEW s \in Spaces, DeployFails(s) PROVE PlaceInv'
  <2> DEFINE p == [place[s] EXCEPT !.at = "done"]
  <2>1. /\ p \in Places /\ p.gpus \in {place[s].gpus, {}} /\ p.port \in {place[s].port, 0}
        /\ place' = [place EXCEPT ![s] = p]
    BY <1>0, <1>7 DEF DeployFails, Places, Goes
  <2>2. service[s] = 0
    BY <1>0, <1>7 DEF DeployFails, PlaceInv, ServiceInv, Places
  <2> HIDE DEF p
  <2>3. cache' \in Nat /\ overlapped' \in BOOLEAN
    BY <1>0, <1>7 DEF DeployFails, Places, Store
  <2>4. QED
    BY <1>7, <2>1, <2>2, <2>3, OnlyPlaceMoves DEF DeployFails, Store
<1>8. ASSUME NEW s \in Spaces, LoadToDelete(s) PROVE PlaceInv'
  <2> DEFINE p == [place[s] EXCEPT !.at = "deleting", !.loaded = cache]
  <2>1. /\ p \in Places /\ p.gpus \in {place[s].gpus, {}} /\ p.port \in {place[s].port, 0}
        /\ place' = [place EXCEPT ![s] = p]
    BY <1>0, <1>8 DEF LoadToDelete, Places, Goes
  <2>2. /\ service[s] # 0 => service[s] = p.port /\ p.ok
        /\ p.at = "deleting"
    BY <1>0, <1>8 DEF LoadToDelete, PlaceInv, ServiceInv, Places
  <2> HIDE DEF p
  <2>3. cache' \in Nat /\ overlapped' \in BOOLEAN
    BY <1>0, <1>8 DEF LoadToDelete, Places, Store
  <2>4. QED
    BY <1>8, <2>1, <2>2, <2>3, OnlyPlaceMoves DEF LoadToDelete, Store
<1>9. ASSUME NEW s \in Spaces, CreateDeployment(s) PROVE PlaceInv'
  <2>1. PICK ok \in BOOLEAN, at \in {"waiting", "done"} :
            place' = [place EXCEPT ![s] = [@ EXCEPT !.ok = ok, !.at = at]]
    BY <1>9 DEF CreateDeployment
  <2> DEFINE p == [place[s] EXCEPT !.ok = ok, !.at = at]
  <2>2. /\ p \in Places /\ p.gpus = place[s].gpus /\ p.port = place[s].port
        /\ place' = [place EXCEPT ![s] = p]
    BY <1>0, <2>1 DEF Places
  <2> HIDE DEF p
  <2>3. service[s] = 0
    BY <1>9 DEF CreateDeployment, PlaceInv, ServiceInv
  <2>4. GpuInv' /\ PortInv'
    BY <1>9, <2>2, NothingPicked DEF CreateDeployment
  <2>5. PlaceTypeOK'
    BY <1>9, <2>2, PlaceTypes DEF CreateDeployment, PlaceInv, PlaceTypeOK, Places
  <2>6. ServiceInv'
    BY <1>9, <2>2, <2>3, PlaceTypes DEF CreateDeployment, PlaceInv, ServiceInv
  <2>7. QED
    BY <2>4, <2>5, <2>6 DEF PlaceInv
<1>10. ASSUME NEW s \in Spaces, CreateService(s) PROVE PlaceInv'
  <2> DEFINE p == [place[s] EXCEPT !.at = "done", !.ok = TRUE]
  <2>1. /\ p \in Places /\ p.gpus = place[s].gpus /\ p.port = place[s].port
        /\ p.at = "done" /\ p.ok /\ place' = [place EXCEPT ![s] = p]
    BY <1>0, <1>10 DEF CreateService, Places
  <2> HIDE DEF p
  <2>2. GpuInv' /\ PortInv'
    BY <1>10, <2>1, NothingPicked DEF CreateService
  <2>3. PlaceTypeOK'
    <3>1. place[s].port \in NodePorts \cup {0}
      BY <1>0 DEF Places
    <3>2. service' \in [Spaces -> NodePorts \cup {0}]
      BY <1>10, <3>1, PlaceTypes DEF CreateService, PlaceInv
    <3>3. place' \in [Spaces -> Places]
      BY <1>0, <2>1
    <3>4. QED
      BY <1>10, <3>2, <3>3, PlaceTypes DEF CreateService, PlaceInv, PlaceTypeOK, Places
  <2>4. ServiceInv'
    BY <1>10, <2>1, PlaceTypes DEF CreateService, PlaceInv, ServiceInv
  <2>5. QED
    BY <2>2, <2>3, <2>4 DEF PlaceInv
<1>11. ASSUME NEW s \in Spaces, DeleteGpuCache(s) PROVE PlaceInv'
  <2>1. cache' \in Nat /\ overlapped' \in BOOLEAN
    <3>1. place[s].loaded \in Nat
      BY <1>0 DEF Places
    <3>2. (IF place[s].loaded < Need[s] THEN 0 ELSE place[s].loaded - Need[s]) \in Nat
      BY <1>0, <3>1
    <3>3. QED
      BY <1>0, <1>11, <3>2 DEF DeleteGpuCache, Store
  <2>2. CASE place[s].ok
    <3> DEFINE p == [place[s] EXCEPT !.at = "over"]
    <3>1. /\ p \in Places /\ p.gpus = place[s].gpus /\ p.port = place[s].port
          /\ p.at = "over" /\ place' = [place EXCEPT ![s] = p]
      BY <1>0, <1>11, <2>2 DEF DeleteGpuCache, Goes, Places
    <3> HIDE DEF p
    <3>2. service[s] # 0 => service[s] = p.port
      BY <3>1 DEF PlaceInv, ServiceInv
    <3>3. UNCHANGED <<pod, service, gpuRaces, portRaces, restarts>>
      BY <1>11, <2>2 DEF DeleteGpuCache
    <3>4. QED
      BY <2>1, <3>1, <3>2, <3>3, OnlyPlaceMoves
  <2>3. CASE ~place[s].ok
    <3> DEFINE p == [Nowhere EXCEPT !.at = "over"]
    <3>1. p \in Places /\ p.gpus = {} /\ p.port = 0 /\ place' = [place EXCEPT ![s] = p]
      BY <1>11, <2>3, GoneIsAPlace DEF DeleteGpuCache, Leaves, Nowhere
    <3> HIDE DEF p
    <3>2. /\ pod' = [pod EXCEPT ![s] = "none"]
          /\ UNCHANGED <<service, gpuRaces, portRaces, restarts>>
      BY <1>11, <2>3 DEF DeleteGpuCache
    <3>3. service[s] = 0
      BY <1>11, <2>3 DEF DeleteGpuCache, PlaceInv, ServiceInv
    <3>4. GpuInv' /\ PortInv'
      BY <3>1, <3>2, NothingPicked
    <3>5. PlaceTypeOK'
      BY <2>1, <3>1, <3>2, PlaceTypes DEF PlaceInv, PlaceTypeOK, Places
    <3>6. ServiceInv'
      BY <3>1, <3>2, <3>3, PlaceTypes DEF PlaceInv, ServiceInv
    <3>7. QED
      BY <3>4, <3>5, <3>6 DEF PlaceInv
  <2>4. QED
    BY <2>2, <2>3
<1>12. ASSUME NEW s \in Spaces, PodRuns(s) PROVE PlaceInv'
  <2>1. /\ pod[s] = "pending" /\ pod' = [pod EXCEPT ![s] = "running"]
        /\ UNCHANGED <<place, service, cache, overlapped, gpuRaces, portRaces, restarts>>
    BY <1>12 DEF PodRuns
  <2>2. GpuInv' /\ PortInv'
    BY <2>1 DEF PlaceInv, GpuInv, PortInv
  <2>3. PlaceTypeOK'
    BY <2>1, PlaceTypes DEF PlaceInv, PlaceTypeOK, Places
  <2>4. ServiceInv'
    BY <2>1, PlaceTypes DEF PlaceInv, ServiceInv
  <2>5. QED
    BY <2>2, <2>3, <2>4 DEF PlaceInv
<1>13. ASSUME NEW s \in Spaces, SpaceEnds(s) PROVE PlaceInv'
  <2> DEFINE p == [Nowhere EXCEPT !.at = "over"]
  <2>1. p \in Places /\ p.gpus = {} /\ p.port = 0 /\ place' = [place EXCEPT ![s] = p]
    BY <1>13, GoneIsAPlace DEF SpaceEnds, Leaves, Nowhere
  <2> HIDE DEF p
  <2>2. /\ pod' = [pod EXCEPT ![s] = "none"] /\ service' = [service EXCEPT ![s] = 0]
        /\ UNCHANGED <<cache, overlapped, gpuRaces, portRaces, restarts>>
    BY <1>13 DEF SpaceEnds
  <2>3. GpuInv' /\ PortInv'
    BY <2>1, <2>2, NothingPicked
  <2>4. PlaceTypeOK'
    BY <2>1, <2>2, PlaceTypes DEF PlaceInv, PlaceTypeOK, Places
  <2>5. ServiceInv'
    BY <2>1, <2>2, PlaceTypes DEF PlaceInv, ServiceInv
  <2>6. QED
    BY <2>3, <2>4, <2>5 DEF PlaceInv
<1>14. CASE Restart
  <2>1. \A s \in Spaces :
            /\ place'[s] \in Places
            /\ place'[s].gpus \in {place[s].gpus, {}} /\ place'[s].port \in {place[s].port, 0}
            /\ service[s] # 0 => place'[s].port = place[s].port /\ place'[s].at = "over"
    <3> SUFFICES ASSUME NEW s \in Spaces
                 PROVE  /\ place'[s] \in Places
                        /\ place'[s].gpus \in {place[s].gpus, {}}
                        /\ place'[s].port \in {place[s].port, 0}
                        /\ service[s] # 0 => /\ place'[s].port = place[s].port
                                             /\ place'[s].at = "over"
      OBVIOUS
    <3>1. CASE service[s] = 0 /\ (place[s].at = "none" \/ pod[s] = "none")
      BY <1>14, <3>1, GoneIsAPlace DEF Restart, Nowhere
    <3>2. CASE place[s].at # "none" /\ pod[s] # "none"
      BY <1>0, <1>14, <3>2 DEF Restart, Places
    <3>3. service[s] # 0 => place[s].at # "none" /\ pod[s] # "none"
      BY DEF PlaceInv, ServiceInv
    <3>4. QED
      BY <3>1, <3>2, <3>3
  <2>2. /\ place' = [s \in Spaces |-> place'[s]]
        /\ cache' = 0 /\ overlapped' = FALSE
        /\ UNCHANGED <<pod, service, gpuRaces, portRaces>>
    BY <1>14 DEF Restart
  <2>3. restarts' \in 0 .. MaxRestarts
    BY <1>14, PlaceTypes, PlacementAssumption DEF Restart, PlaceInv
  <2>4. GpuInv' /\ PortInv'
    BY <2>1, <2>2 DEF PlaceInv, GpuInv, PortInv
  <2>5. place' \in [Spaces -> Places]
    BY <2>1, <2>2
  <2>6. PlaceTypeOK'
    BY <2>2, <2>3, <2>5, PlaceTypes DEF PlaceInv, PlaceTypeOK, Places
  <2>7. ServiceInv'
    BY <2>1, <2>2 DEF PlaceInv, ServiceInv
  <2>8. QED
    BY <2>4, <2>6, <2>7 DEF PlaceInv
<1>15. CASE UNCHANGED placeVars
  BY <1>15 DEF placeVars, PlaceInv, PlaceTypeOK, ServiceInv, GpuInv, PortInv
<1>16. QED
  BY <1>1, <1>2, <1>3, <1>4, <1>5, <1>6, <1>7, <1>8, <1>9, <1>10, <1>11, <1>12, <1>13, <1>14,
     <1>15 DEF PlaceNext

\* Nothing has been picked in the beginning.
LEMMA PlaceStarts == PlaceInit => PlaceInv
<1> SUFFICES ASSUME PlaceInit PROVE PlaceInv
  OBVIOUS
<1>1. place \in [Spaces -> Places] /\ \A s \in Spaces : place[s].gpus = {} /\ place[s].port = 0
  BY GoneIsAPlace DEF PlaceInit, Nowhere
<1>2. PlaceTypeOK
  <2>1. restarts \in 0 .. MaxRestarts
    BY PlacementAssumption DEF PlaceInit
  <2>2. pod \in [Spaces -> {"none", "pending", "running"}]
    BY DEF PlaceInit
  <2>3. service \in [Spaces -> NodePorts \cup {0}]
    BY DEF PlaceInit
  <2>4. QED
    BY <1>1, <2>1, <2>2, <2>3, PlaceTypes DEF PlaceInit
<1>3. ServiceInv /\ GpuInv /\ PortInv
  BY <1>1 DEF PlaceInit, ServiceInv, GpuInv, PortInv
<1>4. QED
  BY <1>2, <1>3 DEF PlaceInv

\* Every variable of the cluster has its type: there is always a port left to pick,
\* and as many GPUs as were counted (space_service.go:1849-1925).
THEOREM PlacementTypeCorrect == PlaceSpec => []PlaceTypeOK
<1>1. PlaceInv => PlaceTypeOK
  BY DEF PlaceInv
<1>2. QED
  BY <1>1, PlaceStarts, PlaceStep, PTL DEF PlaceSpec

\* Two running spaces hold the same GPU only when one was checked before the other's
\* pod ran.
THEOREM GpusAreShared == PlaceSpec => []GpuSharedOnlyByRace
<1>1. PlaceInv => GpuSharedOnlyByRace
  BY DEF PlaceInv, GpuInv, GpuSharedOnlyByRace
<1>2. QED
  BY <1>1, PlaceStarts, PlaceStep, PTL DEF PlaceSpec

\* A service is refused its port only when two spaces picked it at a time.
THEOREM PortsAreRefused == PlaceSpec => []PortRefusedOnlyByRace
<1>1. PlaceInv => PortRefusedOnlyByRace
  BY DEF PlaceInv, ServiceInv, PortInv, PortRefusedOnlyByRace
<1>2. QED
  BY <1>1, PlaceStarts, PlaceStep, PTL DEF PlaceSpec

-----------------------------------------------------------------------------
(* The cache.                                                              *)

Counts(at) == at \in {"deploying", "waiting", "done", "deleting"}

CountInv == ~overlapped => cache = NeedOf(Counted)

LEMMA CountedIs == CountInv <=> CacheCountsDeploying
  BY DEF CountInv, CacheCountsDeploying, NeedOf

\* A step that counts no space in and none out.
LEMMA CountStays ==
    ASSUME PlaceInv, CountInv, UNCHANGED <<cache, overlapped>>,
           \A s \in Spaces : Counts(place'[s].at) <=> Counts(place[s].at)
    PROVE  CountInv'
<1>1. Counted' = Counted
  BY DEF Counted, Counts
<1>2. QED
  BY <1>1 DEF CountInv

\* One space moves, and is counted as it was.
LEMMA OneCountStays ==
    ASSUME PlaceInv, CountInv, UNCHANGED <<cache, overlapped>>,
           NEW s \in Spaces, NEW p \in Places, place' = [place EXCEPT ![s] = p],
           Counts(p.at) <=> Counts(place[s].at)
    PROVE  CountInv'
<1>1. \A t \in Spaces : Counts(place'[t].at) <=> Counts(place[t].at)
  BY PlaceTypes DEF PlaceInv
<1>2. QED
  BY <1>1, CountStays

LEMMA CacheStep ==
    PlaceInv /\ CountInv /\ [PlaceNext]_placeVars => CountInv'
<1> SUFFICES ASSUME PlaceInv, CountInv, [PlaceNext]_placeVars
             PROVE  CountInv'
  OBVIOUS
<1>0. /\ place \in [Spaces -> Places] /\ cache \in Nat /\ overlapped \in BOOLEAN
      /\ \A s \in Spaces : Need[s] \in Nat
  BY PlaceTypes, PlacementAssumption DEF PlaceInv
<1>1. Counted \in SUBSET Spaces
  BY DEF Counted
<1>2. ASSUME NEW s \in Spaces, CheckResources(s) PROVE CountInv'
  <2> DEFINE picked == FirstOf(Gpus \ UsedGpus, Need[s])
  <2>1. PICK at \in {"port", "checked"} :
            place' = [place EXCEPT ![s] = [@ EXCEPT !.at = at, !.gpus = picked]]
    BY <1>2 DEF CheckResources
  <2>2. picked \in SUBSET Gpus
    BY <1>2, PickedAreFree DEF CheckResources, PlaceInv
  <2> HIDE DEF picked
  <2> DEFINE p == [place[s] EXCEPT !.at = at, !.gpus = picked]
  <2>3. p \in Places /\ p.at = at /\ place' = [place EXCEPT ![s] = p]
    BY <1>0, <2>1, <2>2 DEF Places
  <2> HIDE DEF p
  <2>4. Counts(p.at) <=> Counts(place[s].at)
    BY <1>2, <2>3 DEF CheckResources, Counts
  <2>5. QED
    BY <1>2, <2>3, <2>4, OneCountStays DEF CheckResources
<1>3. ASSUME NEW s \in Spaces, CheckServiceNodePort(s) PROVE CountInv'
  <2> DEFINE picked == Min(NodePorts \ UsedPorts)
  <2>1. service[s] = 0
    BY <1>3 DEF CheckServiceNodePort, PlaceInv, ServiceInv
  <2>2. picked \in NodePorts
    BY <2>1, PortPicked DEF PlaceInv
  <2>3. place' = [place EXCEPT ![s] = [@ EXCEPT !.at = "checked", !.port = picked]]
    BY <1>3 DEF CheckServiceNodePort
  <2> HIDE DEF picked
  <2> DEFINE p == [place[s] EXCEPT !.at = "checked", !.port = picked]
  <2>4. p \in Places /\ p.at = "checked" /\ place' = [place EXCEPT ![s] = p]
    BY <1>0, <2>2, <2>3 DEF Places
  <2> HIDE DEF p
  <2>5. QED
    BY <1>3, <2>4, OneCountStays DEF CheckServiceNodePort, Counts
<1>4. ASSUME NEW s \in Spaces, Refused(s) PROVE CountInv'
  <2> DEFINE p == [Nowhere EXCEPT !.at = "over"]
  <2>1. /\ p \in Places /\ place' = [place EXCEPT ![s] = p]
        /\ Counts(p.at) <=> Counts(place[s].at)
    BY <1>0, <1>4, GoneIsAPlace DEF Refused, Places, Counts, Leaves, Nowhere
  <2> HIDE DEF p
  <2>2. QED
    BY <1>4, <2>1, OneCountStays DEF Refused
<1>5. ASSUME NEW s \in Spaces, LoadToSave(s) PROVE CountInv'
  <2> DEFINE p == [place[s] EXCEPT !.at = "saving", !.loaded = cache]
  <2>1. /\ p \in Places /\ place' = [place EXCEPT ![s] = p]
        /\ Counts(p.at) <=> Counts(place[s].at)
    BY <1>0, <1>5 DEF LoadToSave, Places, Counts, Goes
  <2> HIDE DEF p
  <2>2. QED
    BY <1>5, <2>1, OneCountStays DEF LoadToSave
<1>6. ASSUME NEW s \in Spaces, CreateService(s) PROVE CountInv'
  <2> DEFINE p == [place[s] EXCEPT !.at = "done", !.ok = TRUE]
  <2>1. /\ p \in Places /\ place' = [place EXCEPT ![s] = p]
        /\ Counts(p.at) <=> Counts(place[s].at)
    BY <1>0, <1>6 DEF CreateService, Places, Counts, Goes
  <2> HIDE DEF p
  <2>2. QED
    BY <1>6, <2>1, OneCountStays DEF CreateService
<1>7. ASSUME NEW s \in Spaces, PortRefused(s) PROVE CountInv'
  <2> DEFINE p == [place[s] EXCEPT !.at = "done"]
  <2>1. /\ p \in Places /\ place' = [place EXCEPT ![s] = p]
        /\ Counts(p.at) <=> Counts(place[s].at)
    BY <1>0, <1>7 DEF PortRefused, Places, Counts, Goes
  <2> HIDE DEF p
  <2>2. QED
    BY <1>7, <2>1, OneCountStays DEF PortRefused
<1>8. ASSUME NEW s \in Spaces, DeployFails(s) PROVE CountInv'
  <2> DEFINE p == [place[s] EXCEPT !.at = "done"]
  <2>1. /\ p \in Places /\ place' = [place EXCEPT ![s] = p]
        /\ Counts(p.at) <=> Counts(place[s].at)
    BY <1>0, <1>8 DEF DeployFails, Places, Counts, Goes
  <2> HIDE DEF p
  <2>2. QED
    BY <1>8, <2>1, OneCountStays DEF DeployFails
<1>9. ASSUME NEW s \in Spaces, LoadToDelete(s) PROVE CountInv'
  <2> DEFINE p == [place[s] EXCEPT !.at = "deleting", !.loaded = cache]
  <2>1. /\ p \in Places /\ place' = [place EXCEPT ![s] = p]
        /\ Counts(p.at) <=> Counts(place[s].at)
    BY <1>0, <1>9 DEF LoadToDelete, Places, Counts, Goes
  <2> HIDE DEF p
  <2>2. QED
    BY <1>9, <2>1, OneCountStays DEF LoadToDelete
<1>10. ASSUME NEW s \in Spaces, SpaceEnds(s) PROVE CountInv'
  <2> DEFINE p == [Nowhere EXCEPT !.at = "over"]
  <2>1. /\ p \in Places /\ place' = [place EXCEPT ![s] = p]
        /\ Counts(p.at) <=> Counts(place[s].at)
    BY <1>0, <1>10, GoneIsAPlace DEF SpaceEnds, Places, Counts, Leaves, Nowhere
  <2> HIDE DEF p
  <2>2. QED
    BY <1>10, <2>1, OneCountStays DEF SpaceEnds
<1>11. ASSUME NEW s \in Spaces, CreateDeployment(s) PROVE CountInv'
  <2>1. PICK ok \in BOOLEAN, at \in {"waiting", "done"} :
            place' = [place EXCEPT ![s] = [@ EXCEPT !.ok = ok, !.at = at]]
    BY <1>11 DEF CreateDeployment
  <2> DEFINE p == [place[s] EXCEPT !.ok = ok, !.at = at]
  <2>2. p \in Places /\ place' = [place EXCEPT ![s] = p] /\ p.at = at
    BY <1>0, <2>1 DEF Places
  <2> HIDE DEF p
  <2>3. Counts(p.at) <=> Counts(place[s].at)
    BY <1>11, <2>2 DEF CreateDeployment, Counts
  <2>4. QED
    BY <1>11, <2>2, <2>3, OneCountStays DEF CreateDeployment
<1>12. ASSUME NEW s \in Spaces, SaveGpuCache(s) PROVE CountInv'
  <2>1. /\ s \notin Counted
        /\ cache' = place[s].loaded + Need[s]
        /\ overlapped' = (overlapped \/ cache # place[s].loaded)
    BY <1>12 DEF SaveGpuCache, Store, Counted
  <2>2. /\ place'[s].at = "deploying"
        /\ \A t \in Spaces \ {s} : place'[t] = place[t]
    BY <1>0, <1>12 DEF SaveGpuCache, Goes, Places
  <2>3. Counted' = Counted \cup {s} /\ (Counted \cup {s}) \ {s} = Counted
    BY <2>1, <2>2 DEF Counted
  <2>4. NeedOf(Counted \cup {s}) = Need[s] + NeedOf(Counted) /\ NeedOf(Counted) \in Nat
    <3>1. Counted \cup {s} \in SUBSET Spaces
      BY <1>1
    <3>2. QED
      BY <1>1, <2>3, <3>1, NeedAdds
  <2>5. SUFFICES ASSUME ~overlapped' PROVE cache' = NeedOf(Counted \cup {s})
    BY <2>3 DEF CountInv
  <2>6. ~overlapped /\ cache = place[s].loaded
    BY <1>0, <2>1, <2>5
  <2>7. cache = NeedOf(Counted)
    BY <2>6 DEF CountInv
  <2>8. QED
    BY <1>0, <2>1, <2>4, <2>6, <2>7
<1>13. ASSUME NEW s \in Spaces, DeleteGpuCache(s) PROVE CountInv'
  <2>1. /\ s \in Counted
        /\ cache' = IF place[s].loaded < Need[s] THEN 0 ELSE place[s].loaded - Need[s]
        /\ overlapped' = (overlapped \/ cache # place[s].loaded)
    BY <1>13 DEF DeleteGpuCache, Store, Counted
  <2>2. /\ place'[s].at = "over"
        /\ \A t \in Spaces \ {s} : place'[t] = place[t]
    <3>1. CASE place[s].ok
      BY <1>0, <1>13, <3>1 DEF DeleteGpuCache, Goes, Places
    <3>2. CASE ~place[s].ok
      BY <1>0, <1>13, <3>2 DEF DeleteGpuCache, Leaves, Nowhere
    <3>3. QED
      BY <3>1, <3>2
  <2>3. Counted' = Counted \ {s}
    BY <2>1, <2>2 DEF Counted
  <2>4. NeedOf(Counted) = Need[s] + NeedOf(Counted \ {s})
    BY <1>1, <2>1, NeedAdds
  <2>5. NeedOf(Counted \ {s}) \in Nat
    <3>1. Counted \ {s} \in SUBSET Spaces
      BY <1>1
    <3>2. QED
      BY <3>1, NeedAdds
  <2>6. SUFFICES ASSUME ~overlapped' PROVE cache' = NeedOf(Counted \ {s})
    BY <2>3 DEF CountInv
  <2>7. ~overlapped /\ cache = place[s].loaded
    BY <1>0, <2>1, <2>6
  <2>8. cache = NeedOf(Counted)
    BY <2>7 DEF CountInv
  <2>9. QED
    BY <1>0, <2>1, <2>4, <2>5, <2>7, <2>8
<1>14. ASSUME NEW s \in Spaces, PodRuns(s) PROVE CountInv'
  BY <1>14, CountStays DEF PodRuns
<1>15. CASE Restart
  <2>1. \A s \in Spaces : ~Counts(place'[s].at)
    <3>1. \A s \in Spaces : place'[s].at \in {"none", "over"}
      BY <1>0, <1>15 DEF Restart, Nowhere, Places
    <3>2. QED
      BY <3>1 DEF Counts
  <2>2. Counted' = {}
    BY <2>1 DEF Counted, Counts
  <2>3. cache' = 0 /\ NeedOf({}) = 0
    BY <1>15, NeedAdds DEF Restart
  <2>4. QED
    BY <2>2, <2>3 DEF CountInv
<1>16. CASE UNCHANGED placeVars
  BY <1>16, CountStays DEF placeVars
<1>17. QED
  BY <1>2, <1>3, <1>4, <1>5, <1>6, <1>7, <1>8, <1>9, <1>10, <1>11, <1>12, <1>13, <1>14, <1>15,
     <1>16 DEF PlaceNext

\* Unless two updates overlapped, the cache counts the GPUs of the deployments under
\* way, and nothing is left of one that is over (space_service.go:1341-1352, 2561-2581).
THEOREM CacheCounts == PlaceSpec => []CacheCountsDeploying
<1>1. PlaceInit => CountInv
  <2> SUFFICES ASSUME PlaceInit PROVE CountInv
    OBVIOUS
  <2>1. Counted = {} /\ cache = 0
    BY DEF PlaceInit, Counted, Nowhere
  <2>2. QED
    BY <2>1, NeedAdds DEF CountInv
<1>2. QED
  BY <1>1, PlaceStarts, PlaceStep, CacheStep, CountedIs, PTL DEF PlaceSpec

-----------------------------------------------------------------------------
(* The ports of a docker host.                                             *)

\* A job that has picked or runs has as many ports as it asked for, or asked for too
\* many.
HasAsked(j) == Cardinality(hosted[j].ports) = Asked[j] \/ Asked[j] > Cardinality(PortRange)

HostInv ==
    /\ HostTypeOK
    /\ \A j \in PortJobs :
           /\ hosted[j].ports \cap others = {}
           /\ hosted[j].at = "none" => hosted[j].ports = {}
           /\ hosted[j].at \in {"picked", "running"} => HasAsked(j)
           /\ hosted[j].at = "refused" => \E pair \in hostRaces : j \in pair
    /\ \A j \in PortJobs : \A k \in PortJobs \ {j} :
           /\ hosted[j].at = "picked" /\ hosted[k].at \in {"picked", "running"}
           /\ hosted[j].ports \cap hosted[k].ports # {}
           => {j, k} \in hostRaces

Hosteds == [at : {"none", "picked", "running", "refused", "over"}, ports : SUBSET PortRange]

\* What a step leaves of the record of a job of which it only changes where it is.
LEMMA OnlyAtMoves ==
    ASSUME HostInv, NEW j \in PortJobs, NEW at \in {"picked", "running", "refused", "over"},
           hosted' = [hosted EXCEPT ![j].at = at]
    PROVE  /\ hosted' \in [PortJobs -> Hosteds]
           /\ hosted'[j].at = at /\ hosted'[j].ports = hosted[j].ports
           /\ \A k \in PortJobs \ {j} : hosted'[k] = hosted[k]
<1>1. hosted \in [PortJobs -> Hosteds]
  BY DEF HostInv, HostTypeOK, Hosteds
<1>2. /\ [hosted[j] EXCEPT !.at = at] \in Hosteds
      /\ [hosted[j] EXCEPT !.at = at].at = at
      /\ [hosted[j] EXCEPT !.at = at].ports = hosted[j].ports
  BY <1>1 DEF Hosteds
<1>3. QED
  BY <1>1, <1>2

\* A step in which one job moves and nobody picks.
LEMMA HostMoves ==
    ASSUME HostInv, NEW j \in PortJobs, UNCHANGED <<others, hostRaces>>,
           hosted' \in [PortJobs -> Hosteds],
           \A k \in PortJobs \ {j} : hosted'[k] = hosted[k],
           hosted'[j].ports \subseteq hosted[j].ports, hosted'[j].at # "none",
           hosted'[j].at \in {"picked", "running"} => HasAsked(j)',
           hosted'[j].at = "picked" => hosted'[j].ports = {},
           hosted'[j].at = "running" => hosted[j].at = "picked",
           hosted'[j].at = "refused" => \E pair \in hostRaces : j \in pair
    PROVE  HostInv'
<1>1. \A k \in PortJobs \ {j} : hosted'[k] = hosted[k]
  OBVIOUS
<1>2. HostTypeOK'
  BY DEF HostInv, HostTypeOK, Hosteds
<1>3. \A k \in PortJobs :
          /\ hosted'[k].ports \cap others' = {}
          /\ hosted'[k].at = "none" => hosted'[k].ports = {}
          /\ hosted'[k].at = "refused" => \E pair \in hostRaces' : k \in pair
  BY <1>1 DEF HostInv
<1>4. ASSUME NEW k \in PortJobs, hosted'[k].at \in {"picked", "running"}
      PROVE  HasAsked(k)'
  <2>1. CASE k = j
    BY <1>1, <1>4, <2>1
  <2>2. CASE k # j
    BY <1>1, <1>4, <2>2 DEF HostInv, HasAsked
  <2>3. QED
    BY <2>1, <2>2
<1>5. ASSUME NEW i \in PortJobs, NEW k \in PortJobs \ {i},
             hosted'[i].at = "picked", hosted'[k].at \in {"picked", "running"},
             hosted'[i].ports \cap hosted'[k].ports # {}
      PROVE  {i, k} \in hostRaces'
  <2>1. i # j
    BY <1>1, <1>5
  <2>2. CASE k = j
    <3>1. hosted[j].at = "picked" /\ hosted[i].ports \cap hosted[j].ports # {}
      BY <1>1, <1>5, <2>1, <2>2
    <3>2. QED
      BY <1>1, <1>5, <2>1, <2>2, <3>1 DEF HostInv
  <2>3. CASE k # j
    BY <1>1, <1>5, <2>1, <2>3 DEF HostInv
  <2>4. QED
    BY <2>2, <2>3
<1>6. QED
  BY <1>2, <1>3, <1>4, <1>5 DEF HostInv

LEMMA HostStep == HostInv /\ [HostNext]_hostVars => HostInv'
<1> SUFFICES ASSUME HostInv, [HostNext]_hostVars PROVE HostInv'
  OBVIOUS
<1>1. ASSUME NEW j \in PortJobs, HandleMultiPort(j) PROVE HostInv'
  <2> DEFINE free == {port \in PortRange : IsPortAvailable(port)}
  <2>1. PICK S \in FirstPorts(Asked[j]) :
            hosted' = [hosted EXCEPT ![j] = [at |-> "picked", ports |-> S]]
    BY <1>1 DEF HandleMultiPort
  <2>2. S \in SUBSET free /\ Cardinality(S) = Asked[j]
    BY DEF FirstPorts, kSubset
  <2>3. S \in SUBSET PortRange /\ S \cap Bound = {}
    BY <2>2 DEF IsPortAvailable
  <2>4. /\ hosted'[j].at = "picked" /\ hosted'[j].ports = S
        /\ \A k \in PortJobs \ {j} : hosted'[k] = hosted[k]
    BY <2>1 DEF HostInv, HostTypeOK
  <2>5. HostTypeOK'
    <3>1. hostRaces' \subseteq SUBSET PortJobs
      BY <1>1 DEF HandleMultiPort, HostInv, HostTypeOK
    <3>2. QED
      BY <1>1, <2>1, <2>3, <3>1 DEF HandleMultiPort, HostInv, HostTypeOK
  <2>6. \A k \in PortJobs :
            /\ hosted'[k].ports \cap others' = {}
            /\ hosted'[k].at = "none" => hosted'[k].ports = {}
            /\ hosted'[k].at \in {"picked", "running"} => HasAsked(k)'
            /\ hosted'[k].at = "refused" => \E pair \in hostRaces' : k \in pair
    <3>1. TAKE k \in PortJobs
    <3>2. CASE k = j
      BY <1>1, <2>2, <2>3, <2>4, <3>2 DEF HandleMultiPort, HasAsked, Bound
    <3>3. CASE k # j
      BY <1>1, <2>4, <3>3 DEF HandleMultiPort, HasAsked, HostInv
    <3>4. QED
      BY <3>2, <3>3
  <2>7. ASSUME NEW k \in PortJobs \ {j}, hosted'[k].at \in {"picked", "running"},
               S \cap hosted'[k].ports # {}
        PROVE  {j, k} \in hostRaces'
    <3>1. hosted[k].at = "picked"
      BY <2>3, <2>4, <2>7 DEF Bound
    <3>2. QED
      BY <1>1, <3>1 DEF HandleMultiPort
  <2>8. ASSUME NEW i \in PortJobs, NEW k \in PortJobs \ {i},
               hosted'[i].at = "picked", hosted'[k].at \in {"picked", "running"},
               hosted'[i].ports \cap hosted'[k].ports # {}
        PROVE  {i, k} \in hostRaces'
    <3>1. CASE i = j
      BY <2>4, <2>7, <2>8, <3>1
    <3>2. CASE k = j
      <4>1. {k, i} \in hostRaces'
        BY <2>4, <2>7, <2>8, <3>2
      <4>2. QED
        BY <4>1
    <3>3. CASE i # j /\ k # j
      BY <1>1, <2>4, <2>8, <3>3 DEF HandleMultiPort, HostInv
    <3>4. QED
      BY <3>1, <3>2, <3>3
  <2>9. QED
    BY <2>5, <2>6, <2>8 DEF HostInv
<1>2. ASSUME NEW j \in PortJobs, RangeTaken(j) PROVE HostInv'
  <2>1. /\ hosted' \in [PortJobs -> Hosteds]
        /\ hosted'[j].at = "picked" /\ hosted'[j].ports = hosted[j].ports
        /\ \A k \in PortJobs \ {j} : hosted'[k] = hosted[k]
    BY <1>2, OnlyAtMoves DEF RangeTaken
  <2>2. hosted[j].ports = {} /\ Asked[j] > Cardinality(PortRange)
    BY <1>2 DEF RangeTaken, HostInv
  <2>3. HasAsked(j)'
    BY <2>2 DEF HasAsked
  <2>4. QED
    BY <1>2, <2>1, <2>2, <2>3, HostMoves DEF RangeTaken
<1>3. ASSUME NEW j \in PortJobs, IndexPanics(j) PROVE HostInv'
  <2>1. /\ hosted' \in [PortJobs -> Hosteds]
        /\ hosted'[j].at = "over" /\ hosted'[j].ports = hosted[j].ports
        /\ \A k \in PortJobs \ {j} : hosted'[k] = hosted[k]
    BY <1>3, OnlyAtMoves DEF IndexPanics
  <2>2. QED
    BY <1>3, <2>1, HostMoves DEF IndexPanics
<1>4. ASSUME NEW j \in PortJobs, ContainerStarts(j) PROVE HostInv'
  <2>1. /\ hosted' \in [PortJobs -> Hosteds]
        /\ hosted'[j].at = "running" /\ hosted'[j].ports = hosted[j].ports
        /\ \A k \in PortJobs \ {j} : hosted'[k] = hosted[k]
    BY <1>4, OnlyAtMoves DEF ContainerStarts
  <2>2. hosted[j].at = "picked"
    BY <1>4 DEF ContainerStarts
  <2>3. HasAsked(j)'
    BY <2>1, <2>2 DEF HasAsked, HostInv
  <2>4. QED
    BY <1>4, <2>1, <2>2, <2>3, HostMoves DEF ContainerStarts
<1>5. ASSUME NEW j \in PortJobs, ContainerRefused(j) PROVE HostInv'
  <2>1. /\ hosted' \in [PortJobs -> Hosteds]
        /\ hosted'[j].at = "refused" /\ hosted'[j].ports = hosted[j].ports
        /\ \A k \in PortJobs \ {j} : hosted'[k] = hosted[k]
    BY <1>5, OnlyAtMoves DEF ContainerRefused
  <2>2. hosted[j].at = "picked" /\ hosted[j].ports \cap Bound # {}
    BY <1>5 DEF ContainerRefused
  <2>3. PICK k \in PortJobs : hosted[k].at = "running" /\ hosted[j].ports \cap hosted[k].ports # {}
    BY <2>2 DEF Bound, HostInv
  <2>4. {j, k} \in hostRaces
    BY <2>2, <2>3 DEF HostInv
  <2>5. QED
    BY <1>5, <2>1, <2>4, HostMoves DEF ContainerRefused
<1>6. ASSUME NEW j \in PortJobs, ContainerOver(j) PROVE HostInv'
  <2>1. hosted \in [PortJobs -> Hosteds]
    BY DEF HostInv, HostTypeOK, Hosteds
  <2>2. /\ hosted' \in [PortJobs -> Hosteds]
        /\ hosted'[j].at = "over" /\ hosted'[j].ports = {}
        /\ \A k \in PortJobs \ {j} : hosted'[k] = hosted[k]
    BY <1>6, <2>1 DEF ContainerOver, Hosteds
  <2>3. QED
    BY <1>6, <2>2, HostMoves DEF ContainerOver
<1>7. CASE UNCHANGED hostVars
  BY <1>7 DEF hostVars, HostInv, HostTypeOK, HasAsked
<1>8. QED
  BY <1>1, <1>2, <1>3, <1>4, <1>5, <1>6, <1>7 DEF HostNext

\* A container is refused its ports only when another job picked before one of the two
\* had bound, and runs without them only when it asked for more than there are
\* (ecp_image_service.go:672-690 and 793-817).
THEOREM HostPortsAnswered == HostSpec => []HostPortsAsAnswered
<1>1. HostInit => HostInv
  BY DEF HostInit, HostInv, HostTypeOK
<1>2. HostInv => HostPortsAsAnswered
  BY DEF HostInv, HasAsked, HostPortsAsAnswered
<1>3. QED
  BY <1>1, <1>2, HostStep, PTL DEF HostSpec

=============================================================================
