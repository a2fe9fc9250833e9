------------------------ MODULE DsMgrResolutionProofs ------------------------
(***************************************************************************)
(* Proofs about DsMgrResolution, for every platform, every set of displays *)
(* with lists of any length and order, and any number of plugs, settings   *)
(* and timers.                                                             *)
(*                                                                         *)
(* Everything the properties say of the last call is settled when it is    *)
(* made, so the invariants speak of the record last alone; what is         *)
(* inductive is that no later step but a new call touches it, that the     *)
(* fallback list is the platform's once setupPlatformConfig has run, and   *)
(* that 4K is at its head only.                                            *)
(***************************************************************************)
EXTENDS DsMgrResolution, TLAPS

(* The fallback list has 4K at its head or not at all, and is the one of the
   platform when DSMgr runs. *)
ListInv ==
    /\ \A i \in 2..RES_MAX_COUNT : fallBackResolutionList[i] # "2160p"
    /\ phase = "running" => fallBackResolutionList = PlatformList(IsEUPlatform)

(* What the last call has set: a resolution of the TV's list, the default that
   the 4K override forces, or the default since nothing fits. *)
NothingFits(t) ==
    /\ Common(t) = {} /\ DefaultResolution \notin ToSet(t.edid)
    /\ Res("480p", "") \notin ToSet(t.edid)

CallInv ==
    last.made => \/ last.overridden \/ last.to \in ToSet(last.tv.edid)
                 \/ NothingFits(last.tv) /\ last.to = DefaultResolution

-----------------------------------------------------------------------------
(* Operators. *)

LEMMA SmallMin ==
    ASSUME NEW S \in SUBSET (1..RES_MAX_COUNT), S # {}
    PROVE  Min(S) \in S /\ \A y \in S : Min(S) <= y
<1>1. \E x \in S : \A y \in S : x <= y
  <2>1. S \subseteq {1, 2, 3, 4, 5, 6}
    BY DEF RES_MAX_COUNT
  <2>2. CASE 1 \in S
    BY <2>1, <2>2
  <2>3. CASE 1 \notin S /\ 2 \in S
    BY <2>1, <2>3
  <2>4. CASE S \cap {1, 2} = {} /\ 3 \in S
    BY <2>1, <2>4
  <2>5. CASE S \cap {1, 2, 3} = {} /\ 4 \in S
    BY <2>1, <2>5
  <2>6. CASE S \cap {1, 2, 3, 4} = {} /\ 5 \in S
    BY <2>1, <2>6
  <2>7. CASE S \cap {1, 2, 3, 4, 5} = {}
    <3>1. S = {6}
      BY <2>1, <2>7
    <3>2. QED
      BY <3>1
  <2>8. QED
    BY <2>2, <2>3, <2>4, <2>5, <2>6, <2>7
<1>2. QED
  BY <1>1 DEF Min

LEMMA ResBase == \A b, f : Res(b, f).base = b
BY DEF Res

LEMMA FallBackBase == \A b, eu : FallBackResolution(b, eu).base = b
BY DEF FallBackResolution, Res

(* The names tried for an entry have its base; on an EU platform they are the
   ones at either rate. *)
LEMMA TriedNames ==
    ASSUME NEW i, IsEUPlatform \in BOOLEAN
    PROVE  /\ DOMAIN Tried(i) \subseteq 1..RES_MAX_COUNT
           /\ \A k \in DOMAIN Tried(i) : \E rate \in BOOLEAN :
                 /\ Tried(i)[k] = FallBackResolution(fallBackResolutionList[i], rate)
                 /\ rate => IsEUPlatform
           /\ \A rate \in BOOLEAN : (rate => IsEUPlatform) =>
                 \E k \in DOMAIN Tried(i) :
                    Tried(i)[k] = FallBackResolution(fallBackResolutionList[i], rate)
<1>1. CASE IsEUPlatform
  <2> DEFINE a == FallBackResolution(fallBackResolutionList[i], TRUE)
             b == FallBackResolution(fallBackResolutionList[i], FALSE)
  <2>1. Tried(i) = <<a, b>>
    BY <1>1 DEF Tried
  <2> HIDE DEF a, b
  <2>2. DOMAIN Tried(i) = {1, 2} /\ Tried(i)[1] = a /\ Tried(i)[2] = b
    BY <2>1
  <2>3. {1, 2} \subseteq 1..RES_MAX_COUNT
    BY DEF RES_MAX_COUNT
  <2>4. QED
    BY <1>1, <2>2, <2>3 DEF a, b
<1>2. CASE ~IsEUPlatform
  <2> DEFINE b == FallBackResolution(fallBackResolutionList[i], FALSE)
  <2>1. Tried(i) = <<b>>
    BY <1>2 DEF Tried
  <2> HIDE DEF b
  <2>2. DOMAIN Tried(i) = {1} /\ Tried(i)[1] = b
    BY <2>1
  <2>3. {1} \subseteq 1..RES_MAX_COUNT
    BY DEF RES_MAX_COUNT
  <2>4. QED
    BY <1>2, <2>2, <2>3 DEF b
<1>3. QED
  BY <1>1, <1>2

(* The search of the fallback list. *)
Entry(pres) ==
    LET at == {i \in 1..RES_MAX_COUNT : fallBackResolutionList[i] = ParseResolution(pres)}
    IN  IF at = {} THEN 1 ELSE Min(at)

Usable(edid, pres) ==
    {i \in Entry(pres) + 1..RES_MAX_COUNT :
        \E k \in DOMAIN Tried(i) : ResolutionSupported(edid, Tried(i)[k])}

(* What the search finds is supported, has the base of an entry behind the one
   started from, and no entry between them is supported. *)
LEMMA SearchResult ==
    ASSUME NEW edid, NEW pres, IsEUPlatform \in BOOLEAN
    PROVE  /\ Entry(pres) \in 1..RES_MAX_COUNT
           /\ Usable(edid, pres) = {} <=> NextBest(edid, pres) = {}
           /\ NextBest(edid, pres) # {} =>
                \E i \in Usable(edid, pres), rate \in BOOLEAN :
                    /\ \A j \in Usable(edid, pres) : i <= j
                    /\ The(NextBest(edid, pres)) = FallBackResolution(fallBackResolutionList[i], rate)
                    /\ rate => IsEUPlatform
                    /\ ResolutionSupported(edid, The(NextBest(edid, pres)))
<1> DEFINE at == {i \in 1..RES_MAX_COUNT : fallBackResolutionList[i] = ParseResolution(pres)}
           U == Usable(edid, pres)
           found == FirstSupported(edid, Tried(Min(U)))
<1>1. Entry(pres) \in 1..RES_MAX_COUNT
  <2>1. 1 \in 1..RES_MAX_COUNT
    BY DEF RES_MAX_COUNT
  <2>2. at # {} => Min(at) \in at
    BY SmallMin
  <2>3. QED
    BY <2>1, <2>2 DEF Entry
<1>2. NextBest(edid, pres) = IF U = {} THEN {} ELSE {found}
  BY DEF NextBest, Usable, Entry
<1>3. U \in SUBSET (1..RES_MAX_COUNT)
  <2>1. \A i \in Entry(pres) + 1..RES_MAX_COUNT : i \in 1..RES_MAX_COUNT
    BY <1>1 DEF RES_MAX_COUNT
  <2>2. QED
    BY <2>1 DEF Usable
<1>4. ASSUME U # {}
      PROVE  \E rate \in BOOLEAN :
                /\ found = FallBackResolution(fallBackResolutionList[Min(U)], rate)
                /\ rate => IsEUPlatform
                /\ ResolutionSupported(edid, found)
  <2> DEFINE names == Tried(Min(U))
             K == {k \in DOMAIN names : ResolutionSupported(edid, names[k])}
  <2>1. Min(U) \in U
    BY <1>3, <1>4, SmallMin
  <2>2. K # {} /\ K \in SUBSET (1..RES_MAX_COUNT)
    <3>1. PICK k \in DOMAIN names : ResolutionSupported(edid, names[k])
      BY <2>1 DEF Usable
    <3>2. DOMAIN names \subseteq 1..RES_MAX_COUNT
      BY TriedNames
    <3>3. QED
      BY <3>1, <3>2
  <2>3. Min(K) \in K
    BY <2>2, SmallMin
  <2>4. found = names[Min(K)]
    BY DEF FirstSupported
  <2>5. \A k \in DOMAIN names : \E rate \in BOOLEAN :
           /\ names[k] = FallBackResolution(fallBackResolutionList[Min(U)], rate)
           /\ rate => IsEUPlatform
    BY TriedNames
  <2> HIDE DEF names
  <2>6. Min(K) \in DOMAIN names /\ ResolutionSupported(edid, names[Min(K)])
    BY <2>3
  <2> HIDE DEF found
  <2>7. QED
    BY <2>4, <2>5, <2>6
<1>5. NextBest(edid, pres) # {} => The(NextBest(edid, pres)) = found /\ U # {}
  BY <1>2 DEF The
<1>6. U # {} => Min(U) \in U /\ \A j \in U : Min(U) <= j
  BY <1>3, SmallMin
<1>7. Usable(edid, pres) = {} <=> NextBest(edid, pres) = {}
  BY <1>2
<1> HIDE DEF U, found
<1>8. NextBest(edid, pres) # {} =>
         \E i \in U, rate \in BOOLEAN :
            /\ \A j \in U : i <= j
            /\ The(NextBest(edid, pres)) = FallBackResolution(fallBackResolutionList[i], rate)
            /\ rate => IsEUPlatform
            /\ ResolutionSupported(edid, The(NextBest(edid, pres)))
  BY <1>4, <1>5, <1>6
<1>9. QED
  BY <1>1, <1>7, <1>8 DEF U

(* The choice for a TV is on its list, or the default since nothing fits; what
   is started from is kept if it is on the list. *)
LEMMA ChosenShown ==
    ASSUME NEW t \in TVs, NEW pres, t.edid # <<>>, IsEUPlatform \in BOOLEAN
    PROVE  /\ \/ Chosen(t.edid, pres) \in ToSet(t.edid)
              \/ NothingFits(t) /\ Chosen(t.edid, pres) = DefaultResolution
           /\ pres \in ToSet(t.edid) => Chosen(t.edid, pres) = pres
<1> DEFINE secondary == {r \in SecondaryResolution(pres) :
                            IsEUPlatform /\ ResolutionSupported(t.edid, r)}
           next == NextBest(t.edid, pres)
<1>1. Last(t.edid) \in ToSet(t.edid)
  <2>1. t.edid \in Seq(ToSet(t.edid))
    BY EdidAssumption
  <2>2. Len(t.edid) \in DOMAIN t.edid
    BY <2>1
  <2>3. QED
    BY <2>2 DEF Last, ToSet
<1>2. secondary # {} => The(secondary) \in ToSet(t.edid)
  BY DEF The, ResolutionSupported
<1>3. next # {} => The(next) \in ToSet(t.edid)
  BY SearchResult DEF ResolutionSupported
<1>4. Chosen(t.edid, pres) =
         IF pres \in ToSet(t.edid) THEN pres
         ELSE IF secondary # {} THEN The(secondary)
         ELSE IF next # {} THEN The(next)
         ELSE IF DefaultResolution \in ToSet(t.edid) THEN DefaultResolution
         ELSE IF Res("480p", "") \in ToSet(t.edid) THEN Res("480p", "")
         ELSE IF ToSet(t.edid) \cap PlatformResolutions # {} THEN Last(t.edid)
         ELSE DefaultResolution
  BY DEF Chosen
<1> HIDE DEF secondary, next
<1>5. QED
  BY <1>1, <1>2, <1>3, <1>4 DEF NothingFits, Common

(* If nothing fits, the default stays the choice. *)
LEMMA ChosenDefault ==
    ASSUME NEW t \in TVs, IsEUPlatform \in BOOLEAN, NothingFits(t)
    PROVE  Chosen(t.edid, DefaultResolution) = DefaultResolution
<1>1. \A r : ~ResolutionSupported(t.edid, r)
  BY DEF NothingFits, Common, ResolutionSupported
<1>2. NextBest(t.edid, DefaultResolution) = {}
  BY <1>1, SearchResult
<1>3. {r \in SecondaryResolution(DefaultResolution) :
          IsEUPlatform /\ ResolutionSupported(t.edid, r)} = {}
  BY <1>1
<1>4. QED
  BY <1>2, <1>3 DEF Chosen, NothingFits, Common

(* The fallback never comes back to 4K. *)
LEMMA ChosenNot4K ==
    ASSUME NEW edid, NEW pres, IsEUPlatform \in BOOLEAN, ListInv,
           pres.base # "2160p", DefaultResolution \in ToSet(edid)
    PROVE  Chosen(edid, pres).base # "2160p"
<1> DEFINE secondary == {r \in SecondaryResolution(pres) :
                            IsEUPlatform /\ ResolutionSupported(edid, r)}
           next == NextBest(edid, pres)
<1>1. \A r \in SecondaryResolution(pres) : r.base = pres.base
  <2>1. CASE pres.base \in {"720p", "1080i"}
    <3>1. SecondaryResolution(pres) = {Res(pres.base, "")}
      BY <2>1 DEF SecondaryResolution
    <3>2. QED
      BY <3>1, ResBase
  <2>2. CASE pres.base \in {"1080p", "2160p"}
    BY <2>2 DEF SecondaryResolution, Res
  <2>3. CASE pres.base \notin {"720p", "1080i", "1080p", "2160p"}
    <3>1. SecondaryResolution(pres) = {}
      BY <2>3 DEF SecondaryResolution
    <3>2. QED
      BY <3>1
  <2>4. QED
    BY <2>1, <2>2, <2>3
<1>2. secondary # {} => The(secondary).base # "2160p"
  BY <1>1 DEF The
<1>3. ASSUME next # {} PROVE The(next).base # "2160p"
  <2>1. PICK i \in Usable(edid, pres), rate \in BOOLEAN :
           The(next) = FallBackResolution(fallBackResolutionList[i], rate)
    BY <1>3, SearchResult
  <2>2. i \in 2..RES_MAX_COUNT
    BY SearchResult DEF Usable, RES_MAX_COUNT
  <2>3. QED
    BY <2>1, <2>2, FallBackBase DEF ListInv
<1>4. Chosen(edid, pres) =
         IF pres \in ToSet(edid) THEN pres
         ELSE IF secondary # {} THEN The(secondary)
         ELSE IF next # {} THEN The(next) ELSE DefaultResolution
  BY DEF Chosen
<1> HIDE DEF secondary, next
<1>5. QED
  BY <1>2, <1>3, <1>4, DefaultAssumption

-----------------------------------------------------------------------------
(* The fallback list of the platform goes down in height. *)

LEMMA ListHeights ==
    ASSUME NEW eu \in BOOLEAN
    PROVE  /\ \A b \in Bases : Height[b] \in 1..6
           /\ \A b \in Bases : eu \/ b # "576p" =>
                 \E i \in 1..RES_MAX_COUNT : PlatformList(eu)[i] = b
           /\ \A i \in 1..RES_MAX_COUNT : \A j \in 1..RES_MAX_COUNT :
                 PlatformList(eu)[i] \in Bases /\ PlatformList(eu)[j] \in Bases =>
                    (i < j <=> Height[PlatformList(eu)[j]] < Height[PlatformList(eu)[i]])
           /\ \A i \in 1..RES_MAX_COUNT : \A j \in 1..RES_MAX_COUNT :
                 i < j /\ PlatformList(eu)[j] \in Bases => PlatformList(eu)[i] \in Bases
<1>1. /\ Height["2160p"] = 6 /\ Height["1080p"] = 5 /\ Height["1080i"] = 4
      /\ Height["720p"] = 3 /\ Height["576p"] = 2 /\ Height["480p"] = 1
  BY DEF Height, Bases
<1>2. Bases = {"2160p", "1080p", "1080i", "720p", "576p", "480p"} /\ "" \notin Bases
  BY DEF Bases
<1>3. 1..RES_MAX_COUNT = {1, 2, 3, 4, 5, 6}
  BY DEF RES_MAX_COUNT
<1>4. CASE eu
  <2> DEFINE L == PlatformList(eu)
  <2>1. /\ L[1] = "2160p" /\ L[2] = "1080p" /\ L[3] = "1080i"
        /\ L[4] = "720p" /\ L[5] = "576p" /\ L[6] = "480p"
    BY <1>4 DEF PlatformList
  <2> HIDE DEF L
  <2>2. \A i \in 1..RES_MAX_COUNT : L[i] \in Bases /\ Height[L[i]] = 7 - i
    BY <1>1, <1>2, <1>3, <2>1
  <2>3. \A b \in Bases : \E i \in 1..RES_MAX_COUNT : L[i] = b
    BY <1>2, <1>3, <2>1
  <2>4. \A i, j \in 1..RES_MAX_COUNT : i < j <=> 7 - j < 7 - i
    BY <1>3
  <2>5. \A b \in Bases : Height[b] \in 1..6
    BY <1>1, <1>2
  <2>6. QED
    BY <2>2, <2>3, <2>4, <2>5 DEF L
<1>5. CASE ~eu
  <2> DEFINE L == PlatformList(eu)
  <2>1. /\ L[1] = "2160p" /\ L[2] = "1080p" /\ L[3] = "1080i"
        /\ L[4] = "720p" /\ L[5] = "480p" /\ L[6] = ""
    BY <1>5 DEF PlatformList
  <2> HIDE DEF L
  <2>2. /\ \A i \in {1, 2, 3, 4} : L[i] \in Bases
        /\ Height[L[1]] = 6 /\ Height[L[2]] = 5 /\ Height[L[3]] = 4 /\ Height[L[4]] = 3
    BY <1>1, <1>2, <2>1
  <2>3. L[5] \in Bases /\ Height[L[5]] = 1 /\ L[6] \notin Bases
    BY <1>1, <1>2, <2>1
  <2>4. \A b \in Bases : b # "576p" => \E i \in 1..RES_MAX_COUNT : L[i] = b
    BY <1>2, <1>3, <2>1
  <2>5. \A b \in Bases : Height[b] \in 1..6
    BY <1>1, <1>2
  <2>6. \A i, j \in 1..RES_MAX_COUNT : L[i] \in Bases /\ L[j] \in Bases =>
           (i < j <=> Height[L[j]] < Height[L[i]])
    BY <1>3, <2>2, <2>3
  <2>7. \A i, j \in 1..RES_MAX_COUNT : i < j /\ L[j] \in Bases => L[i] \in Bases
    BY <1>3, <2>2, <2>3
  <2>8. QED
    BY <1>5, <2>4, <2>5, <2>6, <2>7 DEF L
<1>6. QED
  BY <1>4, <1>5

LowerThan(edid, pres) ==
    {r \in ToSet(edid) \cap PlatformResolutions \cap StandardNames(IsEUPlatform) :
        Height[r.base] < Height[pres.base]}

(* A standard name is one of those tried for the entry with its base. *)
LEMMA StandardIsTried ==
    ASSUME IsEUPlatform \in BOOLEAN, fallBackResolutionList = PlatformList(IsEUPlatform),
           NEW r \in StandardNames(IsEUPlatform)
    PROVE  /\ r.base \in Bases
           /\ \E i \in 1..RES_MAX_COUNT :
                 /\ fallBackResolutionList[i] = r.base
                 /\ \E k \in DOMAIN Tried(i) : Tried(i)[k] = r
<1>1. PICK b \in Bases, rate \in BOOLEAN :
         r = FallBackResolution(b, rate) /\ (rate => IsEUPlatform) /\ (IsEUPlatform \/ b # "576p")
  <2>1. CASE IsEUPlatform
    BY <2>1 DEF StandardNames
  <2>2. CASE ~IsEUPlatform
    <3>1. StandardNames(IsEUPlatform) = {FallBackResolution(b, FALSE) : b \in Bases \ {"576p"}}
      BY <2>2 DEF StandardNames
    <3>2. PICK b \in Bases \ {"576p"} : r = FallBackResolution(b, FALSE)
      BY <3>1
    <3>3. QED
      BY <3>2, <2>2
  <2>3. QED
    BY <2>1, <2>2
<1>2. r.base = b
  BY <1>1, FallBackBase
<1>3. PICK i \in 1..RES_MAX_COUNT : fallBackResolutionList[i] = b
  BY <1>1, ListHeights
<1>4. \E k \in DOMAIN Tried(i) : Tried(i)[k] = FallBackResolution(fallBackResolutionList[i], rate)
  BY <1>1, TriedNames
<1>5. QED
  BY <1>1, <1>2, <1>3, <1>4

(* The fallback goes to the highest resolution below the one started from. *)
LEMMA ChosenBest ==
    ASSUME NEW edid, NEW pres, PointerSize = 8,
           IsEUPlatform \in BOOLEAN, fallBackResolutionList = PlatformList(IsEUPlatform),
           pres \notin ToSet(edid),
           IsEUPlatform => SecondaryResolution(pres) \cap (ToSet(edid) \cap PlatformResolutions) = {},
           pres.base \in Bases, IsEUPlatform \/ pres.base # "576p",
           LowerThan(edid, pres) # {}
    PROVE  Height[Chosen(edid, pres).base] = Max({Height[r.base] : r \in LowerThan(edid, pres)})
<1> DEFINE L == fallBackResolutionList
           U == Usable(edid, pres)
           e == Entry(pres)
           to == Chosen(edid, pres)
<1>1. e \in 1..RES_MAX_COUNT /\ L[e] = pres.base
  <2> DEFINE at == {i \in 1..RES_MAX_COUNT : L[i] = ParseResolution(pres)}
  <2>1. ParseResolution(pres) = pres.base
    BY DEF ParseResolution
  <2>2. at # {}
    BY <2>1, ListHeights
  <2>3. Min(at) \in at
    BY <2>2, SmallMin
  <2>4. QED
    BY <2>1, <2>2, <2>3 DEF Entry
<1>2. ASSUME NEW r \in LowerThan(edid, pres)
      PROVE  \E i \in U : L[i] = r.base
  <2>1. /\ r.base \in Bases
        /\ \E i \in 1..RES_MAX_COUNT :
              L[i] = r.base /\ \E k \in DOMAIN Tried(i) : Tried(i)[k] = r
    BY StandardIsTried DEF LowerThan
  <2>2. PICK i \in 1..RES_MAX_COUNT :
           L[i] = r.base /\ \E k \in DOMAIN Tried(i) : Tried(i)[k] = r
    BY <2>1
  <2>3. Height[L[i]] < Height[L[e]]
    BY <1>1, <2>2 DEF LowerThan
  <2>4. e < i
    BY <1>1, <2>1, <2>2, <2>3, ListHeights
  <2>5. i \in e + 1..RES_MAX_COUNT
    BY <1>1, <2>4 DEF RES_MAX_COUNT
  <2>6. \E k \in DOMAIN Tried(i) : ResolutionSupported(edid, Tried(i)[k])
    BY <2>2 DEF LowerThan, ResolutionSupported
  <2>7. QED
    BY <2>2, <2>5, <2>6 DEF Usable
<1>3. U # {} /\ NextBest(edid, pres) # {}
  BY <1>2, SearchResult
<1>4. to = The(NextBest(edid, pres))
  <2>1. {r \in SecondaryResolution(pres) : IsEUPlatform /\ ResolutionSupported(edid, r)} = {}
    BY DEF ResolutionSupported
  <2>2. QED
    BY <1>3, <2>1 DEF Chosen
<1>5. PICK i \in U, rate \in BOOLEAN :
         /\ \A j \in U : i <= j
         /\ to = FallBackResolution(L[i], rate) /\ (rate => IsEUPlatform)
         /\ ResolutionSupported(edid, to)
  BY <1>3, <1>4, SearchResult
<1>6. i \in 1..RES_MAX_COUNT /\ e < i
  BY <1>1 DEF Usable, RES_MAX_COUNT
<1>7. U \subseteq 1..RES_MAX_COUNT
  BY <1>1 DEF Usable, RES_MAX_COUNT
<1>8. L[i] \in Bases
  <2>1. PICK r \in LowerThan(edid, pres) : TRUE
    OBVIOUS
  <2>2. PICK j \in U : L[j] = r.base
    BY <1>2, <2>1
  <2>3. r.base \in Bases
    BY <2>1, StandardIsTried DEF LowerThan
  <2>4. i = j \/ i < j
    BY <1>5, <1>6, <1>7, <2>2 DEF RES_MAX_COUNT
  <2>5. QED
    BY <1>6, <1>7, <2>2, <2>3, <2>4, ListHeights
<1>9. to.base = L[i]
  BY <1>5, FallBackBase
<1>10. to \in LowerThan(edid, pres)
  <2>1. Height[L[i]] < Height[L[e]]
    BY <1>1, <1>6, <1>8, ListHeights
  <2>2. IsEUPlatform \/ L[i] # "576p"
    <3>1. ASSUME ~IsEUPlatform PROVE L[i] # "576p"
      <4>1. /\ L[1] = "2160p" /\ L[2] = "1080p" /\ L[3] = "1080i"
            /\ L[4] = "720p" /\ L[5] = "480p" /\ L[6] = ""
        BY <3>1 DEF PlatformList
      <4>2. i \in {1, 2, 3, 4, 5, 6}
        BY <1>6 DEF RES_MAX_COUNT
      <4>3. QED
        BY <4>1, <4>2
    <3>2. QED
      BY <3>1
  <2>3. to \in StandardNames(IsEUPlatform)
    <3>1. CASE IsEUPlatform
      <4>1. StandardNames(IsEUPlatform) = {FallBackResolution(b, f) : b \in Bases, f \in BOOLEAN}
        BY <3>1 DEF StandardNames
      <4>2. L[i] \in Bases /\ to = FallBackResolution(L[i], rate)
        BY <1>5, <1>8
      <4> HIDE DEF L, to
      <4>3. QED
        BY <4>1, <4>2
    <3>2. CASE ~IsEUPlatform
      <4>1. L[i] \in Bases \ {"576p"} /\ to = FallBackResolution(L[i], FALSE)
        BY <1>5, <1>8, <2>2, <3>2
      <4>2. StandardNames(IsEUPlatform) = {FallBackResolution(b, FALSE) : b \in Bases \ {"576p"}}
        BY <3>2 DEF StandardNames
      <4> HIDE DEF L, to
      <4>3. QED
        BY <4>1, <4>2
    <3>3. QED
      BY <3>1, <3>2
  <2>4. QED
    BY <1>1, <1>5, <1>9, <2>1, <2>3 DEF LowerThan, ResolutionSupported
<1>11. ASSUME NEW r \in LowerThan(edid, pres)
       PROVE  Height[r.base] <= Height[to.base]
  <2>1. PICK j \in U : L[j] = r.base
    BY <1>2
  <2>2. r.base \in Bases
    BY StandardIsTried DEF LowerThan
  <2>3. i = j \/ i < j
    BY <1>5, <1>6, <1>7, <2>1 DEF RES_MAX_COUNT
  <2>4. CASE i = j
    BY <1>8, <1>9, <2>1, <2>4, ListHeights
  <2>5. CASE i < j
    <3>1. Height[L[j]] < Height[L[i]]
      BY <1>6, <1>7, <1>8, <2>1, <2>2, <2>5, ListHeights
    <3>2. Height[L[j]] \in 1..6 /\ Height[L[i]] \in 1..6
      BY <1>8, <2>1, <2>2, ListHeights
    <3>3. QED
      BY <1>9, <2>1, <3>1, <3>2
  <2>6. QED
    BY <2>3, <2>4, <2>5
<1> DEFINE H == {Height[r.base] : r \in LowerThan(edid, pres)}
<1>12. Height[to.base] \in H /\ \A h \in H : h <= Height[to.base]
  BY <1>10, <1>11
<1>13. \A h \in H : h \in 1..6
  BY StandardIsTried, ListHeights DEF LowerThan
<1> HIDE DEF H, to
<1>14. Max(H) \in H /\ \A h \in H : Max(H) >= h
  BY <1>12, <1>13 DEF Max
<1>15. Height[to.base] = Max(H)
  BY <1>12, <1>13, <1>14
<1>16. QED
  BY <1>15 DEF H, to

-----------------------------------------------------------------------------
(* Calls. *)

(* What a call for a TV that sends a list leaves behind. *)
HdmiCall(pres) ==
    /\ tv \in TVs /\ tv.edid # <<>>
    /\ last'.made /\ last'.tv = tv /\ last'.from = pres
    /\ last'.to = IF Override(pres) THEN DefaultResolution ELSE Chosen(tv.edid, pres)
    /\ last'.overridden <=> Override(pres)
    /\ last'.boot <=> bootup_flag_enabled
    /\ last'.persisted = persisted["HDMI"]
    /\ last'.listReady <=> phase = "running"
    /\ last'.eu = IsEUPlatform
    /\ current'["HDMI"] = last'.to

LEMMA CallEffect ==
    ASSUME TypeOK, SetVideoPortResolution
    PROVE  /\ DOMAIN current' = Ports
           /\ \A p \in Ports \ {"HDMI"} : current'[p] \in PlatformResolutions
           /\ cached_EDID_checksum' \in Nat
           /\ \/ UNCHANGED last /\ current'["HDMI"] = current["HDMI"]
              \/ HdmiCall(StartFrom("HDMI"))
<1>1. cached_EDID_checksum' \in Nat
  <2>1. tv \in TVs => tv.checksum \in Nat
    BY EdidAssumption
  <2>2. QED
    BY <2>1 DEF SetVideoPortResolution, CacheEdid, EdidDiff, TypeOK
<1>2. "HDMI" \in Ports /\ "HDMI" \notin AnalogPorts /\ AnalogPorts \subseteq Ports
  BY AnalogAssumption DEF Ports
<1>3. CASE tv # NoTV
  <2> DEFINE pres == StartFrom("HDMI")
             resn == IF Override(pres) THEN DefaultResolution ELSE Chosen(tv.edid, pres)
  <2>1. CASE tv.edid = <<>> \/ ~tv.hdmiDeviceType
    BY <1>1, <1>3, <2>1 DEF SetVideoPortResolution, SetHdmi, TypeOK
  <2>2. CASE ~(tv.edid = <<>> \/ ~tv.hdmiDeviceType)
    <3>1. /\ current' = [current EXCEPT !["HDMI"] = resn]
          /\ last' = [made |-> TRUE, tv |-> tv, from |-> pres, to |-> resn,
                      boot |-> bootup_flag_enabled, overridden |-> Override(pres),
                      persisted |-> persisted["HDMI"],
                      listReady |-> phase = "running", eu |-> IsEUPlatform]
      BY <1>3, <2>2 DEF SetVideoPortResolution, SetHdmi
    <3>2. tv \in TVs /\ tv.edid # <<>>
      BY <1>3, <2>2 DEF TypeOK
    <3>3. current'["HDMI"] = resn /\ DOMAIN current' = Ports
      BY <1>2, <3>1 DEF TypeOK
    <3>4. \A p \in Ports \ {"HDMI"} : current'[p] \in PlatformResolutions
      BY <3>1 DEF TypeOK
    <3> HIDE DEF pres
    <3>5. /\ last'.made /\ last'.tv = tv /\ last'.from = pres /\ last'.to = resn
          /\ last'.persisted = persisted["HDMI"] /\ last'.eu = IsEUPlatform
      BY <3>1
    <3>6. (last'.overridden <=> Override(pres)) /\ (last'.boot <=> bootup_flag_enabled)
          /\ (last'.listReady <=> phase = "running")
      BY <3>1
    <3>7. HdmiCall(pres)
      BY <3>2, <3>3, <3>5, <3>6 DEF HdmiCall
    <3>8. QED
      BY <1>1, <3>3, <3>4, <3>7 DEF pres
  <2>3. QED
    BY <2>1, <2>2
<1>4. CASE tv = NoTV
  <2> DEFINE port == IF "COMPONENT" \in AnalogPorts THEN "COMPONENT"
                     ELSE IF "BB" \in AnalogPorts THEN "BB" ELSE "RF"
             pres == StartFrom(port)
             resn == IF pres \in PlatformResolutions /\ ~Override(pres)
                       THEN pres ELSE DefaultResolution
  <2>1. /\ current' = IF port \in AnalogPorts THEN [current EXCEPT ![port] = resn] ELSE current
        /\ UNCHANGED last
    BY <1>4 DEF SetVideoPortResolution, SetAnalog
  <2>2. resn \in PlatformResolutions
    BY PlatformAssumption
  <2> HIDE DEF port, resn
  <2>3. QED
    BY <1>1, <1>2, <2>1, <2>2 DEF TypeOK
<1>5. QED
  BY <1>3, <1>4

LEMMA StepEffect ==
    ASSUME TypeOK, [Next]_vars
    PROVE  /\ UNCHANGED disable4K
           /\ \/ /\ UNCHANGED last
                 /\ UNCHANGED userSets => current'["HDMI"] = current["HDMI"]
              \/ HdmiCall(StartFrom("HDMI"))
<1>1. CASE InitialSet
  BY <1>1, CallEffect DEF InitialSet, envVars
<1>2. CASE SetupPlatformConfig
  BY <1>2 DEF SetupPlatformConfig, dsVars, envVars
<1>3. CASE HdcpAuthenticated
  BY <1>3, CallEffect DEF HdcpAuthenticated, NoCallMade, envVars
<1>4. CASE HdcpFailure
  BY <1>4, CallEffect DEF HdcpFailure, NoCallMade, envVars
<1>5. CASE HotplugCall
  BY <1>5, CallEffect DEF HotplugCall, envVars
<1>6. CASE DumpTimer
  BY <1>6 DEF DumpTimer, dsVars, envVars
<1>7. ASSUME NEW t \in TVs \cup {NoTV}, Plug(t)
      PROVE  UNCHANGED <<disable4K, last, current>>
  BY <1>7 DEF Plug, dsVars
<1>8. ASSUME NEW r \in PlatformResolutions, UserSetsResolution(r)
      PROVE  UNCHANGED <<disable4K, last>> /\ userSets' # userSets
  <2>1. MaxUserSets \in Nat /\ userSets \in 0..MaxUserSets
    BY BoundsAssumption DEF TypeOK
  <2>2. userSets' = userSets + 1
    BY <1>8 DEF UserSetsResolution
  <2>3. userSets' # userSets
    BY <2>1, <2>2
  <2>4. QED
    BY <1>8, <2>3 DEF UserSetsResolution
<1>9. CASE UNCHANGED vars
  BY <1>9 DEF vars, dsVars, envVars
<1>10. QED
  BY <1>1, <1>2, <1>3, <1>4, <1>5, <1>6, <1>7, <1>8, <1>9 DEF Next

-----------------------------------------------------------------------------
(* The inductive invariants. *)

LEMMA ListType ==
    ASSUME NEW eu \in BOOLEAN
    PROVE  /\ PlatformList(eu) \in [1..RES_MAX_COUNT -> Bases \cup {""}]
           /\ \A i \in 2..RES_MAX_COUNT : PlatformList(eu)[i] # "2160p"
<1>1. 1..RES_MAX_COUNT = 1..6 /\ 2..RES_MAX_COUNT = {2, 3, 4, 5, 6}
  BY DEF RES_MAX_COUNT
<1>2. CASE eu
  <2> DEFINE L == PlatformList(eu)
  <2>1. /\ L[1] = "2160p" /\ L[2] = "1080p" /\ L[3] = "1080i"
        /\ L[4] = "720p" /\ L[5] = "576p" /\ L[6] = "480p"
    BY <1>2 DEF PlatformList
  <2>2. L = [i \in 1..6 |-> L[i]]
    BY <1>2 DEF PlatformList
  <2> HIDE DEF L
  <2>3. \A i \in 1..6 : L[i] \in Bases \cup {""}
    <3>1. \A i \in {1, 2, 3, 4, 5, 6} : L[i] \in Bases \cup {""}
      BY <2>1 DEF Bases
    <3>2. 1..6 = {1, 2, 3, 4, 5, 6}
      OBVIOUS
    <3>3. QED
      BY <3>1, <3>2
  <2>4. \A i \in {2, 3, 4, 5, 6} : L[i] # "2160p"
    BY <2>1
  <2>5. L \in [1..6 -> Bases \cup {""}]
    BY <2>2, <2>3
  <2>6. QED
    BY <1>1, <2>4, <2>5 DEF L
<1>3. CASE ~eu
  <2> DEFINE L == PlatformList(eu)
  <2>1. /\ L[1] = "2160p" /\ L[2] = "1080p" /\ L[3] = "1080i"
        /\ L[4] = "720p" /\ L[5] = "480p" /\ L[6] = ""
    BY <1>3 DEF PlatformList
  <2>2. L = [i \in 1..6 |-> L[i]]
    BY <1>3 DEF PlatformList
  <2> HIDE DEF L
  <2>3. \A i \in 1..6 : L[i] \in Bases \cup {""}
    <3>1. \A i \in {1, 2, 3, 4, 5, 6} : L[i] \in Bases \cup {""}
      BY <2>1 DEF Bases
    <3>2. 1..6 = {1, 2, 3, 4, 5, 6}
      OBVIOUS
    <3>3. QED
      BY <3>1, <3>2
  <2>4. \A i \in {2, 3, 4, 5, 6} : L[i] # "2160p"
    BY <2>1
  <2>5. L \in [1..6 -> Bases \cup {""}]
    BY <2>2, <2>3
  <2>6. QED
    BY <1>1, <2>4, <2>5 DEF L
<1>4. QED
  BY <1>2, <1>3

LEMMA TypeInit == Init => TypeOK /\ ListInv /\ CallInv
<1> SUFFICES ASSUME Init PROVE TypeOK /\ ListInv /\ CallInv
  OBVIOUS
<1>1. PICK r \in PlatformResolutions :
         persisted = [p \in Ports |-> r] /\ current = [p \in Ports |-> DefaultResolution]
  BY DEF Init
<1>2. last.made = FALSE
  BY DEF Init, NoCall
<1>3. fallBackResolutionList \in [1..RES_MAX_COUNT -> Bases \cup {""}]
  BY DEF Init, EmptyList
<1>4. TypeOK
  <2>1. dumpTimers \in 0..MaxTimers /\ plugs \in 0..MaxPlugs /\ userSets \in 0..MaxUserSets
    BY BoundsAssumption DEF Init
  <2>2. disable4K \in BOOLEAN /\ IsIgnoreEdid_gs \in BOOLEAN
    BY AnswersAssumption DEF Init
  <2>3. /\ persisted \in [Ports -> PlatformResolutions]
        /\ DOMAIN current = Ports /\ \A p \in Ports \ {"HDMI"} : current[p] \in PlatformResolutions
    BY <1>1, PlatformAssumption
  <2>4. QED
    BY <1>2, <1>3, <2>1, <2>2, <2>3 DEF Init, TypeOK
<1>5. ListInv
  <2>1. \A i \in 2..RES_MAX_COUNT : i \in 1..RES_MAX_COUNT
    BY DEF RES_MAX_COUNT
  <2>2. \A i \in 2..RES_MAX_COUNT : fallBackResolutionList[i] = ""
    BY <2>1 DEF Init, EmptyList
  <2>3. phase # "running"
    BY DEF Init
  <2>4. QED
    BY <2>2, <2>3 DEF ListInv
<1>6. QED
  BY <1>2, <1>4, <1>5 DEF CallInv

LEMMA TypeStep == TypeOK /\ [Next]_vars => TypeOK'
<1> SUFFICES ASSUME TypeOK, [Next]_vars PROVE TypeOK'
  OBVIOUS
<1>0. last'.made \in BOOLEAN /\ (last'.made => last'.tv \in TVs)
  BY StepEffect DEF HdmiCall, TypeOK
<1>1. CASE InitialSet
  BY <1>0, <1>1, CallEffect DEF InitialSet, TypeOK, envVars
<1>2. CASE SetupPlatformConfig
  <2>1. PICK eu \in EUPlatforms : IsEUPlatform' = eu /\ fallBackResolutionList' = PlatformList(eu)
    BY <1>2 DEF SetupPlatformConfig
  <2>2. eu \in BOOLEAN
    BY AnswersAssumption
  <2>3. QED
    BY <1>0, <1>2, <2>1, <2>2, ListType DEF SetupPlatformConfig, TypeOK, dsVars, envVars
<1>3. CASE HdcpAuthenticated
  <2>1. dumpTimers' \in 0..MaxTimers
    <3>1. MaxTimers \in Nat /\ dumpTimers \in 0..MaxTimers
      BY BoundsAssumption DEF TypeOK
    <3>2. dumpTimers < MaxTimers /\ dumpTimers' = dumpTimers + 1
      BY <1>3 DEF HdcpAuthenticated
    <3>3. QED
      BY <3>1, <3>2
  <2>2. QED
    BY <1>0, <1>3, <2>1, CallEffect DEF HdcpAuthenticated, NoCallMade, TypeOK, platVars, envVars
<1>4. CASE HdcpFailure
  <2>1. dumpTimers' \in 0..MaxTimers
    <3>1. MaxTimers \in Nat /\ dumpTimers \in 0..MaxTimers
      BY BoundsAssumption DEF TypeOK
    <3>2. dumpTimers < MaxTimers /\ dumpTimers' = dumpTimers + 1
      BY <1>4 DEF HdcpFailure
    <3>3. QED
      BY <3>1, <3>2
  <2>2. QED
    BY <1>0, <1>4, <2>1, CallEffect DEF HdcpFailure, NoCallMade, TypeOK, platVars, envVars
<1>5. CASE HotplugCall
  BY <1>0, <1>5, CallEffect DEF HotplugCall, TypeOK, platVars, envVars
<1>6. CASE DumpTimer
  <2>1. dumpTimers' \in 0..MaxTimers
    <3>1. MaxTimers \in Nat /\ dumpTimers \in 0..MaxTimers
      BY BoundsAssumption DEF TypeOK
    <3>2. (dumpTimers > 0 /\ dumpTimers' \in {dumpTimers, dumpTimers - 1})
      BY <1>6 DEF DumpTimer
    <3>3. QED
      BY <3>1, <3>2
  <2>2. cached_EDID_checksum' \in Nat
    <3>1. tv \in TVs => tv.checksum \in Nat
      BY EdidAssumption
    <3>2. QED
      BY <1>6, <3>1 DEF DumpTimer, CacheEdid, EdidDiff, TypeOK
  <2>3. QED
    BY <1>0, <1>6, <2>1, <2>2 DEF DumpTimer, TypeOK, platVars, dsVars, envVars
<1>7. ASSUME NEW t \in TVs \cup {NoTV}, Plug(t)
      PROVE  TypeOK'
  <2>1. plugs' \in 0..MaxPlugs
    <3>1. MaxPlugs \in Nat /\ plugs \in 0..MaxPlugs
      BY BoundsAssumption DEF TypeOK
    <3>2. plugs < MaxPlugs /\ plugs' = plugs + 1
      BY <1>7 DEF Plug
    <3>3. QED
      BY <3>1, <3>2
  <2>2. QED
    BY <1>0, <1>7, <2>1 DEF Plug, TypeOK, platVars, dsVars
<1>8. ASSUME NEW r \in PlatformResolutions, UserSetsResolution(r)
      PROVE  TypeOK'
  <2>1. userSets' \in 0..MaxUserSets
    <3>1. MaxUserSets \in Nat /\ userSets \in 0..MaxUserSets
      BY BoundsAssumption DEF TypeOK
    <3>2. userSets < MaxUserSets /\ userSets' = userSets + 1
      BY <1>8 DEF UserSetsResolution
    <3>3. QED
      BY <3>1, <3>2
  <2>2. persisted' \in [Ports -> PlatformResolutions] /\ DOMAIN current' = Ports
        /\ \A p \in Ports \ {"HDMI"} : current'[p] \in PlatformResolutions
    BY <1>8 DEF UserSetsResolution, TypeOK
  <2>3. QED
    BY <1>0, <1>8, <2>1, <2>2 DEF UserSetsResolution, TypeOK, platVars
<1>9. CASE UNCHANGED vars
  BY <1>9 DEF vars, platVars, dsVars, envVars, TypeOK
<1>10. QED
  BY <1>1, <1>2, <1>3, <1>4, <1>5, <1>6, <1>7, <1>8, <1>9 DEF Next

LEMMA ListStep == ListInv /\ [Next]_vars => ListInv'
<1> SUFFICES ASSUME ListInv, [Next]_vars PROVE ListInv'
  OBVIOUS
<1>1. CASE InitialSet
  BY <1>1 DEF InitialSet, ListInv
<1>2. CASE SetupPlatformConfig
  <2>1. PICK eu \in EUPlatforms : IsEUPlatform' = eu /\ fallBackResolutionList' = PlatformList(eu)
    BY <1>2 DEF SetupPlatformConfig
  <2>2. eu \in BOOLEAN
    BY AnswersAssumption
  <2>3. QED
    BY <2>1, <2>2, ListType DEF ListInv
<1>3. CASE UNCHANGED platVars
  BY <1>3 DEF platVars, ListInv
<1>4. QED
  BY <1>1, <1>2, <1>3 DEF Next, HdcpAuthenticated, HdcpFailure, HotplugCall, DumpTimer, Plug,
     UserSetsResolution, vars

LEMMA CallStep == TypeOK /\ CallInv /\ [Next]_vars => CallInv'
<1> SUFFICES ASSUME TypeOK, CallInv, [Next]_vars PROVE CallInv'
  OBVIOUS
<1>1. CASE UNCHANGED last
  BY <1>1 DEF CallInv
<1>2. CASE HdmiCall(StartFrom("HDMI"))
  <2> DEFINE pres == StartFrom("HDMI")
  <2>1. \/ Chosen(tv.edid, pres) \in ToSet(tv.edid)
        \/ NothingFits(tv) /\ Chosen(tv.edid, pres) = DefaultResolution
    BY <1>2, ChosenShown DEF HdmiCall, TypeOK
  <2>2. QED
    BY <1>2, <2>1 DEF HdmiCall, CallInv
<1>3. QED
  BY <1>1, <1>2, StepEffect

LEMMA Inductive == Spec => [](TypeOK /\ ListInv /\ CallInv)
<1>1. Init => TypeOK /\ ListInv /\ CallInv
  BY TypeInit
<1>2. TypeOK /\ ListInv /\ CallInv /\ [Next]_vars => (TypeOK /\ ListInv /\ CallInv)'
  BY TypeStep, ListStep, CallStep
<1>3. QED
  BY <1>1, <1>2, PTL DEF Spec

(* The state of dsMgr.c keeps its type. *)
THEOREM TypeCorrectness == Spec => []TypeOK
BY Inductive, PTL

(* Whatever list a display sends and whatever calls, timers and plugs came
   before, the resolution it is sent is on its list if it and the platform
   have one in common (_SetResolution, dsMgr.c 1074-1207). *)
THEOREM ShownResolution == Spec => []ShownByTv
<1>1. CallInv => ShownByTv
  BY DEF CallInv, ShownByTv, NothingFits
<1>2. QED
  BY <1>1, Inductive, PTL

(* With 4K disabled, no way through _SetResolution sends 4K to a display that
   shows the default resolution, although the override looks only at the
   resolution that was started from (dsMgr.c 1238-1249). *)
THEOREM Never4KWhenDisabled == Spec => []No4KWhenDisabled
<1>1. Init => No4KWhenDisabled
  BY DEF Init, NoCall, No4KWhenDisabled
<1>2. ASSUME TypeOK, ListInv, No4KWhenDisabled, [Next]_vars
      PROVE  No4KWhenDisabled'
  <2>1. UNCHANGED disable4K
    BY <1>2, StepEffect
  <2>2. CASE UNCHANGED last
    BY <1>2, <2>1, <2>2 DEF No4KWhenDisabled
  <2>3. CASE HdmiCall(StartFrom("HDMI"))
    <3>1. SUFFICES ASSUME disable4K, DefaultResolution \in ToSet(tv.edid)
                   PROVE  last'.to.base # "2160p"
      BY <2>1, <2>3 DEF HdmiCall, No4KWhenDisabled
    <3>2. CASE Override(StartFrom("HDMI"))
      BY <2>3, <3>2, DefaultAssumption DEF HdmiCall
    <3>3. CASE ~Override(StartFrom("HDMI"))
      <4>1. StartFrom("HDMI").base # "2160p"
        BY <3>1, <3>3 DEF Override
      <4>2. Chosen(tv.edid, StartFrom("HDMI")).base # "2160p"
        <5>1. IsEUPlatform \in BOOLEAN
          BY <1>2 DEF TypeOK
        <5>2. QED
          BY <1>2, <3>1, <4>1, <5>1, ChosenNot4K
      <4>3. QED
        BY <2>3, <3>3, <4>2 DEF HdmiCall
    <3>4. QED
      BY <3>2, <3>3
  <2>4. QED
    BY <1>2, <2>2, <2>3, StepEffect
<1>3. QED
  BY <1>1, <1>2, Inductive, PTL DEF Spec

(* The calls of the boot restore the persisted resolution on a display that
   lists it, also when they come from the HDCP events that the event worker
   processes before DSMgr_Start has ended (dsMgr.c 1015-1016, 1078-1089). *)
THEOREM BootRestores == Spec => []BootRestoresPersisted
<1>1. Init => BootRestoresPersisted
  BY DEF Init, NoCall, BootRestoresPersisted
<1>2. ASSUME TypeOK, BootRestoresPersisted, [Next]_vars
      PROVE  BootRestoresPersisted'
  <2>1. CASE UNCHANGED last
    BY <1>2, <2>1 DEF BootRestoresPersisted
  <2>2. CASE HdmiCall(StartFrom("HDMI"))
    <3>1. SUFFICES ASSUME bootup_flag_enabled, ~Override(StartFrom("HDMI")),
                          persisted["HDMI"] \in ToSet(tv.edid)
                   PROVE  last'.to = persisted["HDMI"]
      BY <2>2 DEF HdmiCall, BootRestoresPersisted
    <3>2. StartFrom("HDMI") = persisted["HDMI"]
      BY <3>1 DEF StartFrom
    <3>3. Chosen(tv.edid, StartFrom("HDMI")) = persisted["HDMI"]
      BY <1>2, <2>2, <3>1, <3>2, ChosenShown DEF HdmiCall, TypeOK
    <3>4. QED
      BY <2>2, <3>1, <3>3 DEF HdmiCall
  <2>3. QED
    BY <1>2, <2>1, <2>2, StepEffect
<1>3. QED
  BY <1>1, <1>2, Inductive, PTL DEF Spec

(* On a build with eight byte pointers, where parseResolution keeps the letter
   of the name (dsMgr.c 848-862), the fallback is the highest resolution that
   display and platform share below the one started from. *)
THEOREM FallbackIsNextBest == ASSUME PointerSize = 8 PROVE Spec => []FallbackIsBest
<1>1. Init => FallbackIsBest
  BY DEF Init, NoCall, FallbackIsBest
<1>2. ASSUME TypeOK, ListInv, FallbackIsBest, [Next]_vars
      PROVE  FallbackIsBest'
  <2>1. CASE UNCHANGED last
    BY <1>2, <2>1 DEF FallbackIsBest, FallsBack, Lower
  <2>2. CASE HdmiCall(StartFrom("HDMI"))
    <3>1. PICK pres : pres = StartFrom("HDMI")
      OBVIOUS
    <3>2. HdmiCall(pres)
      BY <2>2, <3>1
    <3>3. SUFFICES ASSUME ~Override(pres), phase = "running", FallsBack', Lower' # {}
                   PROVE  Height[last'.to.base] = Max({Height[r.base] : r \in Lower'})
      BY <3>2 DEF HdmiCall, FallbackIsBest
    <3>4. Lower' = LowerThan(tv.edid, pres)
      BY <3>2 DEF HdmiCall, Lower, LowerThan, Common
    <3>5. /\ pres \notin ToSet(tv.edid) /\ pres.base \in Bases
          /\ IsEUPlatform \/ pres.base # "576p"
          /\ IsEUPlatform =>
                SecondaryResolution(pres) \cap (ToSet(tv.edid) \cap PlatformResolutions) = {}
      BY <3>2, <3>3 DEF HdmiCall, FallsBack, Common
    <3>6. IsEUPlatform \in BOOLEAN /\ fallBackResolutionList = PlatformList(IsEUPlatform)
      BY <1>2, <3>3 DEF TypeOK, ListInv
    <3>7. Height[Chosen(tv.edid, pres).base] = Max({Height[r.base] : r \in LowerThan(tv.edid, pres)})
      BY <3>3, <3>4, <3>5, <3>6, ChosenBest
    <3>8. last'.to = Chosen(tv.edid, pres)
      BY <3>2, <3>3 DEF HdmiCall
    <3>9. QED
      BY <3>4, <3>7, <3>8
  <2>3. QED
    BY <1>2, <2>1, <2>2, StepEffect
<1>3. QED
  BY <1>1, <1>2, Inductive, PTL DEF Spec

(* Calls that follow one another for one display, from whichever thread, do
   not move its resolution (dsMgr.c 1018-1024). *)
THEOREM RepeatKeeps == Spec => RepeatKeepsResolution
<1>1. ASSUME TypeOK, CallInv, [Next]_vars,
             last.made, tv = last.tv, current["HDMI"] = last.to, ~last.overridden,
             ~Override(last.to), ~bootup_flag_enabled, ~EdidDiff, UNCHANGED userSets
      PROVE  current'["HDMI"] = current["HDMI"]
  <2>1. CASE UNCHANGED last
    <3>1. CASE HdmiCall(StartFrom("HDMI"))
      BY <1>1, <2>1, <3>1 DEF HdmiCall
    <3>2. QED
      BY <1>1, <3>1, StepEffect
  <2>2. CASE HdmiCall(StartFrom("HDMI"))
    <3>1. StartFrom("HDMI") = last.to
      BY <1>1 DEF StartFrom
    <3>2. current'["HDMI"] = Chosen(tv.edid, last.to)
      BY <1>1, <2>2, <3>1 DEF HdmiCall
    <3>3. tv \in TVs /\ tv.edid # <<>> /\ IsEUPlatform \in BOOLEAN
      BY <1>1, <2>2 DEF HdmiCall, TypeOK
    <3>4. CASE last.to \in ToSet(tv.edid)
      BY <1>1, <3>2, <3>3, <3>4, ChosenShown
    <3>5. CASE NothingFits(tv) /\ last.to = DefaultResolution
      BY <1>1, <3>2, <3>3, <3>5, ChosenDefault
    <3>6. QED
      BY <1>1, <3>4, <3>5 DEF CallInv
  <2>3. QED
    BY <1>1, <2>1, <2>2, StepEffect
<1>2. ASSUME TypeOK, CallInv, [Next]_vars
      PROVE  [ /\ last.made /\ tv = last.tv /\ current["HDMI"] = last.to
               /\ ~last.overridden /\ ~Override(last.to)
               /\ ~bootup_flag_enabled /\ ~EdidDiff
               /\ UNCHANGED userSets
               => current'["HDMI"] = current["HDMI"] ]_vars
  BY <1>1, <1>2
<1>3. QED
  BY <1>2, Inductive, PTL DEF Spec, RepeatKeepsResolution

=============================================================================
