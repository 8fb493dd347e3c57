------------------------ MODULE AnalysisQueueProofs ------------------------
(***************************************************************************)
(* Theorems about the queue of deep analyses, for every set of analyses,   *)
(* every set of limits and whatever the store and the starter do.  What    *)
(* one run of the promotion loop does to a list and a table of states is   *)
(* settled first, on any list and table; QueueInv is the inductive         *)
(* invariant of the steps that use it.  The second part is about those who *)
(* hand analyses to the queue (AnalysisBatches), for any lists, sources    *)
(* and callers; HandOverInv is its inductive invariant.                    *)
(***************************************************************************)
EXTENDS AnalysisQueue, AnalysisBatches, SetSums, TLAPS

EntryStates == {"none", "coming", "queued", "running", "done", "failed"}
StatusValues == {"absent", "running", "deleted"} \cup Final
SeenValues == {"nothing", "raised", "completed", "failed", "deleted"}

\* A list without repetitions whose members are the entries of the table.
ListOK(list, table) ==
    /\ list \in Seq(Analyses)
    /\ table \in [Analyses -> EntryStates]
    /\ \A i, j \in DOMAIN list : list[i] = list[j] => i = j
    /\ \A a \in Analyses :
          table[a] \notin {"none", "coming"} <=> \E i \in DOMAIN list : list[i] = a

InTurn(list, table) ==
    \A i, j \in DOMAIN list :
        i < j /\ table[list[j]] # "queued" => table[list[i]] # "queued"

\* Queued entries in front of `a`, except the ones whose start fails.
InFront(list, table, broken, a) ==
    {b \in With(table, "queued") \ broken : Line(list)[b] < Line(list)[a]}

Promoted(table, chosen, broken) ==
    [a \in Analyses |-> IF a \notin chosen THEN table[a]
                        ELSE IF a \in broken THEN "failed" ELSE "running"]

-----------------------------------------------------------------------------
(* Lists and places.                                                       *)

\* The place of an entry of the list points back to it.
LEMMA PlaceOfEntry ==
  ASSUME NEW list \in Seq(Analyses), NEW a \in Analyses, \E i \in DOMAIN list : list[i] = a
  PROVE  Line(list)[a] \in 1 .. Len(list) /\ list[Line(list)[a]] = a
<1>1. Line(list)[a] = CHOOSE i \in DOMAIN list : list[i] = a
  BY DEF Line
<1>2. Line(list)[a] \in DOMAIN list /\ list[Line(list)[a]] = a
  BY <1>1
<1> QED
  BY <1>2

\* Every entry of a list has a place, and no other entry has the same.
LEMMA Places ==
  ASSUME NEW list, NEW table, ListOK(list, table),
         NEW a \in Analyses, table[a] \notin {"none", "coming"}
  PROVE  /\ Line(list)[a] \in 1 .. Len(list)
         /\ list[Line(list)[a]] = a
         /\ \A i \in DOMAIN list : list[i] = a => Line(list)[a] = i
<1>1. list \in Seq(Analyses) /\ \E i \in DOMAIN list : list[i] = a
  BY DEF ListOK
<1>2. Line(list)[a] \in 1 .. Len(list) /\ list[Line(list)[a]] = a
  BY <1>1, PlaceOfEntry
<1>3. DOMAIN list = 1 .. Len(list)
  BY <1>1
<1> QED
  BY <1>2, <1>3 DEF ListOK

\* Only finitely many analyses are listed.
LEMMA ListedIsFinite ==
  ASSUME NEW list, NEW table, ListOK(list, table),
         NEW S \in SUBSET {a \in Analyses : table[a] \notin {"none", "coming"}}
  PROVE  IsFiniteSet(S) /\ Cardinality(S) \in Nat
<1> DEFINE listed == {a \in Analyses : table[a] \notin {"none", "coming"}}
           place == [a \in listed |-> Line(list)[a]]
<1>1. list \in Seq(Analyses) /\ DOMAIN list = 1 .. Len(list) /\ Len(list) \in Nat
  BY DEF ListOK
<1>2. place \in [listed -> 1 .. Len(list)]
  BY Places
<1>3. \A a, b \in listed : place[a] = place[b] => a = b
  BY Places
<1>4. place \in Injection(listed, 1 .. Len(list))
  BY <1>2, <1>3 DEF Injection, IsInjective
<1>5. IsFiniteSet(1 .. Len(list))
  BY <1>1, FS_Interval
<1>6. IsFiniteSet(listed)
  BY <1>4, <1>5, FS_Injection
<1>7. IsFiniteSet(S)
  BY <1>6, FS_Subset
<1> QED
  BY <1>7, FS_CardinalityType

\* A nonempty set of entries has a first and a last.
LEMMA FirstAndLast ==
  ASSUME NEW list, NEW table, ListOK(list, table),
         NEW S \in SUBSET {a \in Analyses : table[a] \notin {"none", "coming"}}, S # {}
  PROVE  /\ \E a \in S : \A b \in S : Line(list)[a] <= Line(list)[b]
         /\ \E a \in S : \A b \in S : Line(list)[b] <= Line(list)[a]
<1>1. \A a \in S : Line(list)[a] \in 1 .. Len(list)
  BY Places
<1>2. Len(list) \in Nat
  BY DEF ListOK
<1>3. \E a \in S : \A b \in S : Line(list)[a] <= Line(list)[b]
  <2> DEFINE places == {Line(list)[a] : a \in S}
  <2>1. places \in SUBSET Nat /\ places # {}
    BY <1>1, <1>2
  <2>2. PICK n \in places : \A m \in places : n <= m
    BY <2>1, LeastNumber
  <2> QED
    BY <2>2
<1>4. \E a \in S : \A b \in S : Line(list)[b] <= Line(list)[a]
  <2> DEFINE behind == {Len(list) - Line(list)[a] : a \in S}
  <2>1. behind \in SUBSET Nat /\ behind # {}
    BY <1>1, <1>2
  <2>2. PICK n \in behind : \A m \in behind : n <= m
    BY <2>1, LeastNumber
  <2>3. PICK a \in S : n = Len(list) - Line(list)[a]
    OBVIOUS
  <2>4. \A b \in S : Len(list) - Line(list)[a] <= Len(list) - Line(list)[b]
    BY <2>2, <2>3
  <2> QED
    BY <1>1, <1>2, <2>3, <2>4
<1> QED
  BY <1>3, <1>4

-----------------------------------------------------------------------------
(* The promotion loop.                                                     *)

\* What is chosen is queued, and what waits in front of it is chosen too.
LEMMA ChosenInTurn ==
  ASSUME NEW list, NEW table, ListOK(list, table), NEW max \in Nat,
         NEW broken \in SUBSET With(table, "queued"),
         NEW a \in Chosen(Line(list), table, max, broken),
         NEW b \in With(table, "queued"), Line(list)[b] < Line(list)[a]
  PROVE  b \in Chosen(Line(list), table, max, broken)
<1>1. a \in With(table, "queued") /\ a \in Analyses /\ b \in Analyses
  BY DEF Chosen, With
<1>2. Line(list)[a] \in Nat /\ Line(list)[b] \in Nat
  BY <1>1, Places DEF With
<1>3. \A c \in InFront(list, table, broken, b) : c \in Analyses /\ Line(list)[c] \in Nat
  BY Places DEF InFront, With
<1>4. InFront(list, table, broken, b) \subseteq InFront(list, table, broken, a)
  BY <1>2, <1>3 DEF InFront
<1>5. InFront(list, table, broken, a) \in SUBSET {x \in Analyses : table[x] \notin {"none", "coming"}}
  BY DEF InFront, With
<1>6. /\ IsFiniteSet(InFront(list, table, broken, a))
      /\ Cardinality(InFront(list, table, broken, a)) \in Nat
  BY <1>5, ListedIsFinite
<1>7. /\ IsFiniteSet(InFront(list, table, broken, b))
      /\ Cardinality(InFront(list, table, broken, b)) \in Nat
      /\ Cardinality(InFront(list, table, broken, b)) <= Cardinality(InFront(list, table, broken, a))
  BY <1>4, <1>6, FS_Subset, FS_CardinalityType
<1>8. With(table, "running") \in SUBSET {x \in Analyses : table[x] \notin {"none", "coming"}}
  BY DEF With
<1>9. Cardinality(With(table, "running")) \in Nat
  BY <1>8, ListedIsFinite
<1>10. Cardinality(With(table, "running")) + Cardinality(InFront(list, table, broken, a)) < max
  BY DEF Chosen, InFront
<1>11. Cardinality(With(table, "running")) + Cardinality(InFront(list, table, broken, b)) < max
  BY <1>6, <1>7, <1>9, <1>10
<1> QED
  BY <1>11 DEF Chosen, InFront

\* The loop keeps the list, and its order.
LEMMA PromotedInTurn ==
  ASSUME NEW list, NEW table, ListOK(list, table), InTurn(list, table), NEW max \in Nat,
         NEW broken \in SUBSET With(table, "queued"),
         NEW chosen, chosen = Chosen(Line(list), table, max, broken)
  PROVE  /\ ListOK(list, Promoted(table, chosen, broken))
         /\ InTurn(list, Promoted(table, chosen, broken))
<1> DEFINE after == Promoted(table, chosen, broken)
<1>1. chosen \subseteq With(table, "queued")
  BY DEF Chosen
<1>2. \A a \in Analyses : table[a] \in EntryStates
  BY DEF ListOK
<1>3. after \in [Analyses -> EntryStates]
  BY <1>2 DEF Promoted, EntryStates
<1>4. \A a \in Analyses : after[a] \notin {"none", "coming"} <=> table[a] \notin {"none", "coming"}
  BY <1>1 DEF Promoted, With
<1>5. ListOK(list, after)
  BY <1>3, <1>4 DEF ListOK
<1>6. ASSUME NEW i \in DOMAIN list, NEW j \in DOMAIN list, i < j, after[list[j]] # "queued"
      PROVE  after[list[i]] # "queued"
  <2>1. list[i] \in Analyses /\ list[j] \in Analyses /\ i \in Nat /\ j \in Nat
    BY DEF ListOK
  <2>2. CASE table[list[j]] # "queued"
    <3>1. table[list[i]] # "queued"
      BY <1>6, <2>2 DEF InTurn
    <3>2. list[i] \notin chosen
      BY <1>1, <3>1 DEF With
    <3> QED
      BY <2>1, <3>1, <3>2 DEF Promoted
  <2>3. CASE table[list[j]] = "queued"
    <3>1. list[j] \in chosen
      BY <1>6, <2>1, <2>3 DEF Promoted
    <3>2. CASE table[list[i]] = "queued"
      <4>1. Line(list)[list[i]] = i /\ Line(list)[list[j]] = j
        BY <2>1, <2>3, <3>2, Places
      <4>2. list[i] \in With(table, "queued")
        BY <2>1, <3>2 DEF With
      <4>3. list[i] \in chosen
        BY <1>6, <3>1, <4>1, <4>2, ChosenInTurn
      <4> QED
        BY <2>1, <4>3 DEF Promoted
    <3>3. CASE table[list[i]] # "queued"
      <4>1. list[i] \notin chosen
        BY <1>1, <3>3 DEF With
      <4> QED
        BY <2>1, <3>3, <4>1 DEF Promoted
    <3> QED
      BY <3>2, <3>3
  <2> QED
    BY <2>2, <2>3
<1>7. InTurn(list, after)
  BY <1>6 DEF InTurn
<1> QED
  BY <1>5, <1>7

\* The entries that run after the loop are those that ran and those it started.
LEMMA RunningAfter ==
  ASSUME NEW list, NEW table, ListOK(list, table), NEW max \in Nat,
         NEW broken \in SUBSET With(table, "queued"),
         NEW chosen, chosen = Chosen(Line(list), table, max, broken)
  PROVE  /\ IsFiniteSet(chosen \ broken)
         /\ Cardinality(chosen \ broken) \in Nat
         /\ Cardinality(With(table, "running")) \in Nat
         /\ Cardinality(With(Promoted(table, chosen, broken), "running"))
              = Cardinality(With(table, "running")) + Cardinality(chosen \ broken)
<1>1. chosen \subseteq With(table, "queued")
  BY DEF Chosen
<1>2. With(Promoted(table, chosen, broken), "running") = With(table, "running") \cup (chosen \ broken)
  BY <1>1 DEF With, Promoted
<1>3. With(table, "running") \cap (chosen \ broken) = {}
  BY <1>1 DEF With
<1>4. (chosen \ broken) \in SUBSET {x \in Analyses : table[x] \notin {"none", "coming"}}
  BY <1>1 DEF With
<1>5. With(table, "running") \in SUBSET {x \in Analyses : table[x] \notin {"none", "coming"}}
  BY DEF With
<1>6. IsFiniteSet(chosen \ broken) /\ Cardinality(chosen \ broken) \in Nat
  BY <1>4, ListedIsFinite
<1>7. IsFiniteSet(With(table, "running")) /\ Cardinality(With(table, "running")) \in Nat
  BY <1>5, ListedIsFinite
<1>8. Cardinality(With(table, "running") \cap (chosen \ broken)) = 0
  BY <1>3, FS_EmptySet
<1>9. Cardinality(With(table, "running") \cup (chosen \ broken))
        = Cardinality(With(table, "running")) + Cardinality(chosen \ broken)
            - Cardinality(With(table, "running") \cap (chosen \ broken))
  BY <1>6, <1>7, FS_Union
<1>10. Cardinality(With(table, "running") \cup (chosen \ broken))
         = Cardinality(With(table, "running")) + Cardinality(chosen \ broken)
  <2> DEFINE R == Cardinality(With(table, "running"))
             S == Cardinality(chosen \ broken)
             B == Cardinality(With(table, "running") \cap (chosen \ broken))
             U == Cardinality(With(table, "running") \cup (chosen \ broken))
  <2>1. R \in Nat /\ S \in Nat /\ B = 0 /\ U = R + S - B
    BY <1>6, <1>7, <1>8, <1>9
  <2> HIDE DEF R, S, B, U
  <2>2. U = R + S
    BY <2>1
  <2> QED
    BY <2>2 DEF R, S, U
<1> QED
  BY <1>2, <1>6, <1>7, <1>10

\* After the loop no place is free while an entry waits.
LEMMA PlacesAreFilled ==
  ASSUME NEW list, NEW table, ListOK(list, table), NEW max \in Nat,
         NEW broken, NEW chosen, chosen = Chosen(Line(list), table, max, broken),
         broken \subseteq chosen,
         With(Promoted(table, chosen, broken), "queued") # {}
  PROVE  Cardinality(With(Promoted(table, chosen, broken), "running")) >= max
<1> DEFINE left == With(table, "queued") \ chosen
<1>1. chosen \subseteq With(table, "queued") /\ broken \in SUBSET With(table, "queued")
  BY DEF Chosen
<1>2. left # {}
  BY <1>1 DEF With, Promoted
<1>3. left \in SUBSET {x \in Analyses : table[x] \notin {"none", "coming"}}
  BY DEF With
<1>4. PICK a \in left : \A b \in left : Line(list)[a] <= Line(list)[b]
  BY <1>2, <1>3, FirstAndLast
<1>5. a \in Analyses /\ a \in With(table, "queued") /\ a \notin chosen
  BY <1>4 DEF With
<1>6. InFront(list, table, broken, a) \subseteq chosen \ broken
  <2>1. \A b \in With(table, "queued") : b \in Analyses /\ Line(list)[b] \in Nat
    BY Places DEF With
  <2> QED
    BY <1>4, <1>5, <2>1 DEF InFront
<1>7. /\ IsFiniteSet(chosen \ broken)
      /\ Cardinality(chosen \ broken) \in Nat
      /\ Cardinality(With(table, "running")) \in Nat
      /\ Cardinality(With(Promoted(table, chosen, broken), "running"))
           = Cardinality(With(table, "running")) + Cardinality(chosen \ broken)
  BY <1>1, RunningAfter
<1>8. /\ Cardinality(InFront(list, table, broken, a)) \in Nat
      /\ Cardinality(InFront(list, table, broken, a)) <= Cardinality(chosen \ broken)
  BY <1>6, <1>7, FS_Subset, FS_CardinalityType
<1>9. ~(Cardinality(With(table, "running")) + Cardinality(InFront(list, table, broken, a)) < max)
  BY <1>5 DEF Chosen, InFront
<1> QED
  BY <1>7, <1>8, <1>9

\* If the loop starts a thread, the entries that run are within the limit.
LEMMA PlacesAreLimited ==
  ASSUME NEW list, NEW table, ListOK(list, table), NEW max \in Nat,
         NEW broken, NEW chosen, chosen = Chosen(Line(list), table, max, broken),
         broken \subseteq chosen, chosen \ broken # {}
  PROVE  Cardinality(With(Promoted(table, chosen, broken), "running")) <= max
<1> DEFINE started == chosen \ broken
<1>1. chosen \subseteq With(table, "queued") /\ broken \in SUBSET With(table, "queued")
  BY DEF Chosen
<1>2. started \in SUBSET {x \in Analyses : table[x] \notin {"none", "coming"}}
  BY <1>1 DEF With
<1>3. PICK a \in started : \A b \in started : Line(list)[b] <= Line(list)[a]
  BY <1>2, FirstAndLast
<1>4. a \in chosen /\ a \in Analyses /\ table[a] = "queued"
  BY <1>1, <1>3 DEF With
<1>5. \A b \in With(table, "queued") : /\ Line(list)[b] \in 1 .. Len(list)
                                      /\ list[Line(list)[b]] = b
  BY Places DEF With
<1>6. started \subseteq InFront(list, table, broken, a) \cup {a}
  <2> SUFFICES ASSUME NEW b \in started, b # a
               PROVE  b \in InFront(list, table, broken, a)
    OBVIOUS
  <2>1. b \in With(table, "queued") \ broken /\ a \in With(table, "queued")
    BY <1>1, <1>3
  <2>2. Line(list)[b] # Line(list)[a]
    BY <1>5, <2>1
  <2>3. Line(list)[b] < Line(list)[a]
    BY <1>3, <1>5, <2>1, <2>2
  <2> QED
    BY <2>1, <2>3 DEF InFront
<1>7. InFront(list, table, broken, a) \in SUBSET {x \in Analyses : table[x] \notin {"none", "coming"}}
  BY DEF InFront, With
<1>8. /\ IsFiniteSet(InFront(list, table, broken, a))
      /\ Cardinality(InFront(list, table, broken, a)) \in Nat
  BY <1>7, ListedIsFinite
<1>9. /\ IsFiniteSet(InFront(list, table, broken, a) \cup {a})
      /\ Cardinality(InFront(list, table, broken, a) \cup {a})
           <= Cardinality(InFront(list, table, broken, a)) + 1
  <2> DEFINE F == InFront(list, table, broken, a)
  <2> HIDE DEF F
  <2>1. IsFiniteSet(F) /\ Cardinality(F) \in Nat
    BY <1>8 DEF F
  <2>2. /\ IsFiniteSet(F \cup {a})
        /\ Cardinality(F \cup {a}) = IF a \in F THEN Cardinality(F) ELSE Cardinality(F) + 1
    BY <2>1, FS_AddElement
  <2>3. Cardinality(F \cup {a}) <= Cardinality(F) + 1
    BY <2>1, <2>2
  <2> QED
    BY <2>2, <2>3 DEF F
<1>10. Cardinality(started) <= Cardinality(InFront(list, table, broken, a) \cup {a})
  BY <1>6, <1>9, FS_Subset
<1>11. /\ Cardinality(started) \in Nat
       /\ Cardinality(With(table, "running")) \in Nat
       /\ Cardinality(With(Promoted(table, chosen, broken), "running"))
            = Cardinality(With(table, "running")) + Cardinality(started)
  BY <1>1, RunningAfter
<1>12. Cardinality(With(table, "running")) + Cardinality(InFront(list, table, broken, a)) < max
  BY <1>4 DEF Chosen, InFront
<1>13. Cardinality(InFront(list, table, broken, a) \cup {a}) \in Nat
  BY <1>9, FS_CardinalityType
<1> QED
  BY <1>8, <1>9, <1>10, <1>11, <1>12, <1>13

-----------------------------------------------------------------------------
(* The inductive invariant.                                                *)

QueueTypes ==
    /\ ListOK(order, entry)
    /\ limit \in Limits
    /\ status \in [Analyses -> StatusValues]
    /\ thread \in [Analyses -> {"none", "live", "ended"}]
    /\ reported \in [Analyses -> BOOLEAN]
    /\ seen \in [Analyses -> SeenValues]

\* Where an entry is in its life, compared with its session and its thread; what a
\* watcher has read is still true when it looks at it.
LifeOf(table, read) ==
    \A a \in Analyses :
        /\ status[a] = "absent" => table[a] = "none" /\ thread[a] = "none"
        /\ table[a] \in {"coming", "queued"} => thread[a] = "none" /\ status[a] \in {"running", "deleted"}
        /\ status[a] = "interrupted" => table[a] = "none"
        /\ status[a] = "completed" => reported[a]
        /\ read[a] # "nothing" => table[a] = "running"
        /\ read[a] = "completed" => reported[a]
        /\ read[a] \in {"failed", "deleted"} => status[a] \in {"failed", "deleted"}
        /\ table[a] = "done" => reported[a]
        /\ table[a] = "failed" => \/ status[a] \in {"failed", "deleted"}
                                  \/ status[a] = "running" /\ thread[a] = "ended"

QueueInv ==
    /\ QueueTypes
    /\ FirstComeFirstServed
    /\ NoIdlePlaces
    /\ LifeOf(entry, seen)

\* What a run of the loop promises of the state it leaves.
LEMMA PromoteKeeps ==
  ASSUME NEW list, NEW table, NEW max \in Limits, ListOK(list, table), InTurn(list, table),
         Promote(list, table, max)
  PROVE  /\ ListOK(order', entry')
         /\ InTurn(order', entry')
         /\ With(entry', "queued") # {} => Cardinality(With(entry', "running")) >= max
         /\ (\E a \in Analyses : thread[a] # "live" /\ thread'[a] = "live")
               => Cardinality(With(entry', "running")) <= max
         /\ \A a \in Analyses :
               \/ entry'[a] = table[a] /\ thread'[a] = thread[a]
               \/ /\ table[a] = "queued"
                  /\ \/ entry'[a] = "failed" /\ thread'[a] = "ended"
                     \/ entry'[a] = "running" /\ thread'[a] = "live"
<1>1. max \in Nat
  BY LimitsAssumption
<1>2. PICK broken \in SUBSET With(table, "queued") :
         LET chosen == Chosen(Line(list), table, max, broken)
         IN  /\ broken \subseteq chosen
             /\ order' = list
             /\ entry' = Promoted(table, chosen, broken)
             /\ StartAll(chosen, broken)
  BY DEF Promote, Promoted
<1> DEFINE chosen == Chosen(Line(list), table, max, broken)
<1>3. /\ broken \subseteq chosen
      /\ order' = list
      /\ entry' = Promoted(table, chosen, broken)
      /\ StartAll(chosen, broken)
  BY <1>2
<1>4. chosen \subseteq With(table, "queued")
  BY DEF Chosen
<1>5. ListOK(order', entry') /\ InTurn(order', entry')
  BY <1>1, <1>3, PromotedInTurn
<1>6. With(entry', "queued") # {} => Cardinality(With(entry', "running")) >= max
  BY <1>1, <1>3, PlacesAreFilled
<1>7. ASSUME NEW a \in Analyses, thread[a] # "live", thread'[a] = "live"
      PROVE  Cardinality(With(entry', "running")) <= max
  <2>1. a \in chosen \ broken
    BY <1>3, <1>7 DEF StartAll
  <2> QED
    BY <1>1, <1>3, <2>1, PlacesAreLimited
<1>8. ASSUME NEW a \in Analyses
      PROVE  \/ entry'[a] = table[a] /\ thread'[a] = thread[a]
             \/ /\ table[a] = "queued"
                /\ \/ entry'[a] = "failed" /\ thread'[a] = "ended"
                   \/ entry'[a] = "running" /\ thread'[a] = "live"
  BY <1>3, <1>4 DEF Promoted, StartAll, With
<1> QED
  BY <1>5, <1>6, <1>7, <1>8

\* What the loop does to one analysis.
PromotedOne(table, a) ==
    \/ entry'[a] = table[a] /\ thread'[a] = thread[a]
    \/ /\ table[a] = "queued"
       /\ \/ entry'[a] = "failed" /\ thread'[a] = "ended"
          \/ entry'[a] = "running" /\ thread'[a] = "live"

\* A step that promotes keeps the invariant, if the table it promotes is in order.
LEMMA PromotionKeepsInv ==
  ASSUME QueueInv, NEW list, NEW table, limit' \in Limits, ListOK(list, table), InTurn(list, table),
         Promote(list, table, limit'),
         LifeOf(table, seen'), seen' \in [Analyses -> SeenValues],
         UNCHANGED <<status, reported>>
  PROVE  QueueInv'
<1>1. /\ ListOK(order', entry')
      /\ InTurn(order', entry')
      /\ With(entry', "queued") # {} => Cardinality(With(entry', "running")) >= limit'
      /\ \A a \in Analyses : PromotedOne(table, a)
  BY PromoteKeeps DEF PromotedOne
<1>2. thread' \in [Analyses -> {"none", "live", "ended"}]
  <2>1. thread \in [Analyses -> {"none", "live", "ended"}]
    BY DEF QueueInv, QueueTypes
  <2> QED
    BY <2>1 DEF Promote, StartAll
<1>3. QueueTypes'
  BY <1>1, <1>2 DEF QueueInv, QueueTypes
<1>4. FirstComeFirstServed' /\ NoIdlePlaces'
  BY <1>1 DEF InTurn, FirstComeFirstServed, NoIdlePlaces
<1>5. ASSUME NEW a \in Analyses
      PROVE  /\ status'[a] = "absent" => entry'[a] = "none" /\ thread'[a] = "none"
             /\ entry'[a] \in {"coming", "queued"}
                  => thread'[a] = "none" /\ status'[a] \in {"running", "deleted"}
             /\ status'[a] = "interrupted" => entry'[a] = "none"
             /\ status'[a] = "completed" => reported'[a]
             /\ seen'[a] # "nothing" => entry'[a] = "running"
             /\ seen'[a] = "completed" => reported'[a]
             /\ seen'[a] \in {"failed", "deleted"} => status'[a] \in {"failed", "deleted"}
             /\ entry'[a] = "done" => reported'[a]
             /\ entry'[a] = "failed" => \/ status'[a] \in {"failed", "deleted"}
                                        \/ status'[a] = "running" /\ thread'[a] = "ended"
  <2>1. PromotedOne(table, a)
    BY <1>1
  <2>2. status' = status /\ reported' = reported
    OBVIOUS
  <2> QED
    BY <2>1, <2>2 DEF PromotedOne, LifeOf
<1>6. LifeOf(entry, seen)'
  BY <1>5 DEF LifeOf
<1> QED
  BY <1>3, <1>4, <1>6 DEF QueueInv

LEMMA QueueInvInit == Init => QueueInv
<1> SUFFICES ASSUME Init PROVE QueueInv
  OBVIOUS
<1>1. ListOK(order, entry)
  BY DEF Init, ListOK, EntryStates
<1>2. QueueTypes
  BY <1>1 DEF Init, RunInit, QueueTypes, StatusValues, SeenValues
<1>3. FirstComeFirstServed
  BY DEF Init, FirstComeFirstServed
<1>4. NoIdlePlaces
  BY DEF Init, NoIdlePlaces, With
<1>5. LifeOf(entry, seen)
  BY DEF Init, RunInit, LifeOf
<1> QED
  BY <1>2, <1>3, <1>4, <1>5 DEF QueueInv

\* A step that leaves the queue alone keeps the invariant if it keeps the lives.
LEMMA QueueUntouched ==
  ASSUME QueueInv, UNCHANGED <<order, entry, limit>>,
         status' \in [Analyses -> StatusValues],
         thread' \in [Analyses -> {"none", "live", "ended"}],
         reported' \in [Analyses -> BOOLEAN],
         seen' \in [Analyses -> SeenValues],
         LifeOf(entry, seen)'
  PROVE  QueueInv'
BY DEF QueueInv, QueueTypes, FirstComeFirstServed, NoIdlePlaces, With

\* A new entry at the end of the list leaves it in order.
LEMMA ArrivalInOrder ==
  ASSUME QueueInv, NEW a \in Analyses, entry[a] = "coming"
  PROVE  /\ ListOK(Append(order, a), [entry EXCEPT ![a] = "queued"])
         /\ InTurn(Append(order, a), [entry EXCEPT ![a] = "queued"])
<1> DEFINE list == Append(order, a)
           table == [entry EXCEPT ![a] = "queued"]
<1>0. ListOK(order, entry) /\ InTurn(order, entry) /\ entry \in [Analyses -> EntryStates]
  BY DEF QueueInv, QueueTypes, InTurn, FirstComeFirstServed, ListOK
<1>2. order \in Seq(Analyses) /\ \A i \in DOMAIN order : order[i] # a /\ order[i] \in Analyses
  BY <1>0 DEF ListOK
<1>3. /\ list \in Seq(Analyses) /\ DOMAIN list = 1 .. Len(order) + 1 /\ DOMAIN order = 1 .. Len(order)
      /\ Len(order) \in Nat /\ list[Len(order) + 1] = a
      /\ \A i \in DOMAIN order : list[i] = order[i]
  BY <1>2
<1>4. ListOK(list, table)
  <2>1. table \in [Analyses -> EntryStates]
    BY <1>0 DEF EntryStates
  <2>2. \A i, j \in DOMAIN list : list[i] = list[j] => i = j
    <3>1. \A i \in DOMAIN list : i \in DOMAIN order \/ i = Len(order) + 1
      BY <1>3
    <3> QED
      BY <1>0, <1>2, <1>3, <3>1 DEF ListOK
  <2>3. ASSUME NEW b \in Analyses
        PROVE  table[b] \notin {"none", "coming"} <=> \E i \in DOMAIN list : list[i] = b
    <3>1. entry[b] \notin {"none", "coming"} <=> \E i \in DOMAIN order : order[i] = b
      BY <1>0 DEF ListOK
    <3>2. (\E i \in DOMAIN list : list[i] = b) <=> b = a \/ \E i \in DOMAIN order : order[i] = b
      BY <1>3
    <3> QED
      BY <1>0, <3>1, <3>2
  <2> QED
    BY <1>3, <2>1, <2>2, <2>3 DEF ListOK
<1>5. InTurn(list, table)
  <2> SUFFICES ASSUME NEW i \in DOMAIN list, NEW j \in DOMAIN list, i < j, table[list[j]] # "queued"
               PROVE  table[list[i]] # "queued"
    BY DEF InTurn
  <2>1. j # Len(order) + 1
    BY <1>0, <1>3
  <2>2. i \in DOMAIN order /\ j \in DOMAIN order
    BY <1>3, <2>1
  <2>3. /\ list[i] = order[i] /\ list[j] = order[j]
        /\ table[order[i]] = entry[order[i]] /\ table[order[j]] = entry[order[j]]
    BY <1>0, <1>2, <1>3, <2>2
  <2> QED
    BY <1>0, <2>2, <2>3 DEF InTurn
<1> QED
  BY <1>4, <1>5

\* So does the end of an entry that runs.
LEMMA EndInOrder ==
  ASSUME QueueInv, NEW a \in Analyses, entry[a] = "running", NEW state \in {"done", "failed"}
  PROVE  /\ ListOK(order, [entry EXCEPT ![a] = state])
         /\ InTurn(order, [entry EXCEPT ![a] = state])
<1> DEFINE table == [entry EXCEPT ![a] = state]
<1>0. ListOK(order, entry) /\ InTurn(order, entry) /\ entry \in [Analyses -> EntryStates]
  BY DEF QueueInv, QueueTypes, InTurn, FirstComeFirstServed, ListOK
<1>3. ListOK(order, table)
  <2>1. table \in [Analyses -> EntryStates]
    BY <1>0 DEF EntryStates
  <2>2. \A b \in Analyses : table[b] \notin {"none", "coming"} <=> entry[b] \notin {"none", "coming"}
    BY <1>0
  <2> QED
    BY <1>0, <2>1, <2>2 DEF ListOK
<1>4. InTurn(order, table)
  <2>1. \A i \in DOMAIN order : order[i] \in Analyses
    BY <1>0 DEF ListOK
  <2>2. \A b \in Analyses : table[b] = "queued" <=> entry[b] = "queued"
    BY <1>0
  <2> QED
    BY <1>0, <2>1, <2>2 DEF InTurn
<1> QED
  BY <1>3, <1>4

LEMMA QueueInvStep == QueueInv /\ [Next]_vars => QueueInv'
<1> SUFFICES ASSUME QueueInv, [Next]_vars PROVE QueueInv'
  OBVIOUS
<1> USE DEF StatusValues, SeenValues, Final
<1>0. /\ ListOK(order, entry) /\ InTurn(order, entry) /\ limit \in Limits
      /\ status \in [Analyses -> StatusValues]
      /\ thread \in [Analyses -> {"none", "live", "ended"}]
      /\ reported \in [Analyses -> BOOLEAN]
      /\ seen \in [Analyses -> SeenValues]
      /\ LifeOf(entry, seen)
      /\ entry \in [Analyses -> EntryStates]
  BY DEF QueueInv, QueueTypes, InTurn, FirstComeFirstServed, ListOK
<1>1. ASSUME NEW a \in Analyses, Prepare(a)
      PROVE  QueueInv'
  <2>1. entry[a] = "none" /\ thread[a] = "none" /\ seen[a] = "nothing"
    BY <1>0, <1>1 DEF Prepare, Open, LifeOf
  <2>2. /\ status' = [status EXCEPT ![a] = "running"]
        /\ entry' = [entry EXCEPT ![a] = "coming"]
        /\ UNCHANGED <<order, seen, limit, thread, reported>>
    BY <1>1 DEF Prepare, Open
  <2>3. entry' \in [Analyses -> EntryStates]
    BY <1>0, <2>2 DEF EntryStates
  <2>4. \A b \in Analyses : entry'[b] \notin {"none", "coming"} <=> entry[b] \notin {"none", "coming"}
    BY <1>0, <2>1, <2>2
  <2>5. ListOK(order', entry')
    BY <1>0, <2>2, <2>3, <2>4 DEF ListOK
  <2>6. QueueTypes'
    BY <1>0, <2>2, <2>5 DEF QueueTypes
  <2>7. \A i \in DOMAIN order : order[i] \in Analyses /\ entry[order[i]] \notin {"none", "coming"}
    BY <1>0 DEF ListOK
  <2>8. FirstComeFirstServed'
    <3>1. \A i \in DOMAIN order : entry'[order[i]] = entry[order[i]]
      BY <1>0, <2>1, <2>2, <2>7
    <3> QED
      BY <1>0, <2>2, <3>1 DEF FirstComeFirstServed, InTurn
  <2>9. NoIdlePlaces'
    <3>1. With(entry', "queued") = With(entry, "queued") /\ With(entry', "running") = With(entry, "running")
      BY <1>0, <2>1, <2>2 DEF With
    <3> QED
      BY <2>2, <3>1 DEF NoIdlePlaces, QueueInv
  <2>10. LifeOf(entry, seen)'
    BY <1>0, <2>1, <2>2 DEF LifeOf
  <2> QED
    BY <2>6, <2>8, <2>9, <2>10 DEF QueueInv
<1>2. ASSUME NEW a \in Analyses, Enqueue(a)
      PROVE  QueueInv'
  <2> DEFINE list == Append(order, a)
             table == [entry EXCEPT ![a] = "queued"]
  <2>1. /\ entry[a] = "coming" /\ Promote(list, table, limit)
        /\ UNCHANGED <<status, reported, excused, seen, limit>>
    BY <1>2 DEF Enqueue
  <2>2. ListOK(list, table) /\ InTurn(list, table)
    BY <2>1, ArrivalInOrder
  <2>6. LifeOf(table, seen')
    BY <1>0, <2>1 DEF LifeOf
  <2> HIDE DEF list, table
  <2> QED
    BY <1>0, <2>1, <2>2, <2>6, PromotionKeepsInv
<1>3. ASSUME NEW a \in Analyses, Thread(a)
      PROVE  QueueInv'
  <2>1. UNCHANGED <<order, entry, seen, limit>>
    BY <1>3 DEF Thread, queueVars
  <2>2. thread[a] = "live"
    BY <1>3 DEF Thread, ThreadStep, Complete, Fail, Suffer, End
  <2>3. CASE Complete(a)
    <3>1. /\ ~reported[a] /\ status[a] \in {"running", "deleted"} /\ thread' = thread
          /\ status' = IF status[a] = "deleted" THEN status ELSE [status EXCEPT ![a] = "completed"]
          /\ reported' = [reported EXCEPT ![a] = TRUE]
      BY <2>3 DEF Complete, SetStatus
    <3>2. LifeOf(entry, seen)'
      BY <1>0, <2>1, <2>2, <3>1 DEF LifeOf
    <3> QED
      BY <1>0, <2>1, <3>1, <3>2, QueueUntouched
  <2>4. CASE Fail(a)
    <3>1. /\ UNCHANGED <<thread, reported>>
          /\ status' = IF status[a] = "deleted" THEN status ELSE [status EXCEPT ![a] = "failed"]
      BY <2>4 DEF Fail, SetStatus
    <3>2. LifeOf(entry, seen)'
      BY <1>0, <2>1, <2>2, <3>1 DEF LifeOf
    <3> QED
      BY <1>0, <2>1, <3>1, <3>2, QueueUntouched
  <2>5. CASE Suffer(a)
    BY <1>0, <2>1, <2>5, QueueUntouched DEF Suffer, LifeOf
  <2>6. CASE End(a)
    <3>1. UNCHANGED <<status, reported>> /\ thread' = [thread EXCEPT ![a] = "ended"]
      BY <2>6 DEF End
    <3>2. LifeOf(entry, seen)'
      BY <1>0, <2>1, <2>2, <3>1 DEF LifeOf
    <3> QED
      BY <1>0, <2>1, <3>1, <3>2, QueueUntouched
  <2> QED
    BY <1>3, <2>3, <2>4, <2>5, <2>6 DEF Thread, ThreadStep
<1>4. ASSUME NEW a \in Analyses, ReadStatus(a)
      PROVE  QueueInv'
  <2>1. /\ entry[a] = "running" /\ status[a] \in Final \cup {"deleted"}
        /\ seen' = [seen EXCEPT ![a] = status[a]]
        /\ UNCHANGED <<status, thread, reported, order, entry, limit>>
    BY <1>4 DEF ReadStatus, Ended, runVars
  <2>2. status[a] \in {"completed", "failed", "deleted"}
    BY <1>0, <2>1 DEF LifeOf
  <2>3. seen' \in [Analyses -> SeenValues]
    BY <1>0, <2>1, <2>2
  <2>4. LifeOf(entry, seen)'
    BY <1>0, <2>1, <2>2 DEF LifeOf
  <2> QED
    BY <1>0, <2>1, <2>3, <2>4, QueueUntouched
<1>5. ASSUME NEW a \in Analyses, ReadFails(a)
      PROVE  QueueInv'
  <2>1. /\ entry[a] = "running"
        /\ seen' = [seen EXCEPT ![a] = "raised"]
        /\ UNCHANGED <<status, thread, reported, order, entry, limit>>
    BY <1>5 DEF ReadFails, runVars
  <2>2. LifeOf(entry, seen)'
    BY <1>0, <2>1 DEF LifeOf
  <2> QED
    BY <1>0, <2>1, <2>2, QueueUntouched
<1>6. ASSUME NEW a \in Analyses, Release(a)
      PROVE  QueueInv'
  <2> DEFINE table == [entry EXCEPT ![a] = Outcome(seen[a])]
  <2>1. /\ seen[a] \in {"completed", "failed", "deleted"}
        /\ seen' = [seen EXCEPT ![a] = "nothing"]
        /\ Promote(order, table, limit)
        /\ UNCHANGED <<status, reported, excused, limit>>
    BY <1>0, <1>6 DEF Release
  <2>2. entry[a] = "running" /\ table[a] \in {"done", "failed"}
    BY <1>0, <2>1 DEF LifeOf, Outcome
  <2>3. ListOK(order, table) /\ InTurn(order, table)
    BY <2>2, EndInOrder
  <2>5. LifeOf(table, seen')
    <3>1. table[a] = "done" => reported[a]
      BY <1>0, <2>1 DEF LifeOf, Outcome
    <3>2. table[a] = "failed" => status[a] \in {"failed", "deleted"}
      BY <1>0, <2>1 DEF LifeOf, Outcome
    <3>3. ASSUME NEW b \in Analyses, b # a
          PROVE  table[b] = entry[b] /\ seen'[b] = seen[b]
      BY <1>0, <2>1, <3>3
    <3>4. seen'[a] = "nothing" /\ entry[a] = "running"
      BY <1>0, <2>1, <2>2
    <3> HIDE DEF table
    <3> QED
      BY <1>0, <2>2, <3>1, <3>2, <3>3, <3>4 DEF LifeOf
  <2>6. seen' \in [Analyses -> SeenValues]
    BY <1>0, <2>1
  <2> HIDE DEF table
  <2> QED
    BY <1>0, <2>1, <2>3, <2>5, <2>6, PromotionKeepsInv
<1>7. ASSUME NEW a \in Analyses, Cancel(a), UNCHANGED queueVars
      PROVE  QueueInv'
  BY <1>0, <1>7, QueueUntouched DEF Cancel, queueVars, LifeOf
<1>8. ASSUME NEW a \in Analyses, Delete(a), UNCHANGED queueVars
      PROVE  QueueInv'
  <2>1. /\ status[a] # "absent" /\ status' = [status EXCEPT ![a] = "deleted"]
        /\ UNCHANGED <<thread, reported, order, entry, seen, limit>>
    BY <1>8 DEF Delete, queueVars
  <2>2. LifeOf(entry, seen)'
    BY <1>0, <2>1 DEF LifeOf
  <2> QED
    BY <1>0, <2>1, <2>2, QueueUntouched
<1>9. ASSUME NEW max \in Limits, SetLimit(max)
      PROVE  QueueInv'
  BY <1>0, <1>9, PromotionKeepsInv DEF SetLimit
<1>10. ASSUME Restart
       PROVE  QueueInv'
  <2>1. /\ status' = [a \in Analyses |-> IF status[a] = "running" THEN "interrupted" ELSE status[a]]
        /\ thread' = [a \in Analyses |-> IF status[a] = "absent" THEN "none" ELSE "ended"]
        /\ reported' = reported /\ order' = << >> /\ limit' \in Limits
        /\ entry' = [a \in Analyses |-> "none"]
        /\ seen' = [a \in Analyses |-> "nothing"]
    BY <1>10 DEF Restart, RestartRuns
  <2>2. ListOK(order', entry')
    BY <2>1 DEF ListOK, EntryStates
  <2>3. QueueTypes'
    BY <1>0, <2>1, <2>2 DEF QueueTypes
  <2>4. FirstComeFirstServed' /\ NoIdlePlaces'
    BY <2>1 DEF FirstComeFirstServed, NoIdlePlaces, With
  <2>5. LifeOf(entry, seen)'
    BY <1>0, <2>1 DEF LifeOf
  <2> QED
    BY <2>3, <2>4, <2>5 DEF QueueInv
<1>11. CASE UNCHANGED vars
  BY <1>0, <1>11, QueueUntouched DEF vars, runVars, queueVars, LifeOf
<1> QED
  BY <1>1, <1>2, <1>3, <1>4, <1>5, <1>6, <1>7, <1>8, <1>9, <1>10, <1>11 DEF Next, Watcher

-----------------------------------------------------------------------------
(***************************************************************************)
(* Every reachable state of the queue satisfies the inductive invariant.   *)
(***************************************************************************)
THEOREM QueueInvariant == Spec => []QueueInv
BY QueueInvInit, QueueInvStep, PTL DEF Spec

(***************************************************************************)
(* First come, first served, whatever ends, fails to start or changes the  *)
(* limit (_promote of queue.py).                                           *)
(***************************************************************************)
THEOREM ServesInTurn == Spec => []FirstComeFirstServed
<1>1. QueueInv => FirstComeFirstServed
  BY DEF QueueInv
<1> QED
  BY <1>1, QueueInvariant, PTL

(***************************************************************************)
(* Whatever frees a place fills it: no entry waits while fewer run than    *)
(* the limit allows.                                                       *)
(***************************************************************************)
THEOREM PlacesAreUsed == Spec => []NoIdlePlaces
<1>1. QueueInv => NoIdlePlaces
  BY DEF QueueInv
<1> QED
  BY <1>1, QueueInvariant, PTL

(***************************************************************************)
(* The state of an entry agrees with its session: done has a report,       *)
(* failed has failed, is gone or was never started.                        *)
(***************************************************************************)
THEOREM EntriesTellOutcome == Spec => []EntryTellsOutcome
<1>1. QueueInv => EntryTellsOutcome
  BY DEF QueueInv, LifeOf, EntryTellsOutcome
<1> QED
  BY <1>1, QueueInvariant, PTL

(***************************************************************************)
(* Threads are only started within the limit of the moment.                *)
(***************************************************************************)
THEOREM StartsAreLimited == Spec => StartsWithinLimit
<1>1. ASSUME QueueInv, [Next]_vars
      PROVE  \A a \in Analyses : thread[a] = "none" /\ thread'[a] = "live"
                => Cardinality(With(entry', "running")) <= limit'
  <2> SUFFICES ASSUME NEW a \in Analyses, thread[a] = "none", thread'[a] = "live"
               PROVE  Cardinality(With(entry', "running")) <= limit'
    OBVIOUS
  <2> DEFINE Promotes == \E list, table : /\ ListOK(list, table) /\ InTurn(list, table)
                                          /\ Promote(list, table, limit')
  <2>0. /\ ListOK(order, entry) /\ InTurn(order, entry) /\ limit \in Limits
        /\ thread \in [Analyses -> {"none", "live", "ended"}]
        /\ seen \in [Analyses -> SeenValues]
        /\ LifeOf(entry, seen)
    BY <1>1 DEF QueueInv, QueueTypes, InTurn, FirstComeFirstServed
  <2>1. ASSUME NEW b \in Analyses, Enqueue(b)
        PROVE  Promotes /\ limit' = limit
    BY <1>1, <2>1, ArrivalInOrder DEF Enqueue
  <2>2. ASSUME NEW b \in Analyses, Release(b)
        PROVE  Promotes /\ limit' = limit
    <3>1. entry[b] = "running"
      BY <2>0, <2>2 DEF Release, LifeOf
    <3>2. Outcome(seen[b]) \in {"done", "failed"}
      BY DEF Outcome
    <3> QED
      BY <1>1, <2>2, <3>1, <3>2, EndInOrder DEF Release
  <2>3. ASSUME NEW max \in Limits, SetLimit(max)
        PROVE  Promotes /\ limit' \in Limits
    BY <2>0, <2>3 DEF SetLimit
  <2>4. ASSUME NEW b \in Analyses,
               \/ Prepare(b) \/ Thread(b) \/ ReadStatus(b) \/ ReadFails(b)
               \/ Cancel(b) \/ Delete(b)
        PROVE  FALSE
    BY <2>0, <2>4 DEF Prepare, Open, Thread, ThreadStep, Complete, Fail, Suffer, End,
                      ReadStatus, ReadFails, Cancel, Delete, runVars
  <2>5. ~Restart /\ ~UNCHANGED vars
    BY DEF Restart, RestartRuns, vars, runVars
  <2>6. Promotes /\ limit' \in Limits
    BY <1>1, <2>0, <2>1, <2>2, <2>3, <2>4, <2>5 DEF Next, Watcher
  <2> QED
    BY <2>6, PromoteKeeps
<1> QED
  BY <1>1, QueueInvariant, PTL DEF Spec, StartsWithinLimit

-----------------------------------------------------------------------------
(* What holds in every state of the batches.                               *)

SessionStates == {"none", "clarifying", "running"} \cup Ends
RowStates == {"none", "queued", "analyzing", "completed", "failed", "dispatch_failed",
              "session_failed"}
Stages == {"idle", "heal", "healed", "look", "today", "create", "open", "record", "hand",
           "confirm", "mark"}
MaybeSession == Sessions \cup {None}

RowType == [status : RowStates, session : MaybeSession]
CallerType == [kind : {"none", "pool", "report", "click"}, pc : Stages, todo : Seq(Picks),
               session : MaybeSession, stale : SUBSET (PoolPicks \X Sessions),
               found : {"none"} \cup Ends, used : Nat, done : SUBSET Picks]

BatchTypes ==
    /\ sessions \in [Sessions -> SessionStates]
    /\ DOMAIN made = Sessions /\ made = [s \in Sessions |-> made[s]]
    /\ rows \in [Picks -> RowType]
    /\ caller \in [Callers -> CallerType]
    /\ posted \in Seq(Sessions) /\ waiting \in Seq(Sessions) /\ held \in Seq(Sessions)
    /\ live \subseteq Sessions

\* A session that has been opened is running or at its end, and belongs to its pick.
Opened(s, pick) == s \in Sessions /\ sessions[s] \in {"running"} \cup Ends /\ made[s] = pick

\* A row has a session unless none was made, and the row of its own pick.
RowOK(p) ==
    /\ (rows[p].session = None) <=> (rows[p].status \in {"none", "session_failed"})
    /\ rows[p].session # None => Opened(rows[p].session, p)
    /\ rows[p].status = "analyzing" => p \in Items

PicksOf(kind) == CASE kind = "pool" -> PoolPicks
                   [] kind = "report" -> ReportPicks
                   [] kind = "click" -> Items
                   [] OTHER -> {}

StagesOf(kind) ==
    CASE kind = "pool" -> {"heal", "healed", "look", "create", "open", "record", "hand", "confirm"}
      [] kind = "report" -> {"look", "today", "create", "open", "record", "hand"}
      [] kind = "click" -> {"create", "open", "hand", "mark"}
      [] OTHER -> {"idle"}

\* What a caller knows of its picks and of the session it works on.
CallerOK(c) ==
    /\ caller[c].pc \in StagesOf(caller[c].kind)
    /\ Elements(caller[c].todo) \subseteq PicksOf(caller[c].kind)
    /\ caller[c].pc \notin {"idle", "heal", "look"} => caller[c].todo # << >>
    /\ caller[c].kind = "click" => Len(caller[c].todo) = 1
    /\ caller[c].stale # {} => caller[c].pc \in {"heal", "healed"}
    /\ \A old \in caller[c].stale : Opened(old[2], old[1])
    /\ caller[c].pc \in {"idle", "heal", "look", "create"} => caller[c].session = None
    /\ At(c, "healed") => caller[c].found \in Ends
    /\ At(c, "today") /\ caller[c].session # None => Opened(caller[c].session, Pick(c))
    /\ At(c, "open") => /\ caller[c].session \in Sessions
                        /\ sessions[caller[c].session] = "clarifying"
                        /\ made[caller[c].session] = Pick(c)
    /\ caller[c].pc \in {"healed", "record", "hand", "confirm", "mark"} =>
          Opened(caller[c].session, Pick(c))

\* The session of the caller is one that nobody else has got to know.
OwnStage(c) == \/ caller[c].pc \in {"open", "record"}
               \/ At(c, "hand") /\ caller[c].kind = "click"

Known(c) == {caller[c].session} \cup {old[2] : old \in caller[c].stale}

Apart(c) ==
    OwnStage(c) =>
        /\ \A p \in Picks : rows[p].session # caller[c].session
        /\ \A d \in Callers \ {c} : caller[c].session \notin Known(d)

InQueue == Elements(posted) \cup Elements(waiting) \cup live

\* The session is at its end, or a thread runs for it or will be started.
Taken(s) == sessions[s] \in Ends \/ s \in InQueue

WorkedOn(s) == Taken(s) \/ \E c \in Callers : At(c, "hand") /\ caller[c].session = s

WorkInv ==
    /\ BatchTypes
    /\ \A p \in Picks : RowOK(p)
    /\ \A c \in Callers : CallerOK(c)
    /\ \A c \in Callers : Apart(c)
    /\ \A s \in InQueue : Opened(s, made[s])
    /\ \A c \in Callers : caller[c].pc \in {"confirm", "mark"} => Taken(caller[c].session)
    /\ \A p \in Picks : rows[p].status \in {"queued", "analyzing"} => WorkedOn(rows[p].session)

-----------------------------------------------------------------------------
\* Callers that overlap have made their picks loose.
Alone(c, d) ==
    /\ caller[c].kind = "pool" /\ caller[d].kind = "pool" => PoolPicks \subseteq loose
    /\ caller[c].kind = "report" /\ caller[d].kind \in {"pool", "report"} => ReportPicks \subseteq loose
    /\ caller[c].kind = "click" /\ caller[d].kind = "click" /\ Pick(c) = Pick(d) => Pick(c) \in loose

\* What has failed is unlucky.
FailuresKnown ==
    /\ \A s \in Sessions : sessions[s] = "failed" => s \in unlucky
    /\ \A p \in Picks : rows[p].status \in {"failed", "dispatch_failed"} => rows[p].session \in unlucky
    /\ \A c \in Callers : At(c, "healed") /\ caller[c].found = "failed" => caller[c].session \in unlucky

\* A session that was handed over is in the row of its pick, or will be.
InRow(t) ==
    \/ rows[made[t]].session = t
    \/ \E c \in Callers : At(c, "mark") /\ caller[c].session = t

SentOK(t) ==
    /\ made[t] \in Picks /\ Opened(t, made[t])
    /\ made[t] \in Listed => rows[made[t]].status # "none"
    /\ made[t] \notin loose => InRow(t)

\* What a batch that is alone knows of the row of its pick...
RowKnown(c) ==
    caller[c].kind \in {"pool", "report"} /\ caller[c].todo # << >> /\ Pick(c) \notin loose =>
        /\ caller[c].pc \in {"healed", "today", "hand", "confirm"} => rows[Pick(c)].session = caller[c].session
        /\ At(c, "today") => rows[Pick(c)].status \in {"none", "dispatch_failed"}
        /\ caller[c].pc \in {"create", "open", "record"} => rows[Pick(c)].session = None
        /\ At(c, "hand") /\ caller[c].session \in sent => caller[c].session \in unlucky

\* ... of the rows it has read at the beginning...
StaleKnown(c) ==
    \A old \in caller[c].stale : old[1] \notin loose => rows[old[1]].session = old[2]

\* ... of the other rows of the stock...
NoRival(c) ==
    caller[c].kind = "report" /\ caller[c].pc \in {"create", "open", "record", "hand"} /\ Pick(c) \notin loose =>
        \A q \in Listed \ {Pick(c)} : Symbol(q) = Symbol(Pick(c)) => rows[q].status = "none"

\* ... and what a request that is alone knows of its item.
ItemKnown(c) ==
    caller[c].kind = "click" /\ Pick(c) \notin loose =>
        \A t \in sent : made[t] = Pick(c) => At(c, "mark") /\ t = caller[c].session

\* A session that has been read from a row or written into it has a row.
HasRow(c) ==
    /\ caller[c].kind \in {"pool", "report"}
    /\ caller[c].pc \in {"today", "hand", "confirm"}
    /\ caller[c].session # None
    => rows[Pick(c)].status # "none"

Knows(c) == RowKnown(c) /\ StaleKnown(c) /\ NoRival(c) /\ ItemKnown(c) /\ HasRow(c)

OnceInv ==
    /\ \A c, d \in Callers : c # d => Alone(c, d)
    /\ FailuresKnown
    /\ sent \subseteq Sessions
    /\ \A t \in sent : SentOK(t)
    /\ \A c \in Callers : Knows(c)
    /\ \A c \in Callers : OwnStage(c) => caller[c].session \notin sent

HandOverInv == WorkInv /\ OnceInv

-----------------------------------------------------------------------------
(* Lists and records of the batches.                                       *)

\* What a list is put together from.
LEMMA TailElements ==
  ASSUME NEW S, NEW list \in Seq(S), list # << >>
  PROVE  /\ Tail(list) \in Seq(S) /\ Head(list) \in S
         /\ Elements(list) = {Head(list)} \cup Elements(Tail(list))
<1>1. DOMAIN list = 1 .. Len(list) /\ Len(list) \in Nat /\ Len(list) > 0
  OBVIOUS
<1>2. /\ Tail(list) \in Seq(S) /\ Len(Tail(list)) = Len(list) - 1
      /\ DOMAIN Tail(list) = 1 .. Len(list) - 1
      /\ \A i \in 1 .. Len(list) - 1 : Tail(list)[i] = list[i + 1]
  BY <1>1
<1>3. Head(list) = list[1] /\ Head(list) \in S
  BY <1>1
<1>4. \A i \in DOMAIN list : list[i] \in {Head(list)} \cup Elements(Tail(list))
  <2> SUFFICES ASSUME NEW i \in DOMAIN list, i # 1
               PROVE  list[i] \in Elements(Tail(list))
    BY <1>3
  <2>1. i - 1 \in DOMAIN Tail(list) /\ Tail(list)[i - 1] = list[i]
    BY <1>1, <1>2
  <2> QED
    BY <2>1 DEF Elements
<1>5. \A i \in DOMAIN Tail(list) : Tail(list)[i] \in Elements(list)
  BY <1>1, <1>2 DEF Elements
<1>6. Head(list) \in Elements(list)
  BY <1>1, <1>3 DEF Elements
<1> QED
  BY <1>2, <1>3, <1>4, <1>5, <1>6 DEF Elements

\* Appended, and empty.
LEMMA AppendElements ==
  ASSUME NEW S, NEW list \in Seq(S), NEW e \in S
  PROVE  /\ Append(list, e) \in Seq(S) /\ Append(list, e) # << >>
         /\ Elements(Append(list, e)) = Elements(list) \cup {e}
<1>1. /\ Append(list, e) \in Seq(S) /\ Len(Append(list, e)) = Len(list) + 1
      /\ DOMAIN Append(list, e) = 1 .. Len(list) + 1 /\ DOMAIN list = 1 .. Len(list)
      /\ Len(list) \in Nat
      /\ \A i \in 1 .. Len(list) : Append(list, e)[i] = list[i]
      /\ Append(list, e)[Len(list) + 1] = e
  OBVIOUS
<1>2. Elements(Append(list, e)) \subseteq Elements(list) \cup {e}
  BY <1>1 DEF Elements
<1>3. Elements(list) \cup {e} \subseteq Elements(Append(list, e))
  <2>1. e \in Elements(Append(list, e))
    BY <1>1 DEF Elements
  <2>2. \A i \in DOMAIN list : i \in DOMAIN Append(list, e) /\ Append(list, e)[i] = list[i]
    BY <1>1
  <2> QED
    BY <2>1, <2>2 DEF Elements
<1> QED
  BY <1>1, <1>2, <1>3

LEMMA SmallLists ==
  /\ Elements(<< >>) = {}
  /\ \A e : Elements(<<e>>) = {e} /\ Len(<<e>>) = 1 /\ Head(<<e>>) = e /\ <<e>> # << >>
<1>1. DOMAIN << >> = {}
  OBVIOUS
<1>2. ASSUME NEW e
      PROVE  Elements(<<e>>) = {e} /\ Len(<<e>>) = 1 /\ Head(<<e>>) = e /\ <<e>> # << >>
  <2>1. DOMAIN <<e>> = {1} /\ <<e>>[1] = e
    OBVIOUS
  <2> QED
    BY <2>1 DEF Elements
<1> QED
  BY <1>1, <1>2 DEF Elements

LEMMA ElementsOfSeq ==
  ASSUME NEW S, NEW list \in Seq(S)
  PROVE  Elements(list) \subseteq S
BY DEF Elements

\* The picks of the three sources are apart.
LEMMA SourcesApart ==
  ASSUME BatchesAssumption
  PROVE  /\ PoolPicks \cap ReportPicks = {} /\ Items \cap PoolPicks = {} /\ Items \cap ReportPicks = {}
         /\ PoolPicks \subseteq Picks /\ ReportPicks \subseteq Picks /\ Items \subseteq Picks
         /\ Listed = PoolPicks \cup ReportPicks /\ Picks = Listed \cup Items
         /\ PoolList \in Seq(PoolPicks) /\ ReportList \in Seq(ReportPicks)
         /\ Elements(PoolList) = PoolPicks /\ Elements(ReportList) = ReportPicks
BY DEF BatchesAssumption, Listed, Picks, PoolPicks, ReportPicks

LEMMA NoneIsNoSession == None \notin Sessions
BY DEF None, Sessions

\* The caller that works on a pick has it from its source.
LEMMA PickOf ==
  ASSUME BatchTypes, NEW c \in Callers, CallerOK(c), caller[c].todo # << >>
  PROVE  /\ Pick(c) \in PicksOf(caller[c].kind) /\ Pick(c) \in Picks
         /\ caller[c].kind \in {"pool", "report", "click"}
<1>1. caller[c].todo \in Seq(Picks)
  BY DEF BatchTypes, CallerType
<1>2. Pick(c) \in Elements(caller[c].todo) /\ Pick(c) \in Picks
  BY <1>1, TailElements DEF Pick
<1>3. Pick(c) \in PicksOf(caller[c].kind)
  BY <1>2 DEF CallerOK
<1> QED
  BY <1>2, <1>3 DEF PicksOf

\* What is known is no session that is yet to come.
LEMMA KnownIsMade ==
  ASSUME BatchTypes, NEW c \in Callers, CallerOK(c), NEW s \in Known(c), s # None
  PROVE  s \in Sessions /\ sessions[s] # "none"
<1>1. CASE s = caller[c].session
  <2>1. caller[c].pc \in Stages
    BY DEF BatchTypes, CallerType
  <2> QED
    BY <1>1, <2>1 DEF CallerOK, At, Opened, Ends, Stages
<1>2. CASE \E old \in caller[c].stale : s = old[2]
  BY <1>2 DEF CallerOK, Opened, Ends
<1> QED
  BY <1>1, <1>2 DEF Known

\* A session that nobody else knows is one.
LEMMA OwnIsMade ==
  ASSUME NEW c \in Callers, CallerOK(c), OwnStage(c)
  PROVE  /\ caller[c].session \in Sessions /\ sessions[caller[c].session] # "none"
         /\ caller[c].session # None
BY NoneIsNoSession DEF CallerOK, OwnStage, At, Opened, Ends

-----------------------------------------------------------------------------
(* What one step of a caller leaves true of the work.                      *)

\* The others stay what they are.
OthersStay(c) == \A d \in Callers \ {c} : caller'[d] = caller[d]

\* A session changes only while nobody but the caller has got to know it.
Progress(c) ==
    \A t \in Sessions :
        \/ sessions'[t] = sessions[t] /\ made'[t] = made[t]
        \/ /\ sessions[t] \in {"none", "clarifying"} /\ sessions'[t] # "failed"
           /\ \A d \in Callers \ {c} : ~(At(d, "open") /\ caller[d].session = t)

\* What the caller knows afterwards it knew before, has read from a row or has made.
Learns(c) ==
    \A s \in Known(c)' :
        s \in Known(c) \cup {None} \/ (\E p \in Picks : s = rows[p].session) \/ sessions[s] = "none"

\* What it writes is a row of its own session, or of none.
Writes(c) ==
    \A q \in Picks : rows'[q] # rows[q] =>
        /\ RowOK(q)' /\ ~OwnStage(c)'
        /\ rows'[q].session \in Known(c) \cup {None}
        /\ rows'[q].status \in {"queued", "analyzing"} => WorkedOn(rows[q].session)'

\* Whoever is about to hand over does so, or says in the row that it does not.
HandsOver(c) ==
    At(c, "hand") => \/ OwnStage(c) \/ caller[c].session \in InQueue'
                     \/ rows'[Pick(c)].status \notin {"queued", "analyzing"}

OwnsOn(c) ==
    OwnStage(c)' => \/ OwnStage(c) /\ caller'[c].session = caller[c].session
                    \/ sessions[caller'[c].session] = "none"

\* What has been opened stays opened.
LEMMA OpenedStays ==
  ASSUME NEW c \in Callers, Progress(c), NEW t, NEW p, Opened(t, p)
  PROVE  /\ Opened(t, p)' /\ sessions'[t] = sessions[t] /\ made'[t] = made[t]
BY DEF Progress, Opened, Ends

LEMMA OthersOK ==
  ASSUME NEW c \in Callers, Progress(c), NEW d \in Callers \ {c}, caller'[d] = caller[d],
         CallerOK(d)
  PROVE  CallerOK(d)'
<1>1. At(d, "open") => /\ sessions'[caller[d].session] = sessions[caller[d].session]
                       /\ made'[caller[d].session] = made[caller[d].session]
  BY DEF Progress, CallerOK
<1>2. \A t, p : Opened(t, p) => Opened(t, p)'
  BY OpenedStays
<1> QED
  BY <1>1, <1>2 DEF CallerOK, At, Pick

LEMMA WorkStays ==
  ASSUME WorkInv, NEW c \in Callers, BatchTypes',
         OthersStay(c), Progress(c), Learns(c), Writes(c), HandsOver(c), OwnsOn(c),
         InQueue \subseteq InQueue', \A s \in InQueue' : Opened(s, made[s])',
         CallerOK(c)', caller'[c].pc \in {"confirm", "mark"} => Taken(caller[c].session)'
  PROVE  WorkInv'
<1>0. /\ BatchTypes /\ \A p \in Picks : RowOK(p)
      /\ \A d \in Callers : CallerOK(d) /\ Apart(d)
      /\ \A d \in Callers : caller[d].pc \in {"confirm", "mark"} => Taken(caller[d].session)
      /\ \A p \in Picks : rows[p].status \in {"queued", "analyzing"} => WorkedOn(rows[p].session)
      /\ \A d \in Callers \ {c} : caller'[d] = caller[d]
  BY DEF WorkInv, OthersStay
<1>1. \A t, p : Opened(t, p) => Opened(t, p)' /\ sessions'[t] = sessions[t]
  BY OpenedStays
<1>2. \A d \in Callers : CallerOK(d)'
  BY <1>0, OthersOK
<1>3. \A p \in Picks : RowOK(p)'
  BY <1>0, <1>1 DEF RowOK, Writes
<1>4. \A s, p : Taken(s) /\ Opened(s, p) => sessions'[s] \in Ends \/ s \in InQueue'
  BY <1>1 DEF Taken
<1>5. ASSUME NEW d \in Callers, caller'[d].pc \in {"confirm", "mark"}
      PROVE  Taken(caller[d].session)'
  <2>1. CASE d = c
    BY <1>5, <2>1
  <2>2. CASE d # c
    <3>1. caller'[d] = caller[d] /\ Taken(caller[d].session) /\ Opened(caller[d].session, Pick(d))
      BY <1>0, <1>5, <2>2 DEF CallerOK
    <3> QED
      BY <1>4, <3>1 DEF Taken
  <2> QED
    BY <2>1, <2>2
<1>6. ASSUME NEW p \in Picks, rows'[p].status \in {"queued", "analyzing"}
      PROVE  WorkedOn(rows[p].session)'
  <2>1. CASE rows'[p] # rows[p]
    BY <1>6, <2>1 DEF Writes
  <2>2. CASE rows'[p] = rows[p]
    <3> DEFINE s == rows[p].session
    <3>1. WorkedOn(s) /\ rows'[p].session = s
      BY <1>0, <1>6, <2>2
    <3>2. s = rows[p].session /\ s # None /\ Opened(s, p)
      BY <1>0, <1>6, <2>2 DEF RowOK
    <3> SUFFICES \/ sessions'[s] \in Ends \/ s \in InQueue'
                 \/ \E d \in Callers : caller'[d].pc = "hand" /\ caller'[d].session = s
      BY <3>1 DEF WorkedOn, Taken, At
    <3> HIDE DEF s
    <3>3. CASE Taken(s)
      BY <1>4, <3>2, <3>3
    <3>4. ASSUME NEW d \in Callers, d # c, At(d, "hand"), caller[d].session = s
          PROVE  caller'[d].pc = "hand" /\ caller'[d].session = s
      BY <1>0, <3>4 DEF At
    <3>5. CASE At(c, "hand") /\ caller[c].session = s
      <4>1. ~OwnStage(c)
        BY <1>0, <3>2, <3>5 DEF Apart
      <4>2. Pick(c) = p
        BY <1>0, <3>2, <3>5 DEF CallerOK, Opened, At
      <4>3. s \in InQueue'
        BY <1>6, <3>5, <4>1, <4>2 DEF HandsOver
      <4> QED
        BY <4>3
    <3> QED
      BY <3>1, <3>3, <3>4, <3>5 DEF WorkedOn
  <2> QED
    BY <2>1, <2>2
<1>7. \A d \in Callers : OwnStage(d) =>
          caller[d].session \in Sessions /\ sessions[caller[d].session] # "none" /\ caller[d].session # None
  BY <1>0, OwnIsMade
<1>8. \A d \in Callers : \A s \in Known(d) : s # None => s \in Sessions /\ sessions[s] # "none"
  BY <1>0, KnownIsMade
<1>9. \A p \in Picks : rows[p].session # None => sessions[rows[p].session] # "none"
  BY <1>0 DEF RowOK, Opened, Ends
<1>10. ASSUME NEW d \in Callers \ {c}, OwnStage(d)'
       PROVE  Apart(d)'
  <2> DEFINE s == caller[d].session
  <2>1. OwnStage(d) /\ caller'[d].session = s
    BY <1>0, <1>10 DEF OwnStage, At
  <2>2. /\ \A p \in Picks : rows[p].session # s
        /\ \A e \in Callers \ {d} : s \notin Known(e)
        /\ s # None /\ sessions[s] # "none"
    BY <1>0, <1>7, <2>1 DEF Apart
  <2>3. \A p \in Picks : rows'[p].session # s
    BY <2>2 DEF Writes
  <2>4. s \notin Known(c)'
    BY <2>2 DEF Learns
  <2>5. \A e \in Callers \ {c, d} : Known(e)' = Known(e)
    BY <1>0 DEF Known
  <2> QED
    BY <2>1, <2>2, <2>3, <2>4, <2>5 DEF Apart
<1>11. ASSUME OwnStage(c)'
       PROVE  Apart(c)'
  <2> DEFINE s == caller'[c].session
  <2>1. \A p \in Picks : rows'[p] = rows[p]
    BY <1>11 DEF Writes
  <2>2. \A e \in Callers \ {c} : Known(e)' = Known(e)
    BY <1>0 DEF Known
  <2>3. s # None
    BY <1>2, <1>11, OwnIsMade, NoneIsNoSession DEF CallerOK, OwnStage, At, Opened
  <2>4. CASE OwnStage(c) /\ s = caller[c].session
    BY <1>0, <2>1, <2>2, <2>4 DEF Apart
  <2>5. CASE sessions[s] = "none"
    <3>1. \A p \in Picks : rows'[p].session # s
      BY <1>9, <2>1, <2>3, <2>5
    <3>2. \A e \in Callers \ {c} : s \notin Known(e)'
      BY <1>8, <2>2, <2>3, <2>5
    <3> QED
      BY <3>1, <3>2 DEF Apart
  <2> QED
    BY <1>11, <2>4, <2>5 DEF OwnsOn
<1>12. \A d \in Callers : Apart(d)'
  BY <1>10, <1>11 DEF Apart
<1> QED
  BY <1>2, <1>3, <1>5, <1>6, <1>12 DEF WorkInv, Opened

-----------------------------------------------------------------------------
(* What one step of a caller leaves true of what has been handed over.     *)

\* Only the row of its pick is written, and only its session handed over.
OwnRow(c) ==
    /\ \A q \in Picks : rows'[q] # rows[q] =>
          q = Pick(c) /\ caller[c].todo # << >> /\ rows'[q].status # "none"
    /\ \A t \in sent' : t \in sent \/ (t = caller[c].session /\ At(c, "hand"))

\* The histories only grow.
Grows == sent \subseteq sent' /\ unlucky \subseteq unlucky' /\ loose \subseteq loose'

\* The session of a row that counts is not replaced after it has been handed over.
KeepsSent(c) ==
    /\ \A q \in Picks \ loose' : rows'[q].session # rows[q].session =>
          \A t \in sent : made[t] = q => t = rows'[q].session
    /\ At(c, "mark") => Pick(c) \in loose' \/ rows'[Pick(c)].session = caller[c].session
    /\ \A t \in sent' \ sent : SentOK(t)'

\* Rows and sessions that fail are unlucky.
TellsFailures(c) ==
    /\ \A q \in Picks : rows'[q] # rows[q] /\ rows'[q].status \in {"failed", "dispatch_failed"} =>
          rows'[q].session \in unlucky'
    /\ At(c, "healed")' /\ caller'[c].found = "failed" => caller'[c].session \in unlucky'

\* What another caller knows is not about the row that is written, or its pick is loose.
LEMMA OthersKnow ==
  ASSUME BatchesAssumption, WorkInv, NEW c \in Callers, NEW d \in Callers \ {c},
         caller'[d] = caller[d], Progress(c), OwnRow(c), Grows,
         Alone(c, d), Alone(d, c), Knows(d), \A t \in sent : SentOK(t)
  PROVE  Knows(d)'
<1> DEFINE me == caller[d]
<1>0. /\ me.todo \in Seq(Picks) /\ me.stale \subseteq PoolPicks \X Sessions
      /\ me.pc \in Stages /\ me.session \in MaybeSession
      /\ CallerOK(d) /\ CallerOK(c) /\ BatchTypes
  BY DEF WorkInv, BatchTypes, CallerType
<1>1. me.todo # << >> =>
        /\ Pick(d) \in PicksOf(me.kind) /\ Pick(d) \in Picks /\ Pick(d)' = Pick(d)
        /\ me.kind \in {"pool", "report", "click"}
  BY <1>0, PickOf DEF Pick
<1>2. /\ PoolPicks \cap ReportPicks = {} /\ Items \cap PoolPicks = {} /\ Items \cap ReportPicks = {}
      /\ PoolPicks \subseteq Picks /\ ReportPicks \subseteq Picks /\ Items \subseteq Picks
      /\ Listed = PoolPicks \cup ReportPicks
  BY SourcesApart
<1>3. caller[c].todo # << >> =>
        /\ Pick(c) \in PicksOf(caller[c].kind)
        /\ caller[c].kind \in {"pool", "report", "click"}
  BY <1>0, PickOf
<1>4. \A q \in Picks : rows'[q] # rows[q] =>
        /\ q = Pick(c) /\ q \in PicksOf(caller[c].kind) /\ rows'[q].status # "none"
        /\ caller[c].kind \in {"pool", "report", "click"}
  BY <1>3 DEF OwnRow
<1>5. ASSUME NEW t \in sent', t \notin sent
      PROVE  /\ t = caller[c].session /\ made[t] = Pick(c) /\ Opened(t, Pick(c))
             /\ Pick(c) \in PicksOf(caller[c].kind)
             /\ caller[c].kind \in {"pool", "report", "click"}
  <2>1. t = caller[c].session /\ At(c, "hand")
    BY <1>5 DEF OwnRow
  <2> QED
    BY <1>0, <1>3, <2>1 DEF CallerOK, Opened, At
<1>6. \A t, p : Opened(t, p) => made'[t] = made[t]
  BY OpenedStays
<1>7. me.pc = "hand" => made[me.session] = Pick(d)
  BY <1>0 DEF CallerOK, Opened
<1>8. \A q \in Listed : rows'[q].status # rows[q].status =>
        \/ q \in PoolPicks /\ caller[c].kind = "pool"
        \/ q \in ReportPicks /\ caller[c].kind = "report"
  BY <1>2, <1>4 DEF PicksOf
<1>9. /\ caller[c].kind = "pool" /\ me.kind = "pool" => PoolPicks \subseteq loose
      /\ me.kind = "report" /\ caller[c].kind \in {"pool", "report"} => ReportPicks \subseteq loose
      /\ me.kind = "click" /\ caller[c].kind = "click" /\ Pick(c) = Pick(d) => Pick(d) \in loose
  BY DEF Alone
<1>10. RowKnown(d)'
  <2> SUFFICES ASSUME me.kind \in {"pool", "report"}, me.todo # << >>, Pick(d) \notin loose'
               PROVE  /\ me.pc \in {"healed", "today", "hand", "confirm"} =>
                           rows'[Pick(d)].session = me.session
                      /\ me.pc = "today" => rows'[Pick(d)].status \in {"none", "dispatch_failed"}
                      /\ me.pc \in {"create", "open", "record"} => rows'[Pick(d)].session = None
                      /\ me.pc = "hand" /\ me.session \in sent' => me.session \in unlucky'
    BY DEF RowKnown, At, Pick
  <2>1. Pick(d) \notin loose
    BY DEF Grows
  <2>2. Pick(d) # Pick(c) \/ Pick(d) \notin PicksOf(caller[c].kind)
    BY <1>1, <1>2, <1>9, <2>1 DEF PicksOf
  <2>3. rows'[Pick(d)] = rows[Pick(d)]
    BY <1>1, <1>4, <2>2
  <2>4. me.pc = "hand" /\ me.session \in sent' => me.session \in sent
    BY <1>5, <1>7, <2>2
  <2> QED
    BY <2>1, <2>3, <2>4 DEF Knows, RowKnown, At, Grows
<1>11. StaleKnown(d)'
  <2> SUFFICES ASSUME NEW old \in me.stale, old[1] \notin loose'
               PROVE  rows'[old[1]].session = old[2]
    BY DEF StaleKnown
  <2>1. old[1] \in PoolPicks /\ old[1] \notin loose
    BY <1>0 DEF Grows
  <2>2. rows[old[1]].session = old[2]
    BY <2>1 DEF Knows, StaleKnown
  <2>3. me.kind = "pool" => rows'[old[1]] = rows[old[1]]
    BY <1>2, <1>4, <1>9, <2>1 DEF PicksOf
  <2>4. me.kind = "pool"
    BY <1>0 DEF CallerOK, StagesOf
  <2> QED
    BY <2>2, <2>3, <2>4
<1>12. NoRival(d)'
  <2> SUFFICES ASSUME me.kind = "report", me.pc \in {"create", "open", "record", "hand"},
                      Pick(d) \notin loose', NEW q \in Listed \ {Pick(d)},
                      Symbol(q) = Symbol(Pick(d))
               PROVE  rows'[q].status = "none"
    BY DEF NoRival, At, Pick
  <2>1. Pick(d) \notin loose /\ Pick(d) \in ReportPicks
    BY <1>0, <1>1 DEF CallerOK, Grows, PicksOf
  <2>2. rows[q].status = "none"
    BY <2>1 DEF Knows, NoRival, At
  <2> QED
    BY <1>8, <1>9, <2>1, <2>2
<1>13. ItemKnown(d)'
  <2> SUFFICES ASSUME me.kind = "click", Pick(d) \notin loose', NEW t \in sent',
                      made'[t] = Pick(d)
               PROVE  me.pc = "mark" /\ t = me.session
    BY DEF ItemKnown, At, Pick
  <2>1. Pick(d) \notin loose /\ Pick(d) \in Items
    <3>1. me.todo # << >>
      BY <1>0 DEF CallerOK, StagesOf
    <3> QED
      BY <1>1, <3>1 DEF Grows, PicksOf
  <2>2. CASE t \in sent
    <3>1. made[t] = Pick(d)
      BY <1>6, <2>2 DEF SentOK
    <3> QED
      BY <2>1, <2>2, <3>1 DEF Knows, ItemKnown, At
  <2>3. CASE t \notin sent
    <3>1. /\ made[t] = Pick(c) /\ Opened(t, Pick(c)) /\ Pick(c) \in PicksOf(caller[c].kind)
          /\ caller[c].kind \in {"pool", "report", "click"}
      BY <1>5, <2>3
    <3>2. Pick(c) = Pick(d)
      BY <1>6, <3>1
    <3> QED
      BY <1>2, <1>9, <2>1, <3>1, <3>2 DEF PicksOf
  <2> QED
    BY <2>2, <2>3
<1>14. HasRow(d)'
  <2> SUFFICES ASSUME me.kind \in {"pool", "report"}, me.pc \in {"today", "hand", "confirm"},
                      me.session # None
               PROVE  rows'[Pick(d)].status # "none"
    BY DEF HasRow, Pick
  <2>1. rows[Pick(d)].status # "none"
    BY DEF Knows, HasRow
  <2>2. Pick(d) \in Picks
    BY <1>0, <1>1 DEF CallerOK
  <2> QED
    BY <1>4, <2>1, <2>2
<1> QED
  BY <1>10, <1>11, <1>12, <1>13, <1>14 DEF Knows

LEMMA OnceStays ==
  ASSUME BatchesAssumption, WorkInv, OnceInv, WorkInv', NEW c \in Callers,
         OthersStay(c), Progress(c), OwnRow(c), Grows, KeepsSent(c), TellsFailures(c), OwnsOn(c),
         \A d \in Callers \ {c} : Alone(c, d)' /\ Alone(d, c)',
         Knows(c)', OwnStage(c)' => caller'[c].session \notin sent'
  PROVE  OnceInv'
<1>0. /\ \A a, b \in Callers : a # b => Alone(a, b)
      /\ FailuresKnown /\ \A t \in sent : SentOK(t)
      /\ sent \subseteq Sessions
      /\ \A d \in Callers : Knows(d)
      /\ \A d \in Callers : OwnStage(d) => caller[d].session \notin sent
      /\ \A d \in Callers \ {c} : caller'[d] = caller[d]
      /\ sent \subseteq sent' /\ unlucky \subseteq unlucky' /\ loose \subseteq loose'
      /\ BatchTypes /\ \A d \in Callers : CallerOK(d) /\ Apart(d)
      /\ BatchTypes'
  BY DEF OnceInv, OthersStay, Grows, WorkInv
<1>1. \A a, b \in Callers : a # b => Alone(a, b)'
  <2> SUFFICES ASSUME NEW a \in Callers \ {c}, NEW b \in Callers \ {c}, a # b
               PROVE  Alone(a, b)'
    OBVIOUS
  <2>1. Alone(a, b)
    BY <1>0
  <2> QED
    BY <1>0, <2>1 DEF Alone, Pick
<1>2. FailuresKnown'
  <2>1. ASSUME NEW s \in Sessions, sessions'[s] = "failed"
        PROVE  s \in unlucky'
    BY <1>0, <2>1 DEF FailuresKnown, Progress
  <2>2. ASSUME NEW p \in Picks, rows'[p].status \in {"failed", "dispatch_failed"}
        PROVE  rows'[p].session \in unlucky'
    BY <1>0, <2>2 DEF FailuresKnown, TellsFailures
  <2>3. ASSUME NEW d \in Callers, At(d, "healed")', caller'[d].found = "failed"
        PROVE  caller'[d].session \in unlucky'
    BY <1>0, <2>3 DEF FailuresKnown, TellsFailures, At
  <2> QED
    BY <2>1, <2>2, <2>3 DEF FailuresKnown
<1>3. ASSUME NEW t \in sent'
      PROVE  SentOK(t)'
  <2>1. CASE t \notin sent
    BY <1>3, <2>1 DEF KeepsSent
  <2>2. CASE t \in sent
    <3> DEFINE q == made[t]
    <3>1. /\ q \in Picks /\ Opened(t, q) /\ (q \in Listed => rows[q].status # "none")
          /\ (q \notin loose => InRow(t))
      BY <1>0, <2>2 DEF SentOK
    <3>2. Opened(t, q)' /\ made'[t] = q
      BY <3>1, OpenedStays
    <3>3. q \in Listed => rows'[q].status # "none"
      BY <3>1 DEF OwnRow
    <3>4. ASSUME q \notin loose'
          PROVE  rows'[q].session = t \/ \E d \in Callers : caller'[d].pc = "mark" /\ caller'[d].session = t
      <4>1. InRow(t)
        BY <1>0, <3>1, <3>4
      <4>2. CASE rows[q].session = t
        BY <2>2, <3>1, <3>4, <4>2 DEF KeepsSent
      <4>3. ASSUME NEW d \in Callers \ {c}, At(d, "mark"), caller[d].session = t
            PROVE  caller'[d].pc = "mark" /\ caller'[d].session = t
        BY <1>0, <4>3 DEF At
      <4>4. CASE At(c, "mark") /\ caller[c].session = t
        <5>1. Pick(c) = q
          BY <1>0, <4>4 DEF CallerOK, Opened, At
        <5> QED
          BY <3>4, <4>4, <5>1 DEF KeepsSent
      <4> QED
        BY <4>1, <4>2, <4>3, <4>4 DEF InRow
    <3> HIDE DEF q
    <3> QED
      BY <3>1, <3>2, <3>3, <3>4 DEF SentOK, InRow, At, Opened
  <2> QED
    BY <2>1, <2>2
<1>4. \A d \in Callers : Knows(d)'
  <2>1. ASSUME NEW d \in Callers \ {c}
        PROVE  Knows(d)'
    BY <1>0, OthersKnow
  <2> QED
    BY <2>1
<1>5. ASSUME NEW d \in Callers, OwnStage(d)'
      PROVE  caller'[d].session \notin sent'
  <2>1. CASE d # c
    <3>1. OwnStage(d) /\ caller'[d].session = caller[d].session
      BY <1>0, <1>5, <2>1 DEF OwnStage, At
    <3>2. caller[d].session \notin sent /\ caller[d].session # caller[c].session
      BY <1>0, <2>1, <3>1 DEF Apart, Known
    <3> QED
      BY <3>1, <3>2 DEF OwnRow
  <2> QED
    BY <1>5, <2>1
<1>6. sent' \subseteq Sessions
  <2>1. \A t \in sent' : t \in sent \/ t \in Sessions
    BY <1>0 DEF OwnRow, CallerOK, Opened, At
  <2> QED
    BY <1>0, <2>1
<1> QED
  BY <1>1, <1>2, <1>3, <1>4, <1>5, <1>6 DEF OnceInv

-----------------------------------------------------------------------------
(* The kinds of steps.                                                     *)

lineVars == <<posted, waiting, held, live>>

\* The caller has become another.
Becomes(c) == caller' = [caller EXCEPT ![c] = caller'[c]] /\ caller'[c] \in CallerType

\* A caller that goes on with its work, or ends it, meets nobody new.
LEMMA AloneStays ==
  ASSUME OnceInv, NEW c \in Callers, OthersStay(c), loose \subseteq loose',
         caller'[c].kind \in {caller[c].kind, "none"},
         caller'[c].kind = "click" => Pick(c)' = Pick(c)
  PROVE  \A d \in Callers \ {c} : Alone(c, d)' /\ Alone(d, c)'
<1> SUFFICES ASSUME NEW d \in Callers \ {c} PROVE Alone(c, d)' /\ Alone(d, c)'
  OBVIOUS
<1>1. Alone(c, d) /\ Alone(d, c) /\ caller'[d] = caller[d]
  BY DEF OnceInv, OthersStay
<1> QED
  BY <1>1 DEF Alone, Pick

\* Between two picks there is nothing to know.
LEMMA AtRest ==
  ASSUME NEW c \in Callers, caller'[c].pc \in {"idle", "look"}, caller'[c].stale = {},
         caller'[c].kind # "click"
  PROVE  Knows(c)' /\ ~OwnStage(c)'
BY DEF Knows, RowKnown, StaleKnown, NoRival, ItemKnown, HasRow, OwnStage, At

LEMMA BecomesTyped ==
  ASSUME BatchTypes, NEW c \in Callers, Becomes(c)
  PROVE  caller' \in [Callers -> CallerType] /\ OthersStay(c)
BY DEF BatchTypes, Becomes, OthersStay

\* A step of the caller that changes nothing but the caller.
LEMMA QuietStep ==
  ASSUME BatchesAssumption, HandOverInv, NEW c \in Callers, Becomes(c),
         UNCHANGED <<sessions, made, rows, lineVars, sent, unlucky>>,
         loose \subseteq loose',
         \A d \in Callers \ {c} : Alone(c, d)' /\ Alone(d, c)',
         CallerOK(c)', Learns(c), ~OwnStage(c)', caller'[c].pc \notin {"confirm", "mark"},
         At(c, "hand") => OwnStage(c),
         At(c, "mark") => Pick(c) \in loose',
         Knows(c)',
         At(c, "healed")' /\ caller'[c].found = "failed" => caller'[c].session \in unlucky'
  PROVE  HandOverInv'
<1>0. WorkInv /\ OnceInv /\ BatchTypes /\ OthersStay(c)
  BY BecomesTyped DEF HandOverInv, WorkInv
<1>1. BatchTypes'
  BY <1>0, BecomesTyped DEF BatchTypes, lineVars
<1>2. Progress(c) /\ Writes(c) /\ OwnsOn(c) /\ HandsOver(c)
  BY DEF Progress, Writes, OwnsOn, HandsOver
<1>3. InQueue' = InQueue /\ \A s \in InQueue' : Opened(s, made[s])'
  BY <1>0 DEF InQueue, WorkInv, Opened, lineVars
<1>4. WorkInv'
  BY <1>0, <1>1, <1>2, <1>3, WorkStays
<1>5. OwnRow(c) /\ Grows /\ KeepsSent(c) /\ TellsFailures(c)
  BY DEF OwnRow, Grows, KeepsSent, TellsFailures
<1>6. OnceInv'
  BY <1>0, <1>2, <1>4, <1>5, OnceStays
<1> QED
  BY <1>4, <1>6 DEF HandOverInv

\* A step of the caller that writes the row of its pick.
LEMMA WriteStep ==
  ASSUME BatchesAssumption, HandOverInv, NEW c \in Callers, Becomes(c),
         caller[c].todo # << >>, NEW row \in RowType, rows' = [rows EXCEPT ![Pick(c)] = row],
         UNCHANGED <<sessions, made, lineVars, sent, loose>>, unlucky \subseteq unlucky',
         caller'[c].kind \in {caller[c].kind, "none"}, caller'[c].kind # "click",
         CallerOK(c)', Learns(c), ~OwnStage(c)', caller'[c].pc \notin {"confirm", "mark"},
         (row.session = None) <=> (row.status \in {"none", "session_failed"}),
         row.session # None => Opened(row.session, Pick(c)),
         row.status = "analyzing" => Pick(c) \in Items,
         row.status # "none", row.session \in Known(c) \cup {None},
         row.status \in {"queued", "analyzing"} =>
            \/ sessions[row.session] \in Ends \/ row.session \in InQueue
            \/ caller'[c].pc = "hand" /\ caller'[c].session = row.session,
         At(c, "hand") => row.status \notin {"queued", "analyzing"},
         At(c, "mark") => row.session = caller[c].session,
         Pick(c) \notin loose => row.session = rows[Pick(c)].session
                                   \/ \A t \in sent : made[t] = Pick(c) => t = row.session,
         row.status \in {"failed", "dispatch_failed"} => row.session \in unlucky',
         Knows(c)', caller'[c].pc # "healed"
  PROVE  HandOverInv'
<1>p. PICK pick : pick = Pick(c)
  OBVIOUS
<1>0. WorkInv /\ OnceInv /\ BatchTypes /\ OthersStay(c) /\ CallerOK(c) /\ pick \in Picks
  BY <1>p, BecomesTyped, PickOf DEF HandOverInv, WorkInv
<1>1. rows' \in [Picks -> RowType] /\ rows'[pick] = row /\ \A q \in Picks \ {pick} : rows'[q] = rows[q]
  BY <1>p, <1>0 DEF BatchTypes
<1>2. BatchTypes'
  BY <1>0, <1>1, BecomesTyped DEF BatchTypes, lineVars
<1>3. Progress(c) /\ OwnsOn(c)
  BY DEF Progress, OwnsOn
<1>4. HandsOver(c)
  BY <1>p, <1>1 DEF HandsOver
<1>5. Writes(c)
  <2>1. RowOK(pick)'
    BY <1>p, <1>1 DEF RowOK, Opened
  <2>2. row.status \in {"queued", "analyzing"} => WorkedOn(rows[pick].session)'
    <3>1. InQueue' = InQueue
      BY DEF InQueue, lineVars
    <3>2. CASE sessions[row.session] \in Ends \/ row.session \in InQueue
      BY <1>1, <3>1, <3>2 DEF WorkedOn, Taken
    <3>3. CASE caller'[c].pc = "hand" /\ caller'[c].session = row.session
      BY <1>1, <3>3 DEF WorkedOn, At
    <3> QED
      BY <3>2, <3>3
  <2> QED
    BY <1>1, <2>1, <2>2 DEF Writes
<1>6. InQueue' = InQueue /\ \A s \in InQueue' : Opened(s, made[s])'
  BY <1>0 DEF InQueue, WorkInv, Opened, lineVars
<1>7. WorkInv'
  BY <1>0, <1>2, <1>3, <1>4, <1>5, <1>6, WorkStays
<1>8. OwnRow(c) /\ Grows /\ TellsFailures(c)
  BY <1>p, <1>1 DEF OwnRow, Grows, TellsFailures, At
<1>9. KeepsSent(c)
  BY <1>p, <1>1 DEF KeepsSent
<1>10. \A d \in Callers \ {c} : Alone(c, d)' /\ Alone(d, c)'
  BY <1>0, AloneStays
<1>11. OnceInv'
  BY <1>0, <1>3, <1>7, <1>8, <1>9, <1>10, OnceStays
<1> QED
  BY <1>7, <1>11 DEF HandOverInv

\* A step of the caller that hands its session over.
LEMMA HandStep ==
  ASSUME BatchesAssumption, HandOverInv, NEW c \in Callers, Becomes(c), At(c, "hand"),
         UNCHANGED <<sessions, made, rows, unlucky, loose>>,
         posted' \in Seq(Sessions), waiting' \in Seq(Sessions), held' \in Seq(Sessions),
         InQueue' = InQueue \cup {caller[c].session}, live' \subseteq Sessions,
         sent' = sent \cup {caller[c].session},
         caller'[c].kind \in {caller[c].kind, "none"},
         caller'[c].kind = "click" => /\ Pick(c)' = Pick(c) /\ caller'[c].pc = "mark"
                                      /\ caller'[c].session = caller[c].session,
         caller[c].kind = "click" => caller'[c].kind = "click",
         CallerOK(c)', Learns(c), ~OwnStage(c)', caller'[c].pc # "healed",
         caller'[c].pc \in {"confirm", "mark"} => caller'[c].session = caller[c].session,
         Knows(c)'
  PROVE  HandOverInv'
<1>p. PICK s, pick : s = caller[c].session /\ pick = Pick(c)
  OBVIOUS
<1>0. /\ WorkInv /\ OnceInv /\ BatchTypes /\ OthersStay(c) /\ CallerOK(c)
      /\ Opened(s, pick) /\ caller[c].todo # << >> /\ Knows(c)
  BY <1>p, BecomesTyped DEF HandOverInv, WorkInv, CallerOK, At, OnceInv
<1>1. BatchTypes'
  BY <1>p, <1>0, BecomesTyped DEF BatchTypes
<1>2. Progress(c) /\ Writes(c) /\ OwnsOn(c) /\ HandsOver(c)
  BY DEF Progress, Writes, OwnsOn, HandsOver
<1>3. \A t \in InQueue' : Opened(t, made[t])'
  BY <1>p, <1>0 DEF WorkInv, Opened
<1>4. caller'[c].pc \in {"confirm", "mark"} => Taken(caller[c].session)'
  BY DEF Taken
<1>5. WorkInv'
  BY <1>p, <1>0, <1>1, <1>2, <1>3, <1>4, WorkStays
<1>6. OwnRow(c) /\ Grows /\ TellsFailures(c)
  BY <1>p DEF OwnRow, Grows, TellsFailures, At
<1>7. KeepsSent(c)
  <2>1. SentOK(s)'
    <3>1. Opened(s, made[s])' /\ made'[s] = pick /\ pick \in Picks
      <4>1. sessions' = sessions /\ made' = made
        OBVIOUS
      <4> QED
        BY <1>p, <1>0, <4>1, PickOf DEF Opened
    <3>2. pick \in PicksOf(caller[c].kind) /\ caller[c].kind \in {"pool", "report", "click"}
      BY <1>p, <1>0, PickOf
    <3>3. CASE caller[c].kind \in {"pool", "report"}
      <4>1. rows[pick].status # "none"
        BY <1>p, <1>0, <3>3, NoneIsNoSession DEF Knows, HasRow, At, Opened
      <4>2. pick \notin loose => rows[pick].session = s
        BY <1>p, <1>0, <3>3 DEF Knows, RowKnown, At
      <4> QED
        BY <1>p, <3>1, <4>1, <4>2 DEF SentOK, InRow
    <3>4. CASE caller[c].kind = "click"
      <4>1. pick \notin Listed
        BY <1>p, <3>2, <3>4, SourcesApart DEF PicksOf
      <4>2. caller'[c].pc = "mark" /\ caller'[c].session = s
        BY <1>p, <3>4
      <4> QED
        BY <1>p, <3>1, <4>1, <4>2 DEF SentOK, InRow, At
    <3> QED
      BY <1>p, <3>2, <3>3, <3>4
  <2> QED
    BY <1>p, <2>1 DEF KeepsSent, At
<1>8. \A d \in Callers \ {c} : Alone(c, d)' /\ Alone(d, c)'
  BY <1>p, <1>0, AloneStays
<1>9. OnceInv'
  BY <1>p, <1>0, <1>2, <1>5, <1>6, <1>7, <1>8, OnceStays
<1> QED
  BY <1>5, <1>9 DEF HandOverInv

\* A step of the caller with a session of its own.
LEMMA OwnStep ==
  ASSUME BatchesAssumption, HandOverInv, NEW c \in Callers, Becomes(c),
         UNCHANGED <<rows, lineVars, history>>, Progress(c), OwnsOn(c), Learns(c),
         sessions' \in [Sessions -> SessionStates],
         DOMAIN made' = Sessions /\ made' = [s \in Sessions |-> made'[s]],
         CallerOK(c)', caller[c].pc \in {"create", "open"},
         caller'[c].pc \in {"open", "record", "hand"},
         caller'[c].kind = caller[c].kind, Pick(c)' = Pick(c),
         Knows(c)', caller'[c].session \notin sent
  PROVE  HandOverInv'
<1>0. WorkInv /\ OnceInv /\ BatchTypes /\ OthersStay(c)
  BY BecomesTyped DEF HandOverInv, WorkInv
<1>1. BatchTypes'
  BY <1>0, BecomesTyped DEF BatchTypes, lineVars
<1>2. Writes(c) /\ HandsOver(c)
  BY DEF Writes, HandsOver, At
<1>3. InQueue' = InQueue
  BY DEF InQueue, lineVars
<1>4. ASSUME NEW s \in InQueue'
      PROVE  Opened(s, made[s])'
  <2>1. Opened(s, made[s])
    BY <1>0, <1>3, <1>4 DEF WorkInv
  <2>2. sessions'[s] = sessions[s] /\ made'[s] = made[s]
    BY <2>1, OpenedStays
  <2> QED
    BY <2>1, <2>2 DEF Opened
<1>5. WorkInv'
  BY <1>0, <1>1, <1>2, <1>3, <1>4, WorkStays
<1>6. OwnRow(c) /\ Grows /\ KeepsSent(c) /\ TellsFailures(c)
  BY DEF OwnRow, Grows, KeepsSent, TellsFailures, history, At
<1>7. \A d \in Callers \ {c} : Alone(c, d)' /\ Alone(d, c)'
  BY <1>0, AloneStays DEF history
<1>8. sent' = sent
  BY DEF history
<1>9. OnceInv'
  BY <1>0, <1>5, <1>6, <1>7, <1>8, OnceStays
<1> QED
  BY <1>5, <1>9 DEF HandOverInv

-----------------------------------------------------------------------------
(* What a caller becomes.                                                  *)

LEMMA CallerTyped ==
  ASSUME BatchTypes, NEW c \in Callers
  PROVE  /\ caller[c] \in CallerType /\ c \in DOMAIN caller
         /\ caller[c].kind \in {"none", "pool", "report", "click"} /\ caller[c].pc \in Stages
         /\ caller[c].todo \in Seq(Picks) /\ caller[c].session \in MaybeSession
         /\ caller[c].stale \subseteq PoolPicks \X Sessions
         /\ caller[c].found \in {"none"} \cup Ends
         /\ caller[c].used \in Nat /\ caller[c].done \subseteq Picks
BY DEF BatchTypes, CallerType

LEMMA IdleOK ==
  ASSUME BatchTypes, NEW c \in Callers, Become(c, Idle)
  PROVE  /\ Becomes(c) /\ CallerOK(c)' /\ Learns(c) /\ ~OwnStage(c)' /\ Knows(c)'
         /\ caller'[c].kind = "none" /\ caller'[c].pc = "idle"
<1>1. Idle \in CallerType
  BY DEF Idle, CallerType, Stages, MaybeSession, None, Ends
<1>2. caller' = [caller EXCEPT ![c] = caller'[c]] /\ caller'[c] = Idle
  BY CallerTyped DEF Become
<1>3. CallerOK(c)'
  <2>1. caller'[c].pc \in StagesOf(caller'[c].kind) /\ Elements(caller'[c].todo) \subseteq PicksOf(caller'[c].kind)
    BY <1>2, SmallLists DEF Idle, StagesOf, PicksOf
  <2> QED
    BY <1>2, <2>1 DEF CallerOK, Idle, At
<1>4. Knows(c)' /\ ~OwnStage(c)'
  BY <1>2, AtRest DEF Idle
<1> QED
  BY <1>1, <1>2, <1>3, <1>4 DEF Becomes, Learns, Known, Idle

\* On with the next pick.
LEMMA PassedOK ==
  ASSUME BatchTypes, NEW c \in Callers, CallerOK(c),
         caller[c].kind \in {"pool", "report"}, caller[c].todo # << >>,
         caller[c].pc \notin {"heal", "healed"},
         \/ Pass(c)
         \/ Become(c, [Passed(caller[c]) EXCEPT !.done = @ \cup {Pick(c)}])
  PROVE  /\ Becomes(c) /\ CallerOK(c)' /\ Learns(c) /\ ~OwnStage(c)' /\ Knows(c)'
         /\ caller'[c].kind = caller[c].kind /\ caller'[c].pc = "look"
<1> DEFINE me == caller[c]
           new == caller'[c]
<1>0. /\ me \in CallerType /\ me.todo \in Seq(Picks) /\ me.done \subseteq Picks
      /\ me.pc \in Stages /\ me.session \in MaybeSession
      /\ Pick(c) \in Picks
  BY CallerTyped, PickOf
<1>1. /\ Tail(me.todo) \in Seq(Picks)
      /\ Elements(Tail(me.todo)) \subseteq Elements(me.todo)
  BY <1>0, TailElements
<1>2. /\ caller' = [caller EXCEPT ![c] = new]
      /\ new = Passed(me) \/ new = [Passed(me) EXCEPT !.done = @ \cup {Pick(c)}]
  BY CallerTyped DEF Become, Pass
<1>3. new \in CallerType
  <2>1. Passed(me) \in CallerType
    BY <1>0, <1>1 DEF Passed, CallerType, Stages, MaybeSession
  <2>2. Passed(me).done = me.done
    BY <1>0 DEF Passed, CallerType
  <2> HIDE DEF new, me
  <2>3. [Passed(me) EXCEPT !.done = @ \cup {Pick(c)}] \in CallerType
    BY <1>0, <2>1, <2>2 DEF CallerType
  <2> QED
    BY <1>2, <2>1, <2>3
<1>4. /\ new.kind = me.kind /\ new.pc = "look" /\ new.todo = Tail(me.todo) /\ new.session = None
      /\ new.stale = me.stale /\ new.found = me.found
  BY <1>0, <1>2 DEF Passed, CallerType
<1>5. me.stale = {}
  BY DEF CallerOK
<1>6. CallerOK(c)'
  <2>1. new.pc \in StagesOf(new.kind) /\ Elements(new.todo) \subseteq PicksOf(new.kind)
    BY <1>1, <1>4 DEF CallerOK, StagesOf
  <2> HIDE DEF new, me
  <2> QED
    BY <1>4, <1>5, <2>1 DEF CallerOK, At, new, me
<1>7. Knows(c)' /\ ~OwnStage(c)'
  BY <1>4, <1>5, AtRest
<1>8. Learns(c)
  BY <1>4, <1>5 DEF Learns, Known
<1> QED
  BY <1>2, <1>3, <1>4, <1>6, <1>7, <1>8 DEF Becomes

-----------------------------------------------------------------------------
(* The steps.                                                              *)

LEMMA RestStep ==
  ASSUME BatchesAssumption, HandOverInv, NEW c \in Callers,
         \/ Become(c, Idle)
         \/ /\ caller[c].kind \in {"pool", "report"} /\ caller[c].todo # << >>
            /\ caller[c].pc \notin {"heal", "healed"} /\ Pass(c),
         UNCHANGED <<sessions, made, rows, lineVars, sent, unlucky>>,
         loose \subseteq loose',
         At(c, "hand") => OwnStage(c),
         At(c, "mark") => Pick(c) \in loose'
  PROVE  HandOverInv'
<1>0. BatchTypes /\ CallerOK(c) /\ OnceInv
  BY DEF HandOverInv, WorkInv
<1>1. /\ Becomes(c) /\ CallerOK(c)' /\ Learns(c) /\ ~OwnStage(c)' /\ Knows(c)'
      /\ caller'[c].kind \in {"none", "pool", "report"} /\ caller'[c].kind \in {caller[c].kind, "none"}
      /\ caller'[c].pc \in {"idle", "look"}
  BY <1>0, IdleOK, PassedOK
<1>2. \A d \in Callers \ {c} : Alone(c, d)' /\ Alone(d, c)'
  BY <1>0, <1>1, AloneStays, BecomesTyped
<1> QED
  BY <1>1, <1>2, QuietStep DEF At

\* What is known before a step of the caller.
LEMMA Before ==
  ASSUME HandOverInv, NEW c \in Callers
  PROVE  /\ BatchTypes /\ WorkInv /\ OnceInv /\ CallerOK(c) /\ Apart(c) /\ Knows(c)
         /\ \A p \in Picks : RowOK(p) /\ rows[p] \in RowType
         /\ caller[c] \in CallerType /\ c \in DOMAIN caller
         /\ caller[c].kind \in {"none", "pool", "report", "click"} /\ caller[c].pc \in Stages
         /\ caller[c].todo \in Seq(Picks) /\ caller[c].session \in MaybeSession
         /\ caller[c].stale \subseteq PoolPicks \X Sessions
         /\ caller[c].found \in {"none"} \cup Ends
         /\ caller[c].used \in Nat /\ caller[c].done \subseteq Picks
         /\ (caller[c].todo # << >> =>
                Pick(c) \in PicksOf(caller[c].kind) /\ Pick(c) \in Picks)
BY CallerTyped, PickOf DEF HandOverInv, WorkInv, OnceInv, BatchTypes

LEMMA LeaveOutStep ==
  ASSUME BatchesAssumption, HandOverInv, NEW c \in Callers, LeaveOut(c)
  PROVE  HandOverInv'
<1>1. caller[c].kind \in {"pool", "report"}
  BY Before DEF LeaveOut, CallerOK, At, StagesOf
<1> QED
  BY <1>1, RestStep DEF LeaveOut, At, placeVars, history, lineVars

LEMMA FinishStep ==
  ASSUME BatchesAssumption, HandOverInv, NEW c \in Callers, Finish(c)
  PROVE  HandOverInv'
BY RestStep DEF Finish, At, placeVars, history, lineVars

LEMMA RecordFailsStep ==
  ASSUME BatchesAssumption, HandOverInv, NEW c \in Callers, RecordFails(c)
  PROVE  HandOverInv'
<1>1. loose \subseteq loose' /\ (At(c, "mark") => Pick(c) \in loose') /\ ~At(c, "hand")
  BY DEF RecordFails, At
<1> QED
  BY <1>1, RestStep DEF RecordFails, placeVars, history, lineVars

\* A pick is taken up, with the session of its row if it has one.
LEMMA TakeOK ==
  ASSUME BatchesAssumption, HandOverInv, NEW c \in Callers,
         caller[c].kind \in {"pool", "report"}, caller[c].todo # << >>,
         caller[c].pc \in {"look", "today"},
         NEW session, Take(c, session), session = rows[Pick(c)].session \/ Pick(c) \in loose,
         session # None => Opened(session, Pick(c)) /\ rows[Pick(c)].status # "none",
         session = rows[Pick(c)].session \/ session = caller[c].session,
         Pick(c) \notin loose => rows[Pick(c)].status \notin {"queued", "completed"},
         caller[c].kind = "report" /\ Pick(c) \notin loose =>
            \A q \in Listed \ {Pick(c)} : Symbol(q) = Symbol(Pick(c)) => rows[q].status = "none",
         UNCHANGED <<sessions, made, rows, lineVars, sent, unlucky, loose>>
  PROVE  HandOverInv'
<1> DEFINE me == caller[c]
           new == caller'[c]
<1>0. /\ BatchTypes /\ WorkInv /\ OnceInv /\ CallerOK(c) /\ Knows(c) /\ me \in CallerType /\ c \in DOMAIN caller
      /\ me.pc \in Stages /\ Pick(c) \in Picks /\ Pick(c) \in PicksOf(me.kind)
      /\ RowOK(Pick(c)) /\ rows[Pick(c)] \in RowType
  BY Before
<1>1. session \in MaybeSession
  BY DEF MaybeSession, Opened
<1>2. /\ caller' = [caller EXCEPT ![c] = new]
      /\ new = [me EXCEPT !.session = session, !.pc = IF session = None THEN "create" ELSE "hand"]
  BY <1>0 DEF Become, Take
<1>3. new \in CallerType
  BY <1>0, <1>1, <1>2 DEF CallerType, Stages
<1>4. /\ new.kind = me.kind /\ new.pc = (IF session = None THEN "create" ELSE "hand")
      /\ new.todo = me.todo /\ new.session = session
      /\ new.stale = me.stale /\ Pick(c)' = Pick(c)
  BY <1>0, <1>2 DEF CallerType, Pick
<1>5. me.stale = {}
  BY DEF CallerOK, HandOverInv, WorkInv
<1>6. CallerOK(c)'
  <2>1. new.pc \in StagesOf(new.kind) /\ Elements(new.todo) \subseteq PicksOf(new.kind)
    BY <1>0, <1>4 DEF CallerOK, StagesOf
  <2>2. session # None => Opened(session, Pick(c))'
    BY <1>4 DEF Opened
  <2> HIDE DEF new, me
  <2> QED
    BY <1>4, <1>5, <2>1, <2>2 DEF CallerOK, At, new, me, Opened
<1>7. Learns(c)
  BY <1>0, <1>4, <1>5 DEF Learns, Known
<1>8. ~OwnStage(c)'
  BY <1>4 DEF OwnStage, At
<1>9. Knows(c)'
  <2>1. RowKnown(c)'
    <3> SUFFICES ASSUME Pick(c) \notin loose
                 PROVE  /\ rows[Pick(c)].session = session
                        /\ session # None /\ session \in sent => session \in unlucky
      BY <1>4 DEF RowKnown, At
    <3>1. rows[Pick(c)].session = session
      OBVIOUS
    <3>2. ASSUME session # None
          PROVE  session \in unlucky
      <4>1. rows[Pick(c)].status \in {"failed", "dispatch_failed"}
        <5>1. Pick(c) \notin Items
          BY <1>0, SourcesApart DEF PicksOf
        <5> QED
          BY <1>0, <3>1, <3>2, <5>1 DEF RowOK, RowType, RowStates
      <4> QED
        BY <1>0, <3>1, <4>1 DEF OnceInv, FailuresKnown
    <3> QED
      BY <3>1, <3>2
  <2>2. StaleKnown(c)' /\ ItemKnown(c)'
    BY <1>4, <1>5 DEF StaleKnown, ItemKnown
  <2>3. NoRival(c)'
    BY <1>4 DEF NoRival
  <2>4. HasRow(c)'
    BY <1>4 DEF HasRow
  <2> QED
    BY <2>1, <2>2, <2>3, <2>4 DEF Knows
<1>10. Becomes(c)
  BY <1>2, <1>3 DEF Becomes
<1>11. \A d \in Callers \ {c} : Alone(c, d)' /\ Alone(d, c)'
  BY <1>0, <1>4, <1>10, AloneStays, BecomesTyped
<1> QED
  BY <1>4, <1>6, <1>7, <1>8, <1>9, <1>10, <1>11, QuietStep DEF At

LEMMA LookPoolStep ==
  ASSUME BatchesAssumption, HandOverInv, NEW c \in Callers, LookPool(c)
  PROVE  HandOverInv'
<1>1. /\ caller[c].kind = "pool" /\ caller[c].pc = "look" /\ caller[c].todo # << >>
      /\ UNCHANGED <<sessions, made, rows, lineVars, sent, unlucky, loose>>
  BY DEF LookPool, At, placeVars, history, lineVars
<1>2. CASE Settled(rows[Pick(c)])
  BY <1>1, <1>2, RestStep DEF LookPool, At
<1>3. CASE ~Settled(rows[Pick(c)])
  <2> DEFINE session == rows[Pick(c)].session
  <2>1. Take(c, session)
    BY <1>3 DEF LookPool
  <2>2. RowOK(Pick(c))
    BY <1>1, Before
  <2>3. session # None => Opened(session, Pick(c)) /\ rows[Pick(c)].status # "none"
    BY <2>2 DEF RowOK
  <2> HIDE DEF session
  <2> QED
    BY <1>1, <1>3, <2>1, <2>3, TakeOK DEF Settled, session
<1> QED
  BY <1>2, <1>3

LEMMA LookTodayStep ==
  ASSUME BatchesAssumption, HandOverInv, NEW c \in Callers, LookToday(c)
  PROVE  HandOverInv'
<1> DEFINE session == caller[c].session
<1>0. Knows(c) /\ CallerOK(c) /\ caller[c].pc = "today"
  BY Before DEF LookToday, At
<1>1. /\ caller[c].kind = "report" /\ caller[c].todo # << >>
      /\ UNCHANGED <<sessions, made, rows, lineVars, sent, unlucky, loose>>
  BY <1>0, Before DEF LookToday, At, placeVars, history, lineVars, CallerOK, StagesOf
<1>2. CASE Pass(c)
  BY <1>0, <1>1, <1>2, RestStep DEF At
<1>3. CASE ~AlreadyToday(Pick(c)) /\ Take(c, session)
  <2>1. Pick(c) \notin loose => /\ session = rows[Pick(c)].session
                                /\ rows[Pick(c)].status \in {"none", "dispatch_failed"}
    BY <1>0, <1>1 DEF Knows, RowKnown, At
  <2>2. session # None => Opened(session, Pick(c)) /\ rows[Pick(c)].status # "none"
    BY <1>0, <1>1 DEF Knows, HasRow, CallerOK, At
  <2>3. \A q \in Listed \ {Pick(c)} : Symbol(q) = Symbol(Pick(c)) => rows[q].status = "none"
    BY <1>3 DEF AlreadyToday
  <2> HIDE DEF session
  <2> QED
    BY <1>0, <1>1, <1>3, <2>1, <2>2, <2>3, TakeOK DEF session
<1> QED
  BY <1>2, <1>3 DEF LookToday

LEMMA LookReportStep ==
  ASSUME BatchesAssumption, HandOverInv, NEW c \in Callers, LookReport(c)
  PROVE  HandOverInv'
<1> DEFINE me == caller[c]
           new == caller'[c]
<1>0. /\ OnceInv /\ CallerOK(c) /\ me \in CallerType /\ c \in DOMAIN caller /\ BatchTypes
      /\ me.kind = "report" /\ me.pc = "look" /\ me.todo # << >>
      /\ Pick(c) \in Picks /\ Pick(c) \in PicksOf(me.kind)
      /\ RowOK(Pick(c)) /\ rows[Pick(c)] \in RowType
      /\ UNCHANGED <<sessions, made, rows, lineVars, sent, unlucky, loose>>
  BY Before DEF LookReport, At, placeVars, history, lineVars
<1>1. CASE Pass(c)
  BY <1>0, <1>1, RestStep DEF At
<1>2. ASSUME rows[Pick(c)].status \in {"none", "dispatch_failed"},
             Become(c, [me EXCEPT !.pc = "today", !.session = rows[Pick(c)].session])
      PROVE  HandOverInv'
  <2>1. /\ caller' = [caller EXCEPT ![c] = new]
        /\ new = [me EXCEPT !.pc = "today", !.session = rows[Pick(c)].session]
    BY <1>0, <1>2 DEF Become
  <2>2. rows[Pick(c)].session \in MaybeSession
    BY <1>0 DEF RowType
  <2>3. new \in CallerType
    BY <1>0, <2>1, <2>2 DEF CallerType, Stages
  <2>4. /\ new.kind = "report" /\ new.pc = "today" /\ new.todo = me.todo
        /\ new.session = rows[Pick(c)].session /\ new.stale = me.stale /\ Pick(c)' = Pick(c)
    BY <1>0, <2>1 DEF CallerType, Pick
  <2>5. me.stale = {}
    BY <1>0 DEF CallerOK
  <2>6. CallerOK(c)'
    <3>1. new.pc \in StagesOf(new.kind) /\ Elements(new.todo) \subseteq PicksOf(new.kind)
      BY <1>0, <2>4 DEF CallerOK, StagesOf
    <3>2. new.session # None => Opened(new.session, Pick(c))
      BY <1>0, <2>4 DEF RowOK
    <3>3. sessions' = sessions /\ made' = made /\ me.todo # << >>
      BY <1>0
    <3> HIDE DEF new, me
    <3> QED
      BY <2>4, <2>5, <3>1, <3>2, <3>3 DEF CallerOK, At, new, Opened
  <2>7. Knows(c)'
    BY <1>0, <1>2, <2>4, <2>5 DEF Knows, RowKnown, StaleKnown, NoRival, ItemKnown, HasRow, At, RowOK
  <2>8. Becomes(c) /\ Learns(c) /\ ~OwnStage(c)'
    BY <1>0, <2>1, <2>3, <2>4, <2>5 DEF Becomes, Learns, Known, OwnStage, At
  <2>9. \A d \in Callers \ {c} : Alone(c, d)' /\ Alone(d, c)'
    BY <1>0, <2>4, <2>8, AloneStays, BecomesTyped
  <2> QED
    BY <1>0, <2>4, <2>6, <2>7, <2>8, <2>9, QuietStep DEF At
<1> QED
  BY <1>1, <1>2 DEF LookReport

LEMMA HealReadStep ==
  ASSUME BatchesAssumption, HandOverInv, NEW c \in Callers, HealRead(c)
  PROVE  HandOverInv'
<1> DEFINE me == caller[c]
           new == caller'[c]
<1>0. /\ OnceInv /\ CallerOK(c) /\ me \in CallerType /\ c \in DOMAIN caller /\ BatchTypes
      /\ me.pc = "heal" /\ me.stale \subseteq PoolPicks \X Sessions /\ Knows(c)
      /\ me.kind \in {"none", "pool", "report", "click"}
      /\ UNCHANGED <<sessions, made, rows, lineVars, sent, unlucky, loose>>
      /\ sessions \in [Sessions -> SessionStates]
  BY Before DEF HealRead, At, placeVars, history, lineVars, BatchTypes
<1>1. me.kind = "pool"
  BY <1>0 DEF CallerOK, StagesOf
<1>2. PICK old \in me.stale :
          Become(c, IF sessions[old[2]] \in Ends
                    THEN [[me EXCEPT !.stale = @ \ {old}] EXCEPT
                             !.pc = "healed", !.todo = <<old[1]>>,
                             !.session = old[2], !.found = sessions[old[2]]]
                    ELSE [me EXCEPT !.stale = @ \ {old}])
  BY DEF HealRead
<1>3. /\ old[1] \in PoolPicks /\ old[2] \in Sessions /\ Opened(old[2], old[1])
      /\ old[1] \in Picks
  BY <1>0, SourcesApart DEF CallerOK
<1>4. /\ caller' = [caller EXCEPT ![c] = new]
      /\ new = IF sessions[old[2]] \in Ends
               THEN [[me EXCEPT !.stale = @ \ {old}] EXCEPT
                        !.pc = "healed", !.todo = <<old[1]>>,
                        !.session = old[2], !.found = sessions[old[2]]]
               ELSE [me EXCEPT !.stale = @ \ {old}]
  BY <1>0, <1>2 DEF Become
<1>5. /\ <<old[1]>> \in Seq(Picks) /\ Elements(<<old[1]>>) = {old[1]}
      /\ Head(<<old[1]>>) = old[1] /\ <<old[1]>> # << >>
  BY <1>3, SmallLists
<1> DEFINE next == [me EXCEPT !.stale = @ \ {old}]
<1>8. /\ next \in CallerType /\ next.kind = me.kind /\ next.pc = me.pc /\ next.todo = me.todo
      /\ next.session = me.session /\ next.found = me.found /\ next.stale = me.stale \ {old}
  BY <1>0 DEF CallerType
<1>6. CASE sessions[old[2]] \in Ends
  <2>1. /\ new.kind = "pool" /\ new.pc = "healed" /\ new.todo = <<old[1]>>
        /\ new.session = old[2] /\ new.found = sessions[old[2]] /\ new.stale = me.stale \ {old}
    BY <1>0, <1>1, <1>4, <1>6 DEF CallerType
  <2>2. new \in CallerType
    <3>1. new = [next EXCEPT !.pc = "healed", !.todo = <<old[1]>>,
                             !.session = old[2], !.found = sessions[old[2]]]
      BY <1>4, <1>6
    <3> HIDE DEF new, next, me
    <3> QED
      BY <1>3, <1>5, <1>6, <1>8, <3>1 DEF CallerType, Stages, MaybeSession
  <2>3. Pick(c)' = old[1]
    BY <1>5, <2>1 DEF Pick
  <2>4. CallerOK(c)'
    <3>1. new.pc \in StagesOf(new.kind) /\ Elements(new.todo) \subseteq PicksOf(new.kind)
      BY <1>3, <1>5, <2>1 DEF StagesOf, PicksOf
    <3>2. \A o \in new.stale : Opened(o[2], o[1])
      BY <1>0, <2>1 DEF CallerOK
    <3>3. sessions' = sessions /\ made' = made
      BY <1>0
    <3> HIDE DEF new, me
    <3> QED
      BY <1>3, <1>5, <1>6, <2>1, <2>3, <3>1, <3>2, <3>3 DEF CallerOK, At, new, Opened
  <2>5. Knows(c)'
    <3>1. old[1] \notin loose => rows[old[1]].session = old[2]
      BY <1>0 DEF Knows, StaleKnown
    <3>2. StaleKnown(c)'
      BY <1>0, <2>1 DEF Knows, StaleKnown
    <3>3. RowKnown(c)'
      BY <1>0, <2>1, <2>3, <3>1 DEF RowKnown, At
    <3> QED
      BY <2>1, <3>2, <3>3 DEF Knows, NoRival, ItemKnown, HasRow
  <2>6. Becomes(c) /\ Learns(c) /\ ~OwnStage(c)'
    <3>1. old[2] \in Known(c)
      BY DEF Known
    <3> QED
      BY <1>4, <2>1, <2>2, <3>1 DEF Becomes, Learns, Known, OwnStage, At
  <2>7. \A d \in Callers \ {c} : Alone(c, d)' /\ Alone(d, c)'
    BY <1>0, <1>1, <2>1, <2>6, AloneStays, BecomesTyped
  <2>8. new.found = "failed" => new.session \in unlucky
    BY <1>0, <1>3, <2>1 DEF OnceInv, FailuresKnown
  <2> QED
    BY <1>0, <2>1, <2>4, <2>5, <2>6, <2>7, <2>8, QuietStep DEF At
<1>7. CASE sessions[old[2]] \notin Ends
  <2>1. /\ new.kind = "pool" /\ new.pc = "heal" /\ new.todo = me.todo
        /\ new.session = me.session /\ new.found = me.found /\ new.stale = me.stale \ {old}
        /\ new \in CallerType
    <3>1. new = next
      BY <1>4, <1>7
    <3> HIDE DEF new, next, me
    <3> QED
      BY <1>0, <1>1, <1>8, <3>1
  <2>4. CallerOK(c)'
    <3>1. \A o \in new.stale : Opened(o[2], o[1])
      BY <1>0, <2>1 DEF CallerOK
    <3>2. sessions' = sessions /\ made' = made
      BY <1>0
    <3>3. CallerOK(c)
      BY <1>0
    <3> QED
      BY <1>0, <1>1, <2>1, <3>1, <3>2, <3>3 DEF CallerOK, At, Opened
  <2>5. Knows(c)'
    <3>1. StaleKnown(c)'
      BY <1>0, <2>1 DEF Knows, StaleKnown
    <3> QED
      BY <2>1, <3>1 DEF Knows, RowKnown, NoRival, ItemKnown, HasRow, At
  <2>6. Becomes(c) /\ Learns(c) /\ ~OwnStage(c)'
    BY <1>4, <2>1 DEF Becomes, Learns, Known, OwnStage, At
  <2>7. \A d \in Callers \ {c} : Alone(c, d)' /\ Alone(d, c)'
    BY <1>0, <1>1, <2>1, <2>6, AloneStays, BecomesTyped
  <2> QED
    BY <1>0, <2>1, <2>4, <2>5, <2>6, <2>7, QuietStep DEF At
<1> QED
  BY <1>6, <1>7

\* A batch begins or goes on with a list.
LEMMA ListTaken ==
  ASSUME NEW c \in Callers, NEW kind \in {"pool", "report"}, Becomes(c),
         Elements(caller'[c].todo) \subseteq PicksOf(kind),
         caller'[c].kind = kind, caller'[c].pc = "look", caller'[c].session = None,
         caller'[c].stale = {}
  PROVE  CallerOK(c)' /\ Learns(c) /\ ~OwnStage(c)' /\ Knows(c)'
<1>1. CallerOK(c)'
  <2>1. caller'[c].pc \in StagesOf(caller'[c].kind)
    BY DEF StagesOf
  <2> QED
    BY <2>1 DEF CallerOK, At
<1>2. Knows(c)' /\ ~OwnStage(c)'
  BY AtRest
<1> QED
  BY <1>1, <1>2 DEF Learns, Known

LEMMA ReadPoolStep ==
  ASSUME BatchesAssumption, HandOverInv, NEW c \in Callers, ReadPool(c)
  PROVE  HandOverInv'
<1>0. /\ OnceInv /\ CallerOK(c) /\ BatchTypes /\ caller[c].pc \in {"heal", "healed"}
      /\ caller[c].kind \in {"none", "pool", "report", "click"}
      /\ UNCHANGED <<sessions, made, rows, lineVars, sent, unlucky, loose>>
  BY Before DEF ReadPool, At, placeVars, history, lineVars
<1>1. caller[c].kind = "pool"
  BY <1>0 DEF CallerOK, StagesOf
<1>2. Become(c, [Idle EXCEPT !.kind = "pool", !.pc = "look", !.todo = PoolList])
  BY DEF ReadPool
<1>3. PoolList \in Seq(Picks) /\ Elements(PoolList) \subseteq PicksOf("pool")
  BY SourcesApart DEF PicksOf
<1>4. /\ Becomes(c) /\ CallerOK(c)' /\ Learns(c) /\ ~OwnStage(c)' /\ Knows(c)'
      /\ caller'[c].kind = "pool" /\ caller'[c].pc = "look"
  <2> DEFINE new == [Idle EXCEPT !.kind = "pool", !.pc = "look", !.todo = PoolList]
  <2>1. new \in CallerType
    BY <1>3 DEF Idle, CallerType, Stages, MaybeSession, Ends
  <2>2. new.kind = "pool" /\ new.pc = "look" /\ new.todo = PoolList /\ new.session = None /\ new.stale = {}
    BY DEF Idle
  <2>3. caller' = [caller EXCEPT ![c] = caller'[c]] /\ caller'[c] = new
    BY <1>0, <1>2, CallerTyped DEF Become
  <2> HIDE DEF new
  <2>4. Becomes(c)
    BY <2>1, <2>3 DEF Becomes
  <2> QED
    BY <1>3, <2>2, <2>3, <2>4, ListTaken
<1>5. \A d \in Callers \ {c} : Alone(c, d)' /\ Alone(d, c)'
  BY <1>0, <1>1, <1>4, AloneStays, BecomesTyped
<1> QED
  BY <1>0, <1>4, <1>5, QuietStep DEF At

\* A list names finitely many picks.
LEMMA ListIsFinite ==
  ASSUME NEW S, NEW list \in Seq(S)
  PROVE  IsFiniteSet(Elements(list))
<1> DEFINE f == [i \in 1 .. Len(list) |-> list[i]]
<1>1. DOMAIN list = 1 .. Len(list) /\ Len(list) \in Nat
  OBVIOUS
<1>2. f \in Surjection(1 .. Len(list), Elements(list))
  BY <1>1 DEF Surjection, Elements
<1>3. IsFiniteSet(1 .. Len(list))
  BY <1>1, FS_Interval
<1> QED
  BY <1>2, <1>3, FS_Surjection

LEMMA UsedIsNumber == BatchesAssumption => Used \in Nat
<1> SUFFICES ASSUME BatchesAssumption PROVE Used \in Nat
  OBVIOUS
<1> DEFINE rowed == {p \in Listed : rows[p].status # "none"}
<1>1. IsFiniteSet(PoolPicks) /\ IsFiniteSet(ReportPicks)
  BY ListIsFinite, SourcesApart
<1>2. IsFiniteSet(Listed)
  BY <1>1, FS_Union DEF Listed
<1>3. rowed \subseteq Listed
  OBVIOUS
<1>4. IsFiniteSet(rowed)
  BY <1>2, <1>3, FS_Subset
<1> QED
  BY <1>4, FS_CardinalityType DEF Used

\* Whoever begins a batch makes the picks of the ones that go on loose.
LEMMA UpsetIsLoose ==
  ASSUME OnceInv, NEW c \in Callers, OthersStay(c), NEW kind \in {"pool", "report"},
         caller'[c].kind = kind, loose' = loose \cup Upset(c, kind)
  PROVE  \A d \in Callers \ {c} : Alone(c, d)' /\ Alone(d, c)'
<1> SUFFICES ASSUME NEW d \in Callers \ {c} PROVE Alone(c, d)' /\ Alone(d, c)'
  OBVIOUS
<1>1. caller'[d] = caller[d]
  BY DEF OthersStay
<1>2. CASE caller[d].kind \in {"pool", "report"}
  <2>1. (IF {kind, caller[d].kind} = {"pool"} THEN PoolPicks ELSE ReportPicks) \subseteq Upset(c, kind)
    BY <1>2 DEF Upset
  <2>2. {kind, caller[d].kind} = {"pool"} <=> kind = "pool" /\ caller[d].kind = "pool"
    BY <1>2
  <2>3. CASE kind = "pool" /\ caller[d].kind = "pool"
    <3>1. PoolPicks \subseteq loose'
      BY <2>1, <2>2, <2>3
    <3> QED
      BY <1>1, <2>3, <3>1 DEF Alone
  <2>4. CASE ~(kind = "pool" /\ caller[d].kind = "pool")
    <3>1. ReportPicks \subseteq loose'
      BY <2>1, <2>2, <2>4
    <3> QED
      BY <1>1, <1>2, <2>4, <3>1 DEF Alone
  <2> QED
    BY <2>3, <2>4
<1>3. CASE caller[d].kind \notin {"pool", "report"}
  BY <1>1, <1>3 DEF Alone
<1> QED
  BY <1>2, <1>3

LEMMA BeginPoolStep ==
  ASSUME BatchesAssumption, HandOverInv, NEW c \in Callers, BeginPool(c)
  PROVE  HandOverInv'
<1> DEFINE open == {p \in PoolPicks : rows[p].status \in {"queued", "dispatch_failed"}}
           stale == {<<p, rows[p].session>> : p \in open}
           new == [Idle EXCEPT !.kind = "pool", !.pc = "heal", !.stale = stale]
<1>0. /\ OnceInv /\ CallerOK(c) /\ BatchTypes /\ caller[c].pc = "idle"
      /\ \A p \in Picks : RowOK(p) /\ rows[p] \in RowType
      /\ UNCHANGED <<sessions, made, rows, lineVars, sent, unlucky>>
      /\ loose' = loose \cup Upset(c, "pool")
      /\ Become(c, new)
  BY Before DEF BeginPool, Begin, At, placeVars, lineVars
<1>1. \A p \in open : p \in PoolPicks /\ rows[p].session # None /\ Opened(rows[p].session, p)
  BY <1>0, SourcesApart DEF RowOK
<1>2. /\ stale \subseteq PoolPicks \X Sessions
      /\ \A old \in stale : Opened(old[2], old[1]) /\ rows[old[1]].session = old[2] /\ old[1] \in Picks
  BY <1>1, SourcesApart DEF Opened
<1> HIDE DEF stale
<1>3. new \in CallerType
  <2>1. Idle \in CallerType
    BY DEF Idle, CallerType, Stages, MaybeSession, Ends
  <2> QED
    BY <1>2, <2>1 DEF CallerType, Stages
<1>4. /\ new.kind = "pool" /\ new.pc = "heal" /\ new.stale = stale /\ new.session = None
      /\ new.todo = << >>
  BY DEF Idle
<1>5. caller' = [caller EXCEPT ![c] = caller'[c]] /\ caller'[c] = new
  BY <1>0, CallerTyped DEF Become
<1> HIDE DEF new
<1>6. Becomes(c) /\ ~OwnStage(c)'
  BY <1>3, <1>4, <1>5 DEF Becomes, OwnStage, At
<1>7. Learns(c)
  BY <1>2, <1>4, <1>5 DEF Learns, Known
<1>8. CallerOK(c)'
  <2>1. new.pc \in StagesOf(new.kind) /\ Elements(new.todo) \subseteq PicksOf(new.kind)
    BY <1>4, SmallLists DEF StagesOf
  <2>2. \A old \in stale : Opened(old[2], old[1])'
    BY <1>0, <1>2 DEF Opened
  <2> QED
    BY <1>4, <1>5, <2>1, <2>2 DEF CallerOK, At
<1>9. Knows(c)'
  BY <1>0, <1>2, <1>4, <1>5 DEF Knows, RowKnown, StaleKnown, NoRival, ItemKnown, HasRow, At
<1>10. \A d \in Callers \ {c} : Alone(c, d)' /\ Alone(d, c)'
  BY <1>0, <1>4, <1>5, <1>6, UpsetIsLoose, BecomesTyped
<1> QED
  BY <1>0, <1>4, <1>5, <1>6, <1>7, <1>8, <1>9, <1>10, QuietStep DEF At

LEMMA BeginReportStep ==
  ASSUME BatchesAssumption, HandOverInv, NEW c \in Callers, BeginReport(c)
  PROVE  HandOverInv'
<1> DEFINE new == [Idle EXCEPT !.kind = "report", !.pc = "look", !.used = Used, !.todo = ReportList]
<1>0. /\ OnceInv /\ CallerOK(c) /\ BatchTypes /\ caller[c].pc = "idle"
      /\ UNCHANGED <<sessions, made, rows, lineVars, sent, unlucky>>
      /\ loose' = loose \cup Upset(c, "report")
      /\ Become(c, new)
  BY Before DEF BeginReport, Begin, At, placeVars, lineVars
<1>1. ReportList \in Seq(Picks) /\ Elements(ReportList) \subseteq PicksOf("report") /\ Used \in Nat
  BY SourcesApart, UsedIsNumber DEF PicksOf
<1>2. new \in CallerType
  BY <1>1 DEF Idle, CallerType, Stages, MaybeSession, Ends
<1>3. new.kind = "report" /\ new.pc = "look" /\ new.todo = ReportList /\ new.session = None /\ new.stale = {}
  BY DEF Idle
<1>4. caller' = [caller EXCEPT ![c] = caller'[c]] /\ caller'[c] = new
  BY <1>0, CallerTyped DEF Become
<1> HIDE DEF new
<1>5. Becomes(c)
  BY <1>2, <1>4 DEF Becomes
<1>6. CallerOK(c)' /\ Learns(c) /\ ~OwnStage(c)' /\ Knows(c)'
  BY <1>1, <1>3, <1>4, <1>5, ListTaken
<1>7. \A d \in Callers \ {c} : Alone(c, d)' /\ Alone(d, c)'
  BY <1>0, <1>3, <1>4, <1>5, UpsetIsLoose, BecomesTyped
<1> QED
  BY <1>0, <1>3, <1>4, <1>5, <1>6, <1>7, QuietStep DEF At

LEMMA ClickStep ==
  ASSUME BatchesAssumption, HandOverInv, NEW c \in Callers, NEW item \in Items, Click(c, item)
  PROVE  HandOverInv'
<1> DEFINE new == [Idle EXCEPT !.kind = "click", !.pc = "create", !.todo = <<item>>]
<1>0. /\ OnceInv /\ CallerOK(c) /\ BatchTypes /\ caller[c].pc = "idle" /\ WorkInv
      /\ UNCHANGED <<sessions, made, rows, lineVars, sent, unlucky>>
      /\ loose' = IF \E d \in Callers \ {c} : caller[d].todo = <<item>>
                  THEN loose \cup {item} ELSE loose
      /\ rows[item] = NoRow /\ Become(c, new)
  BY Before DEF Click, Begin, At, placeVars, lineVars
<1>1. /\ <<item>> \in Seq(Picks) /\ Elements(<<item>>) \subseteq PicksOf("click")
      /\ Len(<<item>>) = 1 /\ Head(<<item>>) = item /\ <<item>> # << >>
  BY SourcesApart, SmallLists DEF PicksOf
<1>2. new \in CallerType
  BY <1>1 DEF Idle, CallerType, Stages, MaybeSession, Ends
<1>3. /\ new.kind = "click" /\ new.pc = "create" /\ new.todo = <<item>> /\ new.session = None
      /\ new.stale = {}
  BY DEF Idle
<1>4. caller' = [caller EXCEPT ![c] = caller'[c]] /\ caller'[c] = new
  BY <1>0, CallerTyped DEF Become
<1> HIDE DEF new
<1>5. Becomes(c) /\ Learns(c) /\ ~OwnStage(c)'
  BY <1>2, <1>3, <1>4 DEF Becomes, Learns, Known, OwnStage, At
<1>6. CallerOK(c)'
  <2>1. new.pc \in StagesOf(new.kind)
    BY <1>3 DEF StagesOf
  <2> QED
    BY <1>1, <1>3, <1>4, <2>1 DEF CallerOK, At
<1>7. Pick(c)' = item
  BY <1>1, <1>3, <1>4 DEF Pick
<1>8. \A d \in Callers \ {c} : caller[d].kind = "click" /\ Pick(d) = item => item \in loose'
  <2> SUFFICES ASSUME NEW d \in Callers \ {c}, caller[d].kind = "click", Pick(d) = item
               PROVE  caller[d].todo = <<item>>
    BY <1>0
  <2>1. caller[d].todo \in Seq(Picks) /\ Len(caller[d].todo) = 1
    BY <1>0, CallerTyped DEF WorkInv, CallerOK
  <2> QED
    BY <2>1 DEF Pick
<1>9. \A d \in Callers \ {c} : Alone(c, d)' /\ Alone(d, c)'
  <2> SUFFICES ASSUME NEW d \in Callers \ {c} PROVE Alone(c, d)' /\ Alone(d, c)'
    OBVIOUS
  <2>1. caller'[d] = caller[d] /\ Pick(d)' = Pick(d)
    BY <1>5, <1>0, BecomesTyped DEF OthersStay, Pick
  <2> QED
    BY <1>3, <1>4, <1>7, <1>8, <2>1 DEF Alone
<1>10. Knows(c)'
  <2>1. ItemKnown(c)'
    <3> SUFFICES ASSUME item \notin loose', NEW t \in sent, made[t] = item
                 PROVE  FALSE
      BY <1>0, <1>7 DEF ItemKnown
    <3>1. SentOK(t) /\ item \notin loose
      BY <1>0 DEF OnceInv
    <3>2. t \in Sessions /\ Opened(t, item) /\ InRow(t)
      BY <3>1 DEF SentOK, Opened
    <3>3. rows[item].session # t
      BY <1>0, <3>2, NoneIsNoSession DEF NoRow
    <3>4. PICK d \in Callers : At(d, "mark") /\ caller[d].session = t
      BY <3>2, <3>3 DEF InRow
    <3>5. CallerOK(d) /\ caller[d].kind \in {"none", "pool", "report", "click"}
      BY <1>0, CallerTyped DEF WorkInv
    <3>6. Pick(d) = item /\ caller[d].kind = "click"
      BY <3>2, <3>4, <3>5 DEF CallerOK, StagesOf, Opened, At
    <3>7. d # c
      BY <1>0, <3>4 DEF At
    <3> QED
      BY <1>8, <3>6, <3>7
  <2> QED
    BY <1>3, <1>4, <2>1 DEF Knows, RowKnown, StaleKnown, NoRival, HasRow, At
<1>11. loose \subseteq loose'
  BY <1>0
<1> QED
  BY <1>0, <1>3, <1>4, <1>5, <1>6, <1>9, <1>10, <1>11, QuietStep DEF At

\* A caller at a stage of its pick goes on to the next with the session it has.
LEMMA StageOK ==
  ASSUME HandOverInv, NEW c \in Callers, caller[c].todo # << >>, caller[c].stale = {},
         NEW pc \in Stages, NEW session \in MaybeSession,
         Become(c, [caller[c] EXCEPT !.pc = pc, !.session = session])
  PROVE  /\ Becomes(c)
         /\ caller'[c].kind = caller[c].kind /\ caller'[c].pc = pc /\ caller'[c].session = session
         /\ caller'[c].todo = caller[c].todo /\ caller'[c].stale = {} /\ Pick(c)' = Pick(c)
         /\ caller'[c].done = caller[c].done
<1>0. /\ caller[c] \in CallerType /\ c \in DOMAIN caller
  BY Before
<1>1. /\ caller' = [caller EXCEPT ![c] = caller'[c]]
      /\ caller'[c] = [caller[c] EXCEPT !.pc = pc, !.session = session]
  BY <1>0 DEF Become
<1>2. caller'[c] \in CallerType
  BY <1>0, <1>1 DEF CallerType
<1> QED
  BY <1>0, <1>1, <1>2 DEF CallerType, Becomes, Pick

\* The same for a step that keeps the session.
LEMMA StageKept ==
  ASSUME HandOverInv, NEW c \in Callers, caller[c].todo # << >>, caller[c].stale = {},
         NEW pc \in Stages, Become(c, [caller[c] EXCEPT !.pc = pc])
  PROVE  /\ Becomes(c)
         /\ caller'[c].kind = caller[c].kind /\ caller'[c].pc = pc
         /\ caller'[c].session = caller[c].session
         /\ caller'[c].todo = caller[c].todo /\ caller'[c].stale = {} /\ Pick(c)' = Pick(c)
         /\ caller'[c].done = caller[c].done
<1>0. /\ caller[c] \in CallerType /\ c \in DOMAIN caller
  BY Before
<1>1. /\ caller' = [caller EXCEPT ![c] = caller'[c]]
      /\ caller'[c] = [caller[c] EXCEPT !.pc = pc]
  BY <1>0 DEF Become
<1>2. caller'[c] \in CallerType
  BY <1>0, <1>1 DEF CallerType
<1> QED
  BY <1>0, <1>1, <1>2 DEF CallerType, Becomes, Pick

\* What holds of a caller that works on a pick.
LEMMA Working ==
  ASSUME HandOverInv, NEW c \in Callers, caller[c].pc \in Stages \ {"idle", "heal", "look"}
  PROVE  /\ caller[c].todo # << >> /\ Pick(c) \in Picks /\ Pick(c) \in PicksOf(caller[c].kind)
         /\ caller[c].pc # "healed" => caller[c].stale = {}
         /\ caller[c].kind \in {"pool", "report", "click"}
         /\ caller[c].kind \in {"pool", "report"} => Pick(c) \in Listed
         /\ caller[c].kind = "click" => Pick(c) \in Items
         /\ caller[c].pc \in {"healed", "today", "record", "confirm"} => caller[c].kind \in {"pool", "report"}
         /\ caller[c].pc = "mark" => caller[c].kind = "click"
         /\ caller[c].pc \in {"healed", "confirm"} => caller[c].kind = "pool"
<1>1. /\ CallerOK(c) /\ caller[c].kind \in {"none", "pool", "report", "click"}
      /\ (caller[c].todo # << >> => Pick(c) \in PicksOf(caller[c].kind) /\ Pick(c) \in Picks)
  BY Before
<1>2. caller[c].todo # << >> /\ (caller[c].pc # "healed" => caller[c].stale = {})
  BY <1>1 DEF CallerOK
<1> QED
  BY <1>1, <1>2 DEF CallerOK, StagesOf, PicksOf, Listed

LEMMA CreateStep ==
  ASSUME BatchesAssumption, HandOverInv, NEW c \in Callers, Create(c)
  PROVE  HandOverInv'
<1>0. /\ WorkInv /\ OnceInv /\ CallerOK(c) /\ Knows(c) /\ caller[c].pc = "create"
      /\ UNCHANGED <<rows, lineVars, history>>
      /\ sessions \in [Sessions -> SessionStates]
      /\ DOMAIN made = Sessions /\ made = [s \in Sessions |-> made[s]]
  BY Before DEF Create, At, placeVars, history, lineVars, BatchTypes
<1>1. PICK s \in Sessions :
          /\ Fresh(s) /\ sessions' = [sessions EXCEPT ![s] = "clarifying"]
          /\ made' = [made EXCEPT ![s] = Pick(c)]
          /\ Become(c, [caller[c] EXCEPT !.pc = "open", !.session = s])
  BY DEF Create
<1>2. /\ caller[c].todo # << >> /\ Pick(c) \in Picks /\ caller[c].stale = {}
      /\ caller[c].kind \in {"pool", "report", "click"}
  BY <1>0, Working DEF Stages
<1>3. /\ Becomes(c)
      /\ caller'[c].kind = caller[c].kind /\ caller'[c].pc = "open" /\ caller'[c].session = s
      /\ caller'[c].todo = caller[c].todo /\ caller'[c].stale = {} /\ Pick(c)' = Pick(c)
  BY <1>1, <1>2, StageOK DEF Stages, MaybeSession
<1>4. sessions[s] = "none" /\ s \notin sent
  BY <1>0, <1>1 DEF Fresh, OnceInv, SentOK, Opened, Ends
<1>5. /\ sessions'[s] = "clarifying" /\ made'[s] = Pick(c)
      /\ \A t \in Sessions \ {s} : sessions'[t] = sessions[t] /\ made'[t] = made[t]
      /\ sessions' \in [Sessions -> SessionStates]
      /\ DOMAIN made' = Sessions /\ made' = [t \in Sessions |-> made'[t]]
  BY <1>0, <1>1 DEF SessionStates
<1>6. Progress(c)
  <2>1. \A d \in Callers : ~(At(d, "open") /\ caller[d].session = s)
    BY <1>0, <1>4 DEF WorkInv, CallerOK
  <2> QED
    BY <1>4, <1>5, <2>1 DEF Progress
<1>7. OwnsOn(c) /\ Learns(c)
  BY <1>3, <1>4 DEF OwnsOn, Learns, Known
<1>8. CallerOK(c)'
  <2>1. caller'[c].pc \in StagesOf(caller'[c].kind)
    BY <1>2, <1>3 DEF StagesOf
  <2> QED
    BY <1>0, <1>2, <1>3, <1>5, <2>1 DEF CallerOK, At
<1>9. Knows(c)'
  <2>1. RowKnown(c)'
    BY <1>0, <1>2, <1>3 DEF Knows, RowKnown, At, history
  <2>2. StaleKnown(c)' /\ HasRow(c)'
    BY <1>3 DEF StaleKnown, HasRow
  <2>3. NoRival(c)'
    BY <1>0, <1>3 DEF Knows, NoRival, history
  <2>4. ItemKnown(c)'
    <3>1. \A t \in sent : t \in Sessions /\ made'[t] = made[t]
      BY <1>0, <1>4, <1>5 DEF OnceInv
    <3> QED
      BY <1>0, <1>3, <3>1 DEF Knows, ItemKnown, At, history
  <2> QED
    BY <2>1, <2>2, <2>3, <2>4 DEF Knows
<1> QED
  BY <1>0, <1>3, <1>4, <1>5, <1>6, <1>7, <1>8, <1>9, OwnStep

LEMMA OpenSessionStep ==
  ASSUME BatchesAssumption, HandOverInv, NEW c \in Callers, OpenSession(c)
  PROVE  HandOverInv'
<1> DEFINE pc == AfterOpen(caller[c].kind)
<1>p. PICK s : s = caller[c].session
  OBVIOUS
<1>0. /\ WorkInv /\ OnceInv /\ CallerOK(c) /\ Knows(c) /\ Apart(c) /\ caller[c].pc = "open"
      /\ UNCHANGED <<rows, lineVars, history, made>>
      /\ sessions \in [Sessions -> SessionStates]
      /\ DOMAIN made = Sessions /\ made = [t \in Sessions |-> made[t]]
      /\ sessions' = [sessions EXCEPT ![s] = "running"]
      /\ Become(c, [caller[c] EXCEPT !.pc = pc])
  BY <1>p, Before DEF OpenSession, At, placeVars, history, lineVars, BatchTypes
<1>1. /\ s \in Sessions /\ sessions[s] = "clarifying" /\ made[s] = Pick(c)
      /\ OwnStage(c) /\ s \notin sent
  BY <1>0, <1>p DEF CallerOK, At, OwnStage, OnceInv
<1>2. /\ caller[c].todo # << >> /\ Pick(c) \in Picks /\ caller[c].stale = {}
      /\ caller[c].kind \in {"pool", "report", "click"}
  BY <1>0, Working DEF Stages
<1>3. pc \in {"record", "hand"} /\ (pc = "hand" <=> caller[c].kind = "click")
  BY DEF AfterOpen
<1> HIDE DEF pc
<1>4. /\ Becomes(c)
      /\ caller'[c].kind = caller[c].kind /\ caller'[c].pc = pc /\ caller'[c].session = s
      /\ caller'[c].todo = caller[c].todo /\ caller'[c].stale = {} /\ Pick(c)' = Pick(c)
  BY <1>0, <1>p, <1>2, <1>3, StageKept DEF Stages
<1>5. /\ sessions'[s] = "running" /\ \A t \in Sessions \ {s} : sessions'[t] = sessions[t]
      /\ sessions' \in [Sessions -> SessionStates]
  BY <1>0, <1>1 DEF SessionStates
<1>6. Progress(c)
  <2>1. \A d \in Callers \ {c} : caller[d].session # s
    BY <1>0, <1>p, <1>1 DEF Apart, Known
  <2> QED
    BY <1>0, <1>1, <1>5, <2>1 DEF Progress
<1>7. OwnsOn(c) /\ Learns(c)
  BY <1>1, <1>4, <1>p DEF OwnsOn, Learns, Known
<1>8. CallerOK(c)'
  <2>1. caller'[c].pc \in StagesOf(caller'[c].kind)
    BY <1>2, <1>3, <1>4 DEF StagesOf
  <2>2. Opened(caller[c].session, Pick(c))'
    BY <1>0, <1>1, <1>4, <1>5 DEF Opened
  <2> QED
    BY <1>0, <1>2, <1>3, <1>4, <1>1, <1>5, <2>1 DEF CallerOK, At, Opened
<1>9. Knows(c)'
  BY <1>0, <1>3, <1>4 DEF Knows, RowKnown, StaleKnown, NoRival, ItemKnown, HasRow, At, history
<1> QED
  BY <1>0, <1>1, <1>3, <1>4, <1>5, <1>6, <1>7, <1>8, <1>9, OwnStep

LEMMA CreateFailsStep ==
  ASSUME BatchesAssumption, HandOverInv, NEW c \in Callers, CreateFails(c)
  PROVE  HandOverInv'
<1>0. /\ caller[c].pc \in {"create", "open", "record"} \/ (At(c, "hand") /\ caller[c].kind = "click")
      /\ UNCHANGED <<sessions, made, lineVars, sent, unlucky, loose>>
  BY DEF CreateFails, placeVars, history, lineVars
<1>1. CASE caller[c].kind = "click"
  BY <1>0, <1>1, RestStep DEF CreateFails, OwnStage, At
<1>2. CASE caller[c].kind # "click"
  <2> DEFINE row == [status |-> "session_failed", session |-> None]
  <2>1. caller[c].pc \in {"create", "open", "record"}
    BY <1>0, <1>2
  <2>2. /\ caller[c].todo # << >> /\ Pick(c) \in Picks /\ caller[c].kind \in {"pool", "report"}
    BY <1>2, <2>1, Working DEF Stages
  <2>3. /\ Becomes(c) /\ CallerOK(c)' /\ Learns(c) /\ ~OwnStage(c)' /\ Knows(c)'
        /\ caller'[c].kind = caller[c].kind /\ caller'[c].pc = "look"
    BY <1>2, <2>1, <2>2, PassedOK, Before DEF CreateFails
  <2>4. rows' = [rows EXCEPT ![Pick(c)] = row] /\ row \in RowType
    BY <1>2 DEF CreateFails, Write, RowType, RowStates, MaybeSession
  <2>5. Pick(c) \notin loose => rows[Pick(c)].session = None
    BY <2>1, <2>2, Before DEF Knows, RowKnown
  <2>6. row.session = None /\ row.status = "session_failed"
    OBVIOUS
  <2> HIDE DEF row
  <2> QED
    BY <1>0, <2>1, <2>2, <2>3, <2>4, <2>5, <2>6, WriteStep DEF At
<1> QED
  BY <1>1, <1>2

LEMMA HealWriteStep ==
  ASSUME BatchesAssumption, HandOverInv, NEW c \in Callers, HealWrite(c)
  PROVE  HandOverInv'
<1> DEFINE row == [status |-> caller[c].found, session |-> caller[c].session]
           new == [Idle EXCEPT !.kind = "pool", !.pc = "heal", !.stale = caller[c].stale]
<1>p. PICK pick : pick = Pick(c)
  OBVIOUS
<1>0. /\ WorkInv /\ OnceInv /\ CallerOK(c) /\ Knows(c) /\ caller[c].pc = "healed" /\ BatchTypes
      /\ UNCHANGED <<sessions, made, lineVars, sent, unlucky, loose>>
      /\ caller[c].stale \subseteq PoolPicks \X Sessions /\ caller[c].session \in MaybeSession
      /\ Become(c, new) /\ rows' = [rows EXCEPT ![pick] = row] /\ rows \in [Picks -> RowType]
  BY <1>p, Before DEF HealWrite, At, Write, placeVars, history, lineVars, BatchTypes
<1>1. /\ caller[c].todo # << >> /\ pick \in Picks /\ caller[c].kind = "pool"
  BY <1>0, <1>p, Working DEF Stages
<1>2. caller[c].found \in Ends /\ Opened(caller[c].session, pick)
  BY <1>0, <1>p DEF CallerOK, At
<1>3. row \in RowType /\ row.session = caller[c].session /\ row.status = caller[c].found
  BY <1>0, <1>2 DEF RowType, RowStates, Ends
<1>4. new \in CallerType
  <2>1. Idle \in CallerType
    BY DEF Idle, CallerType, Stages, MaybeSession, Ends
  <2> QED
    BY <1>0, <2>1 DEF CallerType, Stages
<1>5. /\ new.kind = "pool" /\ new.pc = "heal" /\ new.stale = caller[c].stale /\ new.session = None
      /\ new.todo = << >>
  BY DEF Idle
<1>6. caller' = [caller EXCEPT ![c] = caller'[c]] /\ caller'[c] = new
  BY <1>0, CallerTyped DEF Become
<1> HIDE DEF new
<1>7. Becomes(c) /\ ~OwnStage(c)' /\ Learns(c)
  BY <1>4, <1>5, <1>6 DEF Becomes, OwnStage, At, Learns, Known
<1>8. CallerOK(c)'
  <2>1. new.pc \in StagesOf(new.kind) /\ Elements(new.todo) \subseteq PicksOf(new.kind)
    BY <1>5, SmallLists DEF StagesOf
  <2>2. \A old \in caller[c].stale : Opened(old[2], old[1])'
    BY <1>0 DEF CallerOK, Opened
  <2> QED
    BY <1>5, <1>6, <2>1, <2>2 DEF CallerOK, At
<1>9. pick \notin loose => row.session = rows[pick].session
  BY <1>0, <1>p, <1>1, <1>3 DEF Knows, RowKnown
<1>10. Knows(c)'
  <2>1. StaleKnown(c)'
    <3> SUFFICES ASSUME NEW old \in caller[c].stale, old[1] \notin loose
                 PROVE  rows'[old[1]].session = old[2]
      BY <1>0, <1>5, <1>6 DEF StaleKnown
    <3>1. rows[old[1]].session = old[2] /\ old[1] \in Picks
      BY <1>0, SourcesApart DEF Knows, StaleKnown
    <3>2. CASE old[1] = pick
      BY <1>0, <1>1, <1>9, <3>1, <3>2
    <3>3. CASE old[1] # pick
      BY <1>0, <3>1, <3>3
    <3> QED
      BY <3>2, <3>3
  <2> QED
    BY <1>5, <1>6, <2>1 DEF Knows, RowKnown, NoRival, ItemKnown, HasRow, At
<1>11. row.status = "failed" => row.session \in unlucky
  BY <1>0, <1>3 DEF OnceInv, FailuresKnown, At
<1>12. row.session # None /\ row.session \in Known(c)
  BY <1>2, <1>3, NoneIsNoSession DEF Opened, Known
<1> HIDE DEF row
<1>13. /\ row.status \in {"completed", "failed"} /\ Opened(row.session, Pick(c))
       /\ rows' = [rows EXCEPT ![Pick(c)] = row]
       /\ (Pick(c) \notin loose => row.session = rows[Pick(c)].session)
  BY <1>0, <1>2, <1>3, <1>9, <1>p DEF Ends
<1>14. /\ caller'[c].kind = "pool" /\ caller'[c].pc = "heal"
  BY <1>5, <1>6
<1> QED
  BY <1>0, <1>1, <1>3, <1>7, <1>8, <1>10, <1>11, <1>12, <1>13, <1>14, WriteStep DEF At

LEMMA RecordStep ==
  ASSUME BatchesAssumption, HandOverInv, NEW c \in Callers, Record(c)
  PROVE  HandOverInv'
<1> DEFINE row == [status |-> "queued", session |-> caller[c].session]
<1>p. PICK s, pick : s = caller[c].session /\ pick = Pick(c)
  OBVIOUS
<1>0. /\ WorkInv /\ OnceInv /\ CallerOK(c) /\ Knows(c) /\ caller[c].pc = "record" /\ BatchTypes
      /\ UNCHANGED <<sessions, made, lineVars, sent, unlucky, loose>>
      /\ Become(c, [caller[c] EXCEPT !.pc = "hand"]) /\ rows' = [rows EXCEPT ![pick] = row]
      /\ rows \in [Picks -> RowType] /\ caller[c].session \in MaybeSession
  BY <1>p, Before DEF Record, At, Write, placeVars, history, lineVars, BatchTypes
<1>1. /\ caller[c].todo # << >> /\ pick \in Picks /\ caller[c].kind \in {"pool", "report"}
      /\ caller[c].stale = {} /\ pick \in Listed
  BY <1>0, <1>p, Working DEF Stages
<1>2. /\ Becomes(c)
      /\ caller'[c].kind = caller[c].kind /\ caller'[c].pc = "hand" /\ caller'[c].session = s
      /\ caller'[c].todo = caller[c].todo /\ caller'[c].stale = {} /\ Pick(c)' = pick
  BY <1>0, <1>p, <1>1, StageKept DEF Stages
<1>3. Opened(s, pick) /\ s # None /\ s \notin sent
  BY <1>0, <1>p, NoneIsNoSession DEF CallerOK, At, OwnStage, OnceInv, Opened
<1>4. row \in RowType /\ row.session = s /\ row.status = "queued"
  BY <1>0, <1>p DEF RowType, RowStates
<1> HIDE DEF row
<1>5. rows'[pick] = row /\ \A q \in Picks \ {pick} : rows'[q] = rows[q]
  BY <1>0, <1>1
<1>6. CallerOK(c)'
  <2>1. caller'[c].pc \in StagesOf(caller'[c].kind)
    BY <1>1, <1>2 DEF StagesOf
  <2> QED
    BY <1>0, <1>1, <1>2, <1>3, <2>1 DEF CallerOK, At, Opened
<1>7. Learns(c) /\ ~OwnStage(c)' /\ s \in Known(c)
  BY <1>1, <1>2, <1>p DEF Learns, Known, OwnStage, At
<1>8. Knows(c)'
  <2>1. RowKnown(c)'
    BY <1>0, <1>2, <1>3, <1>4, <1>5 DEF RowKnown, At
  <2>2. StaleKnown(c)' /\ ItemKnown(c)' /\ HasRow(c)'
    BY <1>1, <1>2, <1>4, <1>5 DEF StaleKnown, ItemKnown, HasRow
  <2>3. NoRival(c)'
    <3>1. \A q \in Listed \ {pick} : q \in Picks \ {pick}
      BY SourcesApart
    <3> QED
      BY <1>0, <1>2, <1>5, <1>p, <3>1 DEF Knows, NoRival
  <2> QED
    BY <2>1, <2>2, <2>3 DEF Knows
<1>9. ASSUME pick \notin loose, NEW t \in sent, made[t] = pick
      PROVE  FALSE
  <2>1. Opened(t, pick) /\ InRow(t) /\ t \in Sessions
    BY <1>0, <1>9 DEF OnceInv, SentOK, Opened
  <2>2. rows[pick].session = None
    BY <1>0, <1>1, <1>9, <1>p DEF Knows, RowKnown
  <2>3. PICK d \in Callers : At(d, "mark") /\ caller[d].session = t
    BY <1>9, <2>1, <2>2, NoneIsNoSession DEF InRow
  <2>4. Pick(d) \in Items /\ CallerOK(d)
    BY <2>3, Working, Before DEF At, Stages
  <2>5. Pick(d) = pick
    BY <2>1, <2>3, <2>4 DEF CallerOK, Opened, At
  <2> QED
    BY <1>1, <2>4, <2>5, SourcesApart
<1>10. /\ rows' = [rows EXCEPT ![Pick(c)] = row] /\ Opened(row.session, Pick(c))
       /\ (Pick(c) \notin loose => \A t \in sent : made[t] = Pick(c) => t = row.session)
  BY <1>0, <1>3, <1>4, <1>9, <1>p
<1> QED
  BY <1>0, <1>1, <1>2, <1>3, <1>4, <1>6, <1>7, <1>8, <1>10, WriteStep DEF At

LEMMA RefuseStep ==
  ASSUME BatchesAssumption, HandOverInv, NEW c \in Callers, Refuse(c)
  PROVE  HandOverInv'
<1> DEFINE row == [status |-> "dispatch_failed", session |-> caller[c].session]
<1>0. /\ CallerOK(c) /\ Knows(c) /\ caller[c].pc = "hand" /\ BatchTypes
      /\ UNCHANGED <<sessions, made, lineVars, sent, loose>>
      /\ unlucky' = unlucky \cup {caller[c].session}
      /\ Pass(c) /\ rows' = [rows EXCEPT ![Pick(c)] = row] /\ caller[c].kind # "click"
      /\ caller[c].session \in MaybeSession
  BY Before DEF Refuse, At, Write, placeVars, history, lineVars
<1>1. /\ caller[c].todo # << >> /\ Pick(c) \in Picks /\ caller[c].kind \in {"pool", "report"}
  BY <1>0, Working DEF Stages
<1>2. /\ Becomes(c) /\ CallerOK(c)' /\ Learns(c) /\ ~OwnStage(c)' /\ Knows(c)'
      /\ caller'[c].kind = caller[c].kind /\ caller'[c].pc = "look"
  BY <1>0, <1>1, PassedOK
<1>3. Opened(caller[c].session, Pick(c)) /\ caller[c].session # None /\ caller[c].session \in Known(c)
  BY <1>0, NoneIsNoSession DEF CallerOK, Opened, Known
<1>4. row \in RowType /\ row.session = caller[c].session /\ row.status = "dispatch_failed"
  BY <1>0 DEF RowType, RowStates
<1>5. Pick(c) \notin loose => rows[Pick(c)].session = caller[c].session
  BY <1>0, <1>1 DEF Knows, RowKnown
<1> HIDE DEF row
<1> QED
  BY <1>0, <1>1, <1>2, <1>3, <1>4, <1>5, WriteStep DEF At

LEMMA ConfirmStep ==
  ASSUME BatchesAssumption, HandOverInv, NEW c \in Callers, Confirm(c)
  PROVE  HandOverInv'
<1> DEFINE row == [status |-> "queued", session |-> caller[c].session]
<1>0. /\ CallerOK(c) /\ Knows(c) /\ caller[c].pc = "confirm" /\ BatchTypes /\ WorkInv
      /\ UNCHANGED <<sessions, made, lineVars, sent, unlucky, loose>>
      /\ Pass(c) /\ rows' = [rows EXCEPT ![Pick(c)] = row]
      /\ caller[c].session \in MaybeSession
  BY Before DEF Confirm, At, Write, placeVars, history, lineVars
<1>1. /\ caller[c].todo # << >> /\ Pick(c) \in Picks /\ caller[c].kind \in {"pool", "report"}
  BY <1>0, Working DEF Stages
<1>2. /\ Becomes(c) /\ CallerOK(c)' /\ Learns(c) /\ ~OwnStage(c)' /\ Knows(c)'
      /\ caller'[c].kind = caller[c].kind /\ caller'[c].pc = "look"
  BY <1>0, <1>1, PassedOK
<1>3. Opened(caller[c].session, Pick(c)) /\ caller[c].session # None /\ caller[c].session \in Known(c)
  BY <1>0, NoneIsNoSession DEF CallerOK, Opened, Known
<1>4. row \in RowType /\ row.session = caller[c].session /\ row.status = "queued"
  BY <1>0 DEF RowType, RowStates
<1>5. Pick(c) \notin loose => rows[Pick(c)].session = caller[c].session
  BY <1>0, <1>1 DEF Knows, RowKnown
<1>6. sessions[caller[c].session] \in Ends \/ caller[c].session \in InQueue
  BY <1>0 DEF WorkInv, Taken
<1> HIDE DEF row
<1> QED
  BY <1>0, <1>1, <1>2, <1>3, <1>4, <1>5, <1>6, WriteStep DEF At

LEMMA MarkStep ==
  ASSUME BatchesAssumption, HandOverInv, NEW c \in Callers, Mark(c)
  PROVE  HandOverInv'
<1> DEFINE row == [status |-> "analyzing", session |-> caller[c].session]
<1>0. /\ CallerOK(c) /\ Knows(c) /\ caller[c].pc = "mark" /\ BatchTypes /\ WorkInv
      /\ UNCHANGED <<sessions, made, lineVars, sent, unlucky, loose>>
      /\ Become(c, Idle) /\ rows' = [rows EXCEPT ![Pick(c)] = row]
      /\ caller[c].session \in MaybeSession
  BY Before DEF Mark, At, Write, placeVars, history, lineVars
<1>1. /\ caller[c].todo # << >> /\ Pick(c) \in Items /\ caller[c].kind = "click"
  BY <1>0, Working DEF Stages
<1>2. /\ Becomes(c) /\ CallerOK(c)' /\ Learns(c) /\ ~OwnStage(c)' /\ Knows(c)'
      /\ caller'[c].kind = "none" /\ caller'[c].pc = "idle"
  BY <1>0, IdleOK
<1>3. Opened(caller[c].session, Pick(c)) /\ caller[c].session # None /\ caller[c].session \in Known(c)
  BY <1>0, NoneIsNoSession DEF CallerOK, Opened, Known
<1>4. row \in RowType /\ row.session = caller[c].session /\ row.status = "analyzing"
  BY <1>0 DEF RowType, RowStates
<1>5. Pick(c) \notin loose => \A t \in sent : made[t] = Pick(c) => t = caller[c].session
  BY <1>0, <1>1 DEF Knows, ItemKnown
<1>6. sessions[caller[c].session] \in Ends \/ caller[c].session \in InQueue
  BY <1>0 DEF WorkInv, Taken
<1> HIDE DEF row
<1> QED
  BY <1>0, <1>1, <1>2, <1>3, <1>4, <1>5, <1>6, WriteStep DEF At

\* A promotion loses nothing and starts only what waits.
LEMMA PlaceGiven ==
  ASSUME NEW line \in Seq(Sessions), NEW places \in Seq(Sessions), live \subseteq Sessions,
         GivePlace(line, places)
  PROVE  /\ waiting' \in Seq(Sessions) /\ held' \in Seq(Sessions) /\ live' \subseteq Sessions
         /\ Elements(waiting') \cup live' = Elements(line) \cup live
<1>1. CASE line # << >> /\ Len(places) < Limit
  <2>1. waiting' = Tail(line) /\ held' = Append(places, Head(line)) /\ live' = live \cup {Head(line)}
    BY <1>1 DEF GivePlace
  <2>2. /\ Tail(line) \in Seq(Sessions) /\ Head(line) \in Sessions
        /\ Elements(line) = {Head(line)} \cup Elements(Tail(line))
    BY <1>1, TailElements
  <2> QED
    BY <2>1, <2>2, AppendElements
<1>2. CASE ~(line # << >> /\ Len(places) < Limit)
  BY <1>2 DEF GivePlace
<1> QED
  BY <1>1, <1>2

LEMMA PostStep ==
  ASSUME BatchesAssumption, HandOverInv, NEW c \in Callers, Post(c)
  PROVE  HandOverInv'
<1>p. PICK s, pick : s = caller[c].session /\ pick = Pick(c)
  OBVIOUS
<1>0. /\ CallerOK(c) /\ Knows(c) /\ caller[c].pc = "hand" /\ BatchTypes /\ WorkInv
      /\ UNCHANGED <<sessions, made, rows, waiting, held, live, unlucky, loose>>
      /\ posted' = Append(posted, s) /\ sent' = sent \cup {s} /\ caller[c].kind # "click"
      /\ IF caller[c].kind = "pool" THEN Become(c, [caller[c] EXCEPT !.pc = "confirm"])
         ELSE Become(c, [Passed(caller[c]) EXCEPT !.done = @ \cup {Pick(c)}])
  BY <1>p, Before DEF Post, At, placeVars
<1>1. /\ caller[c].todo # << >> /\ pick \in Picks /\ caller[c].kind \in {"pool", "report"}
      /\ caller[c].stale = {}
  BY <1>0, <1>p, Working DEF Stages
<1>2. Opened(s, pick) /\ s \in Sessions
  BY <1>0, <1>p DEF CallerOK, Opened
<1>3. /\ posted' \in Seq(Sessions) /\ InQueue' = InQueue \cup {s}
      /\ waiting' \in Seq(Sessions) /\ held' \in Seq(Sessions) /\ live' \subseteq Sessions
  BY <1>0, <1>2, AppendElements DEF BatchTypes, InQueue
<1>4. CASE caller[c].kind = "pool"
  <2>1. /\ Becomes(c)
        /\ caller'[c].kind = "pool" /\ caller'[c].pc = "confirm" /\ caller'[c].session = s
        /\ caller'[c].todo = caller[c].todo /\ caller'[c].stale = {} /\ Pick(c)' = pick
    BY <1>0, <1>1, <1>4, <1>p, StageKept DEF Stages
  <2>2. CallerOK(c)'
    <3>1. caller'[c].pc \in StagesOf(caller'[c].kind)
      BY <2>1 DEF StagesOf
    <3> QED
      BY <1>0, <1>1, <1>2, <1>4, <2>1, <3>1 DEF CallerOK, At, Opened
  <2>3. Learns(c) /\ ~OwnStage(c)'
    BY <2>1, <1>p DEF Learns, Known, OwnStage, At
  <2>4. Knows(c)'
    BY <1>0, <1>1, <1>4, <2>1, <1>p DEF Knows, RowKnown, StaleKnown, NoRival, ItemKnown, HasRow, At
  <2> QED
    BY <1>0, <1>3, <1>4, <2>1, <2>2, <2>3, <2>4, <1>p, HandStep DEF At
<1>5. CASE caller[c].kind = "report"
  <2>1. /\ Becomes(c) /\ CallerOK(c)' /\ Learns(c) /\ ~OwnStage(c)' /\ Knows(c)'
        /\ caller'[c].kind = "report" /\ caller'[c].pc = "look"
    BY <1>0, <1>1, <1>5, PassedOK
  <2> QED
    BY <1>0, <1>3, <1>5, <2>1, <1>p, HandStep DEF At
<1> QED
  BY <1>1, <1>4, <1>5

LEMMA HandOnLoopStep ==
  ASSUME BatchesAssumption, HandOverInv, NEW c \in Callers, HandOnLoop(c)
  PROVE  HandOverInv'
<1>p. PICK s, pick : s = caller[c].session /\ pick = Pick(c)
  OBVIOUS
<1>0. /\ CallerOK(c) /\ Knows(c) /\ caller[c].pc = "hand" /\ BatchTypes /\ WorkInv
      /\ UNCHANGED <<sessions, made, rows, posted, unlucky, loose>>
      /\ GivePlace(Append(waiting, s), held) /\ sent' = sent \cup {s} /\ caller[c].kind = "click"
      /\ Become(c, [caller[c] EXCEPT !.pc = "mark"])
  BY <1>p, Before DEF HandOnLoop, At
<1>1. caller[c].todo # << >> /\ pick \in Picks /\ caller[c].stale = {}
  BY <1>0, <1>p, Working DEF Stages
<1>2. Opened(s, pick) /\ s \in Sessions
  BY <1>0, <1>p DEF CallerOK, Opened
<1>3. Append(waiting, s) \in Seq(Sessions) /\ Elements(Append(waiting, s)) = Elements(waiting) \cup {s}
  BY <1>0, <1>2, AppendElements DEF BatchTypes
<1>4. /\ waiting' \in Seq(Sessions) /\ held' \in Seq(Sessions) /\ live' \subseteq Sessions
      /\ Elements(waiting') \cup live' = Elements(Append(waiting, s)) \cup live
  BY <1>0, <1>3, PlaceGiven DEF BatchTypes
<1>5. InQueue' = InQueue \cup {s} /\ posted' \in Seq(Sessions)
  BY <1>0, <1>3, <1>4 DEF InQueue, BatchTypes
<1>6. /\ Becomes(c)
      /\ caller'[c].kind = "click" /\ caller'[c].pc = "mark" /\ caller'[c].session = s
      /\ caller'[c].todo = caller[c].todo /\ caller'[c].stale = {} /\ Pick(c)' = pick
  BY <1>0, <1>1, <1>p, StageKept DEF Stages
<1>7. CallerOK(c)'
  <2>1. caller'[c].pc \in StagesOf(caller'[c].kind)
    BY <1>6 DEF StagesOf
  <2> QED
    BY <1>0, <1>1, <1>2, <1>6, <2>1 DEF CallerOK, At, Opened
<1>8. Learns(c) /\ ~OwnStage(c)'
  BY <1>6, <1>p DEF Learns, Known, OwnStage, At
<1>9. Knows(c)'
  BY <1>0, <1>6, <1>p DEF Knows, RowKnown, StaleKnown, NoRival, ItemKnown, HasRow, At
<1> QED
  BY <1>0, <1>4, <1>5, <1>6, <1>7, <1>8, <1>9, <1>p, HandStep DEF At

-----------------------------------------------------------------------------
(* The queue and the process.                                              *)

\* Steps that only move sessions within the queue.
LEMMA QueueStep ==
  ASSUME HandOverInv, UNCHANGED <<sessions, made, rows, caller, sent, unlucky, loose>>,
         posted' \in Seq(Sessions), waiting' \in Seq(Sessions), held' \in Seq(Sessions),
         live' \subseteq Sessions, InQueue' = InQueue
  PROVE  HandOverInv'
<1>1. BatchTypes'
  BY DEF HandOverInv, WorkInv, BatchTypes
<1>2. WorkInv'
  <2>0. WorkInv
    BY DEF HandOverInv
  <2>1. \A p \in Picks : RowOK(p)' <=> RowOK(p)
    BY DEF RowOK, Opened
  <2>2. \A c \in Callers : CallerOK(c)' <=> CallerOK(c)
    BY DEF CallerOK, Opened, At, Pick
  <2>3. \A c \in Callers : Apart(c)' <=> Apart(c)
    BY DEF Apart, OwnStage, Known, At
  <2>4. \A s : (Taken(s)' <=> Taken(s)) /\ (WorkedOn(s)' <=> WorkedOn(s))
    BY DEF Taken, WorkedOn, At
  <2>5. \A s \in InQueue' : Opened(s, made[s])'
    BY <2>0 DEF WorkInv, Opened
  <2>6. \A p \in Picks : rows'[p].status \in {"queued", "analyzing"} => WorkedOn(rows[p].session)'
    BY <2>0, <2>4 DEF WorkInv, WorkedOn, Taken, At
  <2>7. \A c \in Callers : caller'[c].pc \in {"confirm", "mark"} => Taken(caller[c].session)'
    BY <2>0, <2>4 DEF WorkInv, Taken
  <2> QED
    BY <2>0, <1>1, <2>1, <2>2, <2>3, <2>5, <2>6, <2>7 DEF WorkInv
<1>3. OnceInv'
  BY DEF HandOverInv, OnceInv, Alone, FailuresKnown, SentOK, InRow, Knows, RowKnown, StaleKnown,
         NoRival, ItemKnown, HasRow, OwnStage, Opened, At, Pick
<1> QED
  BY <1>2, <1>3 DEF HandOverInv

LEMMA EnterQueueStep ==
  ASSUME HandOverInv, EnterQueue
  PROVE  HandOverInv'
<1>0. /\ posted \in Seq(Sessions) /\ waiting \in Seq(Sessions) /\ held \in Seq(Sessions)
      /\ live \subseteq Sessions /\ posted # << >> /\ posted' = Tail(posted)
      /\ GivePlace(Append(waiting, Head(posted)), held)
      /\ UNCHANGED <<sessions, made, rows, caller, sent, unlucky, loose>>
  BY DEF EnterQueue, history, HandOverInv, WorkInv, BatchTypes
<1>1. /\ Tail(posted) \in Seq(Sessions) /\ Head(posted) \in Sessions
      /\ Elements(posted) = {Head(posted)} \cup Elements(Tail(posted))
  BY <1>0, TailElements
<1>2. /\ Append(waiting, Head(posted)) \in Seq(Sessions)
      /\ Elements(Append(waiting, Head(posted))) = Elements(waiting) \cup {Head(posted)}
  BY <1>0, <1>1, AppendElements
<1>3. /\ waiting' \in Seq(Sessions) /\ held' \in Seq(Sessions) /\ live' \subseteq Sessions
      /\ Elements(waiting') \cup live' = Elements(Append(waiting, Head(posted))) \cup live
  BY <1>0, <1>2, PlaceGiven
<1>4. InQueue' = InQueue
  BY <1>0, <1>1, <1>2, <1>3 DEF InQueue
<1> QED
  BY <1>0, <1>1, <1>3, <1>4, QueueStep

LEMMA FreePlaceStep ==
  ASSUME HandOverInv, NEW i \in 1 .. Limit, FreePlace(i)
  PROVE  HandOverInv'
<1> DEFINE rest == SubSeq(held, 1, i - 1) \o SubSeq(held, i + 1, Len(held))
<1>0. /\ posted \in Seq(Sessions) /\ waiting \in Seq(Sessions) /\ held \in Seq(Sessions)
      /\ live \subseteq Sessions /\ i \in DOMAIN held
      /\ GivePlace(waiting, rest)
      /\ UNCHANGED <<posted, sessions, made, rows, caller, sent, unlucky, loose>>
  BY DEF FreePlace, history, HandOverInv, WorkInv, BatchTypes
<1>1. rest \in Seq(Sessions)
  <2>1. Len(held) \in Nat /\ i \in 1 .. Len(held)
    BY <1>0
  <2>2. SubSeq(held, 1, i - 1) \in Seq(Sessions) /\ SubSeq(held, i + 1, Len(held)) \in Seq(Sessions)
    BY <1>0, <2>1
  <2> QED
    BY <2>2
<1> HIDE DEF rest
<1>2. /\ waiting' \in Seq(Sessions) /\ held' \in Seq(Sessions) /\ live' \subseteq Sessions
      /\ Elements(waiting') \cup live' = Elements(waiting) \cup live
  BY <1>0, <1>1, PlaceGiven
<1>3. InQueue' = InQueue
  BY <1>0, <1>2 DEF InQueue
<1> QED
  BY <1>0, <1>2, <1>3, QueueStep

LEMMA RunEndsStep ==
  ASSUME HandOverInv, NEW s \in Sessions, RunEnds(s)
  PROVE  HandOverInv'
<1>0. /\ WorkInv /\ OnceInv /\ BatchTypes
      /\ s \in live /\ live' = live \ {s}
      /\ UNCHANGED <<made, rows, posted, waiting, held, caller, sent, loose>>
  BY DEF RunEnds, HandOverInv, WorkInv
<1>1. PICK outcome \in Ends :
         /\ sessions' = [sessions EXCEPT ![s] = outcome]
         /\ unlucky' = IF outcome = "failed" THEN unlucky \cup {s} ELSE unlucky
  BY DEF RunEnds
<1>2. Opened(s, made[s])
  BY <1>0 DEF WorkInv, InQueue
<1>3. /\ sessions' \in [Sessions -> SessionStates] /\ sessions'[s] = outcome
      /\ \A t \in Sessions \ {s} : sessions'[t] = sessions[t]
      /\ unlucky \subseteq unlucky'
  BY <1>0, <1>1 DEF BatchTypes, SessionStates
<1>4. \A t, p : Opened(t, p) => Opened(t, p)'
  BY <1>0, <1>1, <1>3 DEF Opened
<1>5. /\ InQueue' \subseteq InQueue /\ InQueue \subseteq InQueue' \cup {s}
  BY <1>0 DEF InQueue
<1>6. \A t, p : Taken(t) /\ Opened(t, p) => sessions'[t] \in Ends \/ t \in InQueue'
  BY <1>1, <1>3, <1>5 DEF Taken, Opened
<1>7. BatchTypes'
  BY <1>0, <1>3 DEF BatchTypes
<1>8. WorkInv'
  <2>1. ASSUME NEW p \in Picks
        PROVE  RowOK(p)'
    BY <1>0, <1>4 DEF WorkInv, RowOK
  <2>2. ASSUME NEW c \in Callers
        PROVE  CallerOK(c)' /\ Apart(c)'
    <3>1. CallerOK(c) /\ Apart(c)
      BY <1>0 DEF WorkInv
    <3>2. At(c, "open") => sessions'[caller[c].session] = sessions[caller[c].session]
      BY <1>2, <1>3, <3>1 DEF CallerOK, Opened, Ends
    <3> QED
      BY <1>0, <1>4, <3>1, <3>2 DEF CallerOK, Apart, OwnStage, Known, At, Pick
  <2>3. ASSUME NEW t \in InQueue'
        PROVE  Opened(t, made[t])'
    <3>1. Opened(t, made[t]) /\ made' = made
      BY <1>0, <1>5 DEF WorkInv
    <3> QED
      BY <1>4, <3>1 DEF Opened
  <2>4. ASSUME NEW c \in Callers, caller[c].pc \in {"confirm", "mark"}
        PROVE  Taken(caller[c].session)'
    <3>1. Taken(caller[c].session) /\ Opened(caller[c].session, Pick(c))
      BY <1>0, <2>4 DEF WorkInv, CallerOK
    <3> QED
      BY <1>0, <1>6, <3>1 DEF Taken
  <2>5. ASSUME NEW p \in Picks, rows[p].status \in {"queued", "analyzing"}
        PROVE  WorkedOn(rows[p].session)'
    <3>1. WorkedOn(rows[p].session) /\ RowOK(p)
      BY <1>0, <2>5 DEF WorkInv
    <3>2. Opened(rows[p].session, p)
      BY <2>5, <3>1 DEF RowOK
    <3> QED
      BY <1>0, <1>6, <3>1, <3>2 DEF WorkedOn, Taken, At
  <2> QED
    BY <1>0, <1>7, <2>1, <2>2, <2>3, <2>4, <2>5 DEF WorkInv, Opened
<1>9. OnceInv'
  <2>1. FailuresKnown'
    BY <1>0, <1>1, <1>3 DEF OnceInv, FailuresKnown, At
  <2>2. ASSUME NEW t \in sent
        PROVE  SentOK(t)'
    <3>1. SentOK(t)
      BY <1>0 DEF OnceInv
    <3>2. Opened(t, made[t])' 
      BY <1>0, <1>4, <3>1 DEF SentOK, Opened
    <3> QED
      BY <1>0, <3>1, <3>2 DEF SentOK, InRow, At
  <2>3. ASSUME NEW c \in Callers
        PROVE  Knows(c)'
    BY <1>0, <1>3 DEF OnceInv, Knows, RowKnown, StaleKnown, NoRival, ItemKnown, HasRow, At, Pick
  <2>4. \A c, d \in Callers : c # d => Alone(c, d)'
    BY <1>0 DEF OnceInv, Alone, Pick
  <2>5. \A c \in Callers : OwnStage(c)' => caller'[c].session \notin sent'
    BY <1>0 DEF OnceInv, OwnStage, At
  <2> QED
    BY <1>0, <2>1, <2>2, <2>3, <2>4, <2>5 DEF OnceInv
<1> QED
  BY <1>8, <1>9 DEF HandOverInv

LEMMA RebootStep ==
  ASSUME HandOverInv, Reboot
  PROVE  HandOverInv'
<1>0. /\ WorkInv /\ OnceInv /\ BatchTypes
      /\ posted' = << >> /\ waiting' = << >> /\ held' = << >> /\ live' = {}
      /\ caller' = [c \in Callers |-> Idle]
      /\ sessions' = [s \in Sessions |-> IF sessions[s] = "running" THEN "failed" ELSE sessions[s]]
      /\ unlucky' = unlucky \cup live \cup {s \in Sessions : sessions[s] = "running"}
      /\ loose' = loose \cup {Pick(c) : c \in {d \in Callers : At(d, "mark")}}
      /\ UNCHANGED <<made, rows, sent>>
  BY DEF Reboot, HandOverInv, WorkInv
<1>1. Idle \in CallerType
  BY DEF Idle, CallerType, Stages, MaybeSession, Ends
<1>2. BatchTypes'
  <2>1. sessions' \in [Sessions -> SessionStates]
    BY <1>0 DEF BatchTypes, SessionStates, Ends
  <2>2. caller' \in [Callers -> CallerType]
    BY <1>0, <1>1
  <2> QED
    BY <1>0, <2>1, <2>2 DEF BatchTypes
<1>3. /\ \A t, p : Opened(t, p) => Opened(t, p)' /\ sessions'[t] \in Ends
  BY <1>0 DEF Opened, Ends
<1>4. \A c \in Callers : caller'[c] = Idle
  BY <1>0
<1>5. InQueue' = {}
  BY <1>0, SmallLists DEF InQueue
<1>6. WorkInv'
  <2>1. ASSUME NEW p \in Picks
        PROVE  RowOK(p)'
    BY <1>0, <1>3 DEF WorkInv, RowOK
  <2>2. ASSUME NEW c \in Callers
        PROVE  CallerOK(c)' /\ Apart(c)'
    <3>1. caller'[c].pc \in StagesOf(caller'[c].kind) /\ Elements(caller'[c].todo) \subseteq PicksOf(caller'[c].kind)
      BY <1>4, SmallLists DEF Idle, StagesOf
    <3> QED
      BY <1>4, <3>1 DEF CallerOK, Apart, OwnStage, Idle, At
  <2>3. \A c \in Callers : caller'[c].pc = "idle"
    BY <1>4 DEF Idle
  <2>4. ASSUME NEW p \in Picks, rows[p].status \in {"queued", "analyzing"}
        PROVE  WorkedOn(rows[p].session)'
    <3>1. Opened(rows[p].session, p)
      BY <1>0, <2>4 DEF WorkInv, RowOK
    <3> QED
      BY <1>0, <1>3, <3>1 DEF WorkedOn, Taken
  <2> QED
    BY <1>0, <1>2, <1>5, <2>1, <2>2, <2>3, <2>4 DEF WorkInv
<1>7. OnceInv'
  <2>1. \A c \in Callers : caller'[c].kind = "none" /\ caller'[c].pc = "idle" /\ caller'[c].stale = {}
    BY <1>4 DEF Idle
  <2>2. \A c \in Callers : Knows(c)' /\ ~OwnStage(c)'
    BY <2>1, AtRest
  <2>3. \A c, d \in Callers : c # d => Alone(c, d)'
    BY <2>1 DEF Alone
  <2>4. FailuresKnown'
    <3>1. \A s \in Sessions : sessions'[s] = "failed" => s \in unlucky'
      BY <1>0 DEF OnceInv, FailuresKnown
    <3> QED
      BY <1>0, <2>1, <3>1 DEF OnceInv, FailuresKnown, At
  <2>5. ASSUME NEW t \in sent
        PROVE  SentOK(t)'
    <3>1. SentOK(t) /\ made' = made /\ rows' = rows
      BY <1>0 DEF OnceInv
    <3>2. Opened(t, made[t])'
      BY <1>3, <3>1 DEF SentOK, Opened
    <3>3. ASSUME made[t] \notin loose'
          PROVE  rows[made[t]].session = t
      <4>1. InRow(t) /\ Opened(t, made[t])
        BY <1>0, <3>1, <3>3 DEF SentOK
      <4>2. ASSUME NEW c \in Callers, At(c, "mark"), caller[c].session = t
            PROVE  FALSE
        <5>1. Pick(c) = made[t]
          BY <1>0, <4>2 DEF WorkInv, CallerOK, Opened, At
        <5> QED
          BY <1>0, <3>3, <4>2, <5>1
      <4> QED
        BY <4>1, <4>2 DEF InRow
    <3> QED
      BY <3>1, <3>2, <3>3 DEF SentOK, InRow
  <2> QED
    BY <1>0, <2>2, <2>3, <2>4, <2>5 DEF OnceInv
<1> QED
  BY <1>6, <1>7 DEF HandOverInv

-----------------------------------------------------------------------------
LEMMA HandOverInit == ASSUME BatchesAssumption, BatchesInit PROVE HandOverInv
<1>0. /\ sessions = [s \in Sessions |-> "none"] /\ made = [s \in Sessions |-> << >>]
      /\ rows = [p \in Picks |-> NoRow] /\ caller = [c \in Callers |-> Idle]
      /\ posted = << >> /\ waiting = << >> /\ held = << >> /\ live = {}
      /\ sent = {} /\ unlucky = {} /\ loose = {}
  BY DEF BatchesInit
<1>1. Idle \in CallerType /\ NoRow \in RowType
  BY DEF Idle, CallerType, Stages, MaybeSession, Ends, NoRow, RowType, RowStates
<1>2. BatchTypes
  <2>1. sessions \in [Sessions -> SessionStates] /\ DOMAIN made = Sessions
    BY <1>0 DEF SessionStates
  <2>2. made = [s \in Sessions |-> made[s]]
    BY <1>0
  <2>3. rows \in [Picks -> RowType] /\ caller \in [Callers -> CallerType]
    BY <1>0, <1>1
  <2> QED
    BY <1>0, <2>1, <2>2, <2>3 DEF BatchTypes
<1>3. /\ \A c \in Callers : caller[c] = Idle
      /\ \A p \in Picks : rows[p] = NoRow
  BY <1>0
<1>4. InQueue = {}
  BY <1>0, SmallLists DEF InQueue
<1>5. \A c \in Callers : CallerOK(c) /\ Apart(c) /\ ~OwnStage(c) /\ Knows(c)
  <2> SUFFICES ASSUME NEW c \in Callers
               PROVE  CallerOK(c) /\ Apart(c) /\ ~OwnStage(c) /\ Knows(c)
    OBVIOUS
  <2>1. caller[c].pc \in StagesOf(caller[c].kind) /\ Elements(caller[c].todo) \subseteq PicksOf(caller[c].kind)
    BY <1>3, SmallLists DEF Idle, StagesOf
  <2>2. caller[c].kind = "none" /\ caller[c].pc = "idle" /\ caller[c].stale = {} /\ caller[c].session = None
    BY <1>3 DEF Idle
  <2> QED
    BY <2>1, <2>2 DEF CallerOK, Apart, OwnStage, At, Knows, RowKnown, StaleKnown, NoRival, ItemKnown, HasRow
<1>6. WorkInv
  <2>1. \A p \in Picks : RowOK(p) /\ rows[p].status = "none"
    BY <1>3 DEF RowOK, NoRow
  <2>2. \A c \in Callers : caller[c].pc = "idle"
    BY <1>3 DEF Idle
  <2> QED
    BY <1>2, <1>4, <1>5, <2>1, <2>2 DEF WorkInv
<1>7. OnceInv
  <2>1. FailuresKnown
    <3>1. \A s \in Sessions : sessions[s] = "none"
      BY <1>0
    <3>2. \A p \in Picks : rows[p].status = "none"
      BY <1>3 DEF NoRow
    <3>3. \A c \in Callers : caller[c].pc = "idle"
      BY <1>3 DEF Idle
    <3> QED
      BY <3>1, <3>2, <3>3 DEF FailuresKnown, At
  <2>2. \A c, d \in Callers : Alone(c, d)
    BY <1>3 DEF Alone, Idle
  <2> QED
    BY <1>0, <1>5, <2>1, <2>2 DEF OnceInv
<1> QED
  BY <1>6, <1>7 DEF HandOverInv

LEMMA HandOverStep == ASSUME BatchesAssumption, HandOverInv, [BatchesNext]_batchesVars PROVE HandOverInv'
<1>1. ASSUME NEW c \in Callers, Step(c)
      PROVE  HandOverInv'
  BY <1>1, HealReadStep, HealWriteStep, ReadPoolStep, LeaveOutStep, LookPoolStep, LookReportStep,
     LookTodayStep, FinishStep, CreateStep, OpenSessionStep, CreateFailsStep, RecordStep,
     RecordFailsStep, PostStep, RefuseStep, ConfirmStep, HandOnLoopStep, MarkStep DEF Step
<1>2. ASSUME NEW c \in Callers, BeginPool(c) \/ BeginReport(c) \/ \E item \in Items : Click(c, item)
      PROVE  HandOverInv'
  BY <1>2, BeginPoolStep, BeginReportStep, ClickStep
<1>3. ASSUME Shutdown \/ UNCHANGED batchesVars
      PROVE  HandOverInv'
  <2>1. /\ UNCHANGED <<sessions, made, rows, caller, sent, unlucky, loose>>
        /\ UNCHANGED lineVars
    BY <1>3 DEF Shutdown, batchesVars, placeVars, history, lineVars
  <2>2. /\ posted \in Seq(Sessions) /\ waiting \in Seq(Sessions) /\ held \in Seq(Sessions)
        /\ live \subseteq Sessions
    BY DEF HandOverInv, WorkInv, BatchTypes
  <2>3. InQueue' = InQueue
    BY <2>1 DEF InQueue, lineVars
  <2> QED
    BY <2>1, <2>2, <2>3, QueueStep DEF lineVars
<1> QED
  BY <1>1, <1>2, <1>3, EnterQueueStep, RunEndsStep, FreePlaceStep, RebootStep DEF BatchesNext

(***************************************************************************)
(* Every reachable state of the batches satisfies the inductive invariant. *)
(***************************************************************************)
THEOREM HandOverInvariant == BatchesSpec => []HandOverInv
BY BatchesAssumption, HandOverInit, HandOverStep, PTL DEF BatchesSpec

(***************************************************************************)
(* No row is forgotten that says it is queued or analysed, over shutdowns, *)
(* restarts, writes that fail and batches that overlap (pool_analysis.py,  *)
(* report_trigger.py, the click on the watch list).                        *)
(***************************************************************************)
THEOREM QueuedRowsAreWorkedOn == BatchesSpec => []QueuedIsWorkedOn
<1>1. HandOverInv => QueuedIsWorkedOn
  BY DEF HandOverInv, WorkInv, QueuedIsWorkedOn, WorkedOn, Taken, InQueue
<1> QED
  BY <1>1, HandOverInvariant, PTL

(***************************************************************************)
(* Nothing is analysed twice, except what overlapping callers or a lost    *)
(* mark have left without a row (the keys of the tables, _already_today).  *)
(***************************************************************************)
THEOREM AnalysesHappenOnce == BatchesSpec => AnalysedOnce
<1>1. ASSUME HandOverInv, [BatchesNext]_batchesVars
      PROVE  \A s \in Sessions : HandedOver(s) /\ made[s] \notin loose' =>
                \A t \in sent : Rivals(made[t], made[s]) => t = s /\ s \in unlucky
  <2> SUFFICES ASSUME NEW s \in Sessions, HandedOver(s), made[s] \notin loose',
                      NEW t \in sent, Rivals(made[t], made[s])
               PROVE  t = s /\ s \in unlucky
    OBVIOUS
  <2>1. loose \subseteq loose'
    BY <1>1 DEF BatchesNext, Step, BeginPool, BeginReport, Click, Begin, HealRead, HealWrite, ReadPool,
       LeaveOut, LookPool, LookReport, LookToday, Finish, Create, OpenSession, CreateFails, Record,
       RecordFails, Post, Refuse, Confirm, HandOnLoop, Mark, EnterQueue, RunEnds, FreePlace, Shutdown,
       Reboot, batchesVars, history
  <2>2. PICK c \in Callers : At(c, "hand") /\ caller[c].session = s
    BY <1>1 DEF HandedOver
  <2>3. /\ CallerOK(c) /\ Knows(c) /\ OnceInv /\ caller[c].pc = "hand"
        /\ caller[c].todo # << >> /\ Pick(c) \in Picks /\ Pick(c) \in PicksOf(caller[c].kind)
        /\ caller[c].kind \in {"pool", "report", "click"}
        /\ caller[c].kind \in {"pool", "report"} => Pick(c) \in Listed
    BY <1>1, <2>2, Before, Working DEF At, Stages
  <2>4. made[s] = Pick(c) /\ Pick(c) \notin loose
    BY <1>1, <2>1, <2>2, <2>3 DEF CallerOK, Opened
  <2>5. SentOK(t)
    BY <2>3 DEF OnceInv
  <2>6. CASE made[t] = Pick(c) /\ caller[c].kind = "click"
    BY <2>3, <2>4, <2>6 DEF Knows, ItemKnown, At
  <2>7. CASE made[t] = Pick(c) /\ caller[c].kind # "click"
    <3>1. rows[Pick(c)].session = s /\ (s \in sent => s \in unlucky)
      BY <2>2, <2>3, <2>4, <2>7 DEF Knows, RowKnown, At
    <3>2. rows[Pick(c)].session = t
      <4>1. ASSUME NEW d \in Callers, At(d, "mark"), caller[d].session = t
            PROVE  FALSE
        <5>1. CallerOK(d) /\ Pick(d) \in Items
          BY <1>1, <4>1, Before, Working DEF At, Stages
        <5>2. Pick(d) = Pick(c)
          BY <2>7, <4>1, <5>1 DEF CallerOK, Opened, At
        <5> QED
          BY <2>3, <2>7, <5>1, <5>2, BatchesAssumption, SourcesApart
      <4> QED
        BY <2>4, <2>5, <2>7, <4>1 DEF SentOK, InRow
    <3> QED
      BY <3>1, <3>2
  <2>8. CASE made[t] # Pick(c)
    <3>1. /\ Pick(c) \in ReportPicks /\ made[t] \in Listed \ {Pick(c)}
          /\ Symbol(made[t]) = Symbol(Pick(c))
      BY <1>1, <2>4, <2>8 DEF Rivals
    <3>2. caller[c].kind = "report"
      BY <2>3, <3>1, BatchesAssumption, SourcesApart DEF PicksOf
    <3>3. rows[made[t]].status = "none"
      BY <2>3, <2>4, <3>1, <3>2 DEF Knows, NoRival
    <3> QED
      BY <2>5, <3>1, <3>3 DEF SentOK
  <2> QED
    BY <2>6, <2>7, <2>8
<1> QED
  BY <1>1, HandOverInvariant, PTL DEF BatchesSpec, AnalysedOnce

=============================================================================
