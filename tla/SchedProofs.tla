---------------------------- MODULE SchedProofs ----------------------------
(***************************************************************************)
(* Theorems about the two analysers of src/sched, and the tool that drives *)
(* them, for every set of pids, tasks and CPUs, all deadlines and time     *)
(* stamps, and calls with any number of events: what they report is what   *)
(* there is to report, and no time is counted twice.                       *)
(***************************************************************************)
EXTENDS SchedTool, SlotArithmetic, FiniteSetTheorems

(* A difference that fits in a word is what unsigned subtraction gives.    *)
LEMMA WordDifference ==
  ASSUME NEW a \in TimeStamps, NEW b \in TimeStamps
  PROVE  /\ a - b \in Int /\ (a - b) % Word \in TimeStamps
         /\ b <= a => (a - b) % Word = a - b
<1>1. Word \in Nat \ {0} /\ a \in Nat /\ b \in Nat /\ a < Word
  BY TypesAssumption DEF TimeStamps
<1>2. (a - b) % Word \in 0 .. Word - 1
  BY <1>1
<1>3. ASSUME b <= a PROVE (a - b) % Word = a - b
  <2>1. a - b \in 0 .. Word - 1
    BY <1>1, <1>3
  <2> QED BY <1>1, <2>1
<1> QED BY <1>1, <1>2, <1>3 DEF TimeStamps

LEMMA FitsInWord ==
  ASSUME NEW a \in TimeStamps PROVE a % Word = a
BY TypesAssumption DEF TimeStamps

LEMMA ModAtMost ==
  ASSUME NEW a \in Nat, NEW n \in Nat \ {0} PROVE a % n \in Nat /\ a % n <= a
<1> DEFINE q == a \div n
           r == a % n
<1>1. q \in Nat /\ r \in 0 .. n - 1 /\ a = n * q + r
  BY SMT
<1> HIDE DEF q, r
<1>2. n * q \in Nat
  BY <1>1, SMT
<1>3. r \in Nat /\ r <= a
  BY <1>1, <1>2, SMT
<1> QED BY <1>3 DEF r

(* The greatest of a set is the one no other exceeds.                      *)
LEMMA GreatestIs ==
  ASSUME NEW S, S \subseteq Int, NEW m \in S, \A j \in S : j <= m
  PROVE  Max(S) = m
<1>1. \A x \in S : (\A y \in S : x >= y) => x = m
  BY SMT
<1>2. \E x \in S : \A y \in S : x >= y
  BY SMT
<1> QED BY <1>1, <1>2 DEF Max

LEMMA GreatestOfOne ==
  ASSUME NEW m \in Nat PROVE Max({m}) = m
<1>1. {m} \subseteq Int /\ m \in {m} /\ \A j \in {m} : j <= m
  OBVIOUS
<1> QED BY <1>1, GreatestIs

(* A list of a set, continued by one that is greater than all of it.       *)
Longer(at, n, x) == [k \in 1 .. n + 1 |-> IF k <= n THEN at[k] ELSE x]

LEMMA ListGrows ==
  ASSUME NEW S, NEW n \in Nat, NEW at \in [1 .. n -> S], Lists(at, S),
         NEW x, \A i \in S : i < x
  PROVE  /\ Longer(at, n, x) \in [1 .. n + 1 -> S \cup {x}]
         /\ Lists(Longer(at, n, x), S \cup {x})
<1> DEFINE next == Longer(at, n, x)
<1>1. /\ next \in [1 .. n + 1 -> S \cup {x}]
      /\ \A k \in 1 .. n : next[k] = at[k]
      /\ next[n + 1] = x
      /\ DOMAIN next = 1 .. n + 1 /\ DOMAIN at = 1 .. n
  BY DEF Longer
<1> HIDE DEF next
<1>2. ASSUME NEW i \in S \cup {x} PROVE \E k \in 1 .. n + 1 : next[k] = i
  <2>1. CASE i = x
    BY <1>1, <2>1
  <2>2. CASE i \in S
    <3>1. PICK k \in 1 .. n : at[k] = i
      BY <1>1, <2>2 DEF Lists
    <3> QED BY <1>1, <3>1
  <2> QED BY <1>2, <2>1, <2>2
<1>3. ASSUME NEW k \in 1 .. n + 1, NEW l \in 1 .. n + 1, k < l
      PROVE  next[k] < next[l]
  <2>1. k \in 1 .. n /\ next[k] = at[k] /\ at[k] \in S
    BY <1>1, <1>3
  <2>2. CASE l = n + 1
    BY <1>1, <2>1, <2>2
  <2>3. CASE l # n + 1
    <3>1. l \in 1 .. n /\ next[l] = at[l]
      BY <1>1, <2>3
    <3> QED BY <1>1, <1>3, <2>1, <3>1 DEF Lists
  <2> QED BY <2>2, <2>3
<1>4. Lists(next, S \cup {x})
  BY <1>1, <1>2, <1>3 DEF Lists
<1> QED BY <1>1, <1>4 DEF next

-----------------------------------------------------------------------------
(* DeadlineMonitor *)

Reports == [ts : TimeStamps, pid : Pids, deadline : 1 .. Word - 1,
            actual : 1 .. Word - 1, overrun : 1 .. Word - 1]

MembersPart ==
  /\ IsMap(deadlines, Pids, Deadlines)
  /\ default_deadline_ns \in Deadlines \cup {0}
  /\ violations \in Seq(Reports)
  /\ IsMap(last_event, Pids, Event)
  /\ analyzing \in BOOLEAN
  /\ seen \in Seq(Event)

(* last_event holds the last event of each pid that has had an odd number. *)
WaitingPart ==
  \A p \in Pids :
    /\ p \in DOMAIN last_event <=> Cardinality(Of(p)) % 2 = 1
    /\ p \in DOMAIN last_event =>
         \E m \in Of(p) : last_event[p] = seen[m] /\ \A j \in Of(p) : j <= m

(* The one before, of the same pid.                                        *)
PartnerPart ==
  \A i \in Closing :
    /\ Partner(i) \in 1 .. i - 1
    /\ seen[Partner(i)].pid = seen[i].pid
    /\ \A j \in 1 .. i - 1 : seen[j].pid = seen[i].pid => j <= Partner(i)

MonitorInv ==
  /\ MembersPart
  /\ analyzing => WaitingPart /\ PartnerPart /\ ViolationsAsDefined

LEMMA EventType == \A e \in Event : /\ e.ts \in TimeStamps /\ e.pid \in Pids
                                    /\ e.kind \in EventTypes
BY TypesAssumption, MonitorAssumption DEF Event, TimeStamps

LEMMA DeadlineType ==
  ASSUME MembersPart, NEW p PROVE DeadlineOf(p) \in TimeStamps
<1>1. 0 \in TimeStamps /\ Deadlines \subseteq TimeStamps
  BY TypesAssumption, MonitorAssumption DEF TimeStamps
<1> QED BY <1>1 DEF MembersPart, IsMap, DeadlineOf

(* What is reported has the types of DeadlineViolation.                    *)
LEMMA ReportType ==
  ASSUME MembersPart, NEW start \in Event, NEW end \in Event, Late(start, end)
  PROVE  Report(start, end) \in Reports
<1> DEFINE limit == DeadlineOf(start.pid)
           took == Elapsed(start, end)
<1>1. limit \in TimeStamps /\ limit # 0 /\ took > limit
  BY DeadlineType DEF Late
<1>2. took \in TimeStamps
  BY EventType, WordDifference DEF Elapsed
<1>3. start.ts \in TimeStamps /\ start.pid \in Pids /\ Word \in Nat
  BY EventType, TypesAssumption
<1> HIDE DEF limit, took
<1>4. /\ limit \in 1 .. Word - 1 /\ took \in 1 .. Word - 1
      /\ took - limit \in 1 .. Word - 1
  BY <1>1, <1>2, <1>3 DEF TimeStamps
<1>5. Report(start, end) =
        [ts |-> start.ts, pid |-> start.pid, deadline |-> limit,
         actual |-> took, overrun |-> took - limit]
  BY DEF Report, limit, took
<1> QED BY <1>3, <1>4, <1>5 DEF Reports

LEMMA CheckType ==
  ASSUME MembersPart, NEW start \in Event, NEW end \in Event, Check(start, end)
  PROVE  violations' \in Seq(Reports)
<1>1. CASE Late(start, end)
  BY <1>1, ReportType, AppendFacts DEF Check, MembersPart
<1>2. CASE ~Late(start, end)
  BY <1>2 DEF Check, MembersPart
<1> QED BY <1>1, <1>2

LEMMA MapFacts ==
  ASSUME NEW S, NEW T, NEW f, IsMap(f, S, T), NEW k \in S
  PROVE  /\ IsMap(Erase(f, k), S, T)
         /\ \A v \in T : IsMap(Put(f, k, v), S, T)
         /\ \A q : q \in DOMAIN Erase(f, k) <=> q \in DOMAIN f /\ q # k
         /\ \A q \in DOMAIN Erase(f, k) : Erase(f, k)[q] = f[q]
         /\ \A v, q : q \in DOMAIN Put(f, k, v) <=> q \in DOMAIN f \/ q = k
         /\ \A v, q : q \in DOMAIN Put(f, k, v) =>
              Put(f, k, v)[q] = IF q = k THEN v ELSE f[q]
BY DEF IsMap, Put, Erase

LEMMA MembersStep ==
  ASSUME MembersPart, MonitorNext PROVE MembersPart'
<1>1. ASSUME NEW d \in Deadlines, SetDefaultDeadline(d) PROVE MembersPart'
  BY <1>1 DEF SetDefaultDeadline, MembersPart
<1>2. ASSUME NEW d \in Deadlines, NEW p \in Pids, SetDeadline(p, d) PROVE MembersPart'
  BY <1>2, MapFacts DEF SetDeadline, MembersPart
<1>3. ASSUME NEW start \in Event, NEW end \in Event, CheckDeadline(start, end)
      PROVE  MembersPart'
  BY <1>3, CheckType DEF CheckDeadline, configuration, MembersPart
<1>4. CASE AnalyzeBegin
  BY <1>4 DEF AnalyzeBegin, configuration, MembersPart, IsMap, Nothing
<1>5. ASSUME NEW e \in Event, AnalyzeFirst(e) PROVE MembersPart'
  BY <1>5, MapFacts, EventType, AppendFacts DEF AnalyzeFirst, configuration, MembersPart
<1>6. ASSUME NEW e \in Event, AnalyzeSecond(e) PROVE MembersPart'
  <2>1. violations' \in Seq(Reports)
    <3>1. last_event[e.pid] \in Event
      BY <1>6 DEF AnalyzeSecond, MembersPart, IsMap
    <3> QED BY <1>6, <3>1, CheckType DEF AnalyzeSecond, MembersPart
  <2>2. IsMap(last_event', Pids, Event)
    BY <1>6, MapFacts, EventType DEF AnalyzeSecond, MembersPart
  <2>3. seen' \in Seq(Event)
    BY <1>6, AppendFacts DEF AnalyzeSecond, MembersPart
  <2> QED BY <1>6, <2>1, <2>2, <2>3 DEF AnalyzeSecond, configuration, MembersPart
<1>7. CASE AnalyzeReturn
  <2>1. seen' = <<>> /\ analyzing' = FALSE
    BY <1>7, Zenon DEF AnalyzeReturn
  <2>2. UNCHANGED <<deadlines, default_deadline_ns, violations, last_event>>
    BY <1>7 DEF AnalyzeReturn, configuration
  <2>3. <<>> \in Seq(Event)
    OBVIOUS
  <2> QED BY <2>1, <2>2, <2>3 DEF MembersPart
<1>8. CASE MonitorReset
  BY <1>8 DEF MonitorReset, MembersPart, IsMap, Nothing
<1> QED BY <1>1, <1>2, <1>3, <1>4, <1>5, <1>6, <1>7, <1>8
        DEF MonitorNext, Configure, Analyze

(* What another event changes in the definitions.                          *)
LEMMA Grown ==
  ASSUME seen \in Seq(Event), NEW e \in Event, seen' = Append(seen, e),
         NEW n, n = Len(seen)
  PROVE  /\ n \in Nat /\ Len(seen') = n + 1 /\ seen'[n + 1] = e
         /\ \A i \in 1 .. n :
              seen'[i] = seen[i] /\ Rank(i)' = Rank(i) /\ Partner(i)' = Partner(i)
         /\ \A p : Of(p)' = IF p = e.pid THEN Of(p) \cup {n + 1} ELSE Of(p)
         /\ \A p : IsFiniteSet(Of(p)) /\ Of(p) \subseteq 1 .. n
         /\ Rank(n + 1)' = Cardinality(Of(e.pid)) + 1
         /\ Partner(n + 1)' = Max(Of(e.pid))
<1>1. /\ n \in Nat /\ Len(seen') = n + 1 /\ seen'[n + 1] = e
      /\ \A i \in 1 .. n : seen'[i] = seen[i]
  BY AppendFacts, LenProperties
<1>2. ASSUME NEW i \in 1 .. n PROVE Rank(i)' = Rank(i) /\ Partner(i)' = Partner(i)
  <2>1. {j \in 1 .. i : seen'[j].pid = seen'[i].pid}
          = {j \in 1 .. i : seen[j].pid = seen[i].pid}
    BY <1>1
  <2>2. {j \in 1 .. i - 1 : seen'[j].pid = seen'[i].pid}
          = {j \in 1 .. i - 1 : seen[j].pid = seen[i].pid}
    BY <1>1
  <2> QED BY <2>1, <2>2 DEF Rank, Partner
<1>3. ASSUME NEW p
      PROVE  Of(p)' = IF p = e.pid THEN Of(p) \cup {n + 1} ELSE Of(p)
  <2>1. \A i \in 1 .. n : i \in Of(p)' <=> i \in Of(p)
    BY <1>1 DEF Of
  <2>2. n + 1 \in Of(p)' <=> p = e.pid
    BY <1>1 DEF Of
  <2>3. Of(p)' \subseteq 1 .. Len(seen')
    BY Zenon DEF Of
  <2>4. Of(p) \subseteq 1 .. n
    BY Zenon DEF Of
  <2>5. 1 .. Len(seen') = (1 .. n) \cup {n + 1} /\ n + 1 \notin 1 .. n
    BY <1>1
  <2>6. CASE p = e.pid
    BY <2>1, <2>2, <2>3, <2>4, <2>5, <2>6
  <2>7. CASE p # e.pid
    <3>1. \A i : i \in Of(p)' <=> i \in Of(p)
      BY <2>1, <2>2, <2>3, <2>4, <2>5, <2>7
    <3>2. Of(p)' = Of(p)
      BY <3>1, Zenon
    <3> QED BY <2>7, <3>2
  <2> QED BY <2>6, <2>7
<1>4. ASSUME NEW p PROVE IsFiniteSet(Of(p)) /\ Of(p) \subseteq 1 .. n
  <2>1. Of(p) \subseteq 1 .. n
    BY Zenon DEF Of
  <2>2. IsFiniteSet(1 .. n)
    BY <1>1, FS_Interval
  <2> QED BY <2>1, <2>2, FS_Subset
<1>5. Rank(n + 1)' = Cardinality(Of(e.pid)) + 1
  <2>1. Rank(n + 1)' = Cardinality(Of(e.pid)')
    BY <1>1, Zenon DEF Rank, Of
  <2>2. n + 1 \notin Of(e.pid)
    BY <1>1, <1>4
  <2> QED BY <1>3, <1>4, <2>1, <2>2, FS_AddElement
<1>6. Partner(n + 1)' = Max(Of(e.pid))
  <2>1. 1 .. (n + 1) - 1 = 1 .. n
    BY <1>1
  <2>2. \A j \in 1 .. n : seen'[j].pid = seen'[n + 1].pid <=> seen[j].pid = e.pid
    BY <1>1
  <2>3. {j \in 1 .. (n + 1) - 1 : seen'[j].pid = seen'[n + 1].pid} = Of(e.pid)
    BY <2>1, <2>2, Zenon DEF Of
  <2> QED BY <2>3, Zenon DEF Partner
<1> QED BY <1>1, <1>2, <1>3, <1>4, <1>5, <1>6

(* The pairs closed before stay as they were.                              *)
LEMMA PairsStay ==
  ASSUME MembersPart, PartnerPart, NEW e \in Event, seen' = Append(seen, e),
         UNCHANGED <<deadlines, default_deadline_ns>>, NEW n, n = Len(seen)
  PROVE  /\ Closing \subseteq 1 .. n /\ Closing' \subseteq (1 .. n) \cup {n + 1}
         /\ \A i \in 1 .. n : i \in Closing' <=> i \in Closing
         /\ n + 1 \in Closing' <=> (Cardinality(Of(e.pid)) + 1) % 2 = 0
         /\ \A q : DeadlineOf(q)' = DeadlineOf(q)
         /\ \A i \in Closing : /\ i \in LatePairs' <=> i \in LatePairs
                               /\ Definition(i)' = Definition(i)
                               /\ Partner(i)' = Partner(i)
                               /\ Partner(i)' \in 1 .. n
                               /\ seen'[Partner(i)'].pid = seen'[i].pid
                               /\ \A j \in 1 .. i - 1 :
                                    seen'[j].pid = seen'[i].pid => j <= Partner(i)'
<1>1. /\ n \in Nat /\ Len(seen') = n + 1 /\ seen'[n + 1] = e
      /\ \A i \in 1 .. n :
           seen'[i] = seen[i] /\ Rank(i)' = Rank(i) /\ Partner(i)' = Partner(i)
      /\ Rank(n + 1)' = Cardinality(Of(e.pid)) + 1
  BY Grown DEF MembersPart
<1>2. Closing \subseteq 1 .. n /\ Closing' \subseteq 1 .. Len(seen')
  BY Zenon DEF Closing
<1>3. 1 .. Len(seen') = (1 .. n) \cup {n + 1}
  BY <1>1
<1>4. /\ \A i \in 1 .. n : i \in Closing' <=> i \in Closing
      /\ n + 1 \in Closing' <=> (Cardinality(Of(e.pid)) + 1) % 2 = 0
  <2>1. ASSUME NEW i \in 1 .. n PROVE i \in Closing' <=> i \in Closing
    <3>1. i \in 1 .. Len(seen') /\ i \in 1 .. Len(seen)
      BY <1>1
    <3> QED BY <1>1, <3>1, Zenon DEF Closing
  <2>2. n + 1 \in 1 .. Len(seen')
    BY <1>1
  <2>3. n + 1 \in Closing' <=> Rank(n + 1)' % 2 = 0
    BY <2>2, Zenon DEF Closing
  <2> QED BY <1>1, <2>1, <2>3
<1>5. \A q : DeadlineOf(q)' = DeadlineOf(q)
  BY DEF DeadlineOf
<1>6. ASSUME NEW i \in Closing
      PROVE  /\ i \in LatePairs' <=> i \in LatePairs
             /\ Definition(i)' = Definition(i)
             /\ Partner(i)' = Partner(i)
             /\ Partner(i)' \in 1 .. n
             /\ seen'[Partner(i)'].pid = seen'[i].pid
             /\ \A j \in 1 .. i - 1 : seen'[j].pid = seen'[i].pid => j <= Partner(i)'
  <2>1. i \in 1 .. n /\ i \in Closing'
    BY <1>2, <1>4
  <2>2. /\ Partner(i) \in 1 .. i - 1
        /\ seen[Partner(i)].pid = seen[i].pid
        /\ \A j \in 1 .. i - 1 : seen[j].pid = seen[i].pid => j <= Partner(i)
    BY DEF PartnerPart
  <2>3. Partner(i) \in 1 .. n /\ \A j \in 1 .. i - 1 : j \in 1 .. n
    BY <1>1, <2>1, <2>2
  <2>4. /\ seen'[i] = seen[i] /\ Partner(i)' = Partner(i)
        /\ seen'[Partner(i)] = seen[Partner(i)]
    BY <1>1, <2>1, <2>3
  <2>5. i \in LatePairs' <=> i \in LatePairs
    BY <1>5, <2>1, <2>4, Zenon DEF LatePairs
  <2>6. Definition(i)' = Definition(i)
    BY <1>5, <2>4, Zenon DEF Definition
  <2> QED BY <1>1, <2>1, <2>2, <2>3, <2>4, <2>5, <2>6
<1> QED BY <1>2, <1>3, <1>4, <1>5, <1>6

(* The pids with an odd number of events, when another event comes.        *)
LEMMA WaitingGrows ==
  ASSUME MembersPart, WaitingPart, NEW e \in Event, seen' = Append(seen, e),
         NEW n, n = Len(seen),
         \/ e.pid \notin DOMAIN last_event /\ last_event' = Put(last_event, e.pid, e)
         \/ e.pid \in DOMAIN last_event /\ last_event' = Erase(last_event, e.pid)
  PROVE  WaitingPart'
<1>1. /\ n \in Nat /\ Len(seen') = n + 1 /\ seen'[n + 1] = e
      /\ \A i \in 1 .. n : seen'[i] = seen[i]
      /\ \A q : Of(q)' = IF q = e.pid THEN Of(q) \cup {n + 1} ELSE Of(q)
      /\ \A q : IsFiniteSet(Of(q)) /\ Of(q) \subseteq 1 .. n
  BY Grown DEF MembersPart
<1>2. e.pid \in Pids /\ IsMap(last_event, Pids, Event)
  BY EventType DEF MembersPart
<1> SUFFICES ASSUME NEW q \in Pids
             PROVE  /\ q \in DOMAIN last_event' <=> Cardinality(Of(q)') % 2 = 1
                    /\ q \in DOMAIN last_event' =>
                         \E m \in Of(q)' : /\ last_event'[q] = seen'[m]
                                           /\ \A j \in Of(q)' : j <= m
  BY Zenon DEF WaitingPart
<1>3. /\ q \in DOMAIN last_event <=> Cardinality(Of(q)) % 2 = 1
      /\ q \in DOMAIN last_event =>
           \E m \in Of(q) : last_event[q] = seen[m] /\ \A j \in Of(q) : j <= m
  BY DEF WaitingPart
<1>4. CASE q # e.pid
  <2>1. Of(q)' = Of(q)
    BY <1>1, <1>4
  <2>2. /\ q \in DOMAIN last_event' <=> q \in DOMAIN last_event
        /\ q \in DOMAIN last_event' => last_event'[q] = last_event[q]
    BY <1>2, <1>4, MapFacts
  <2>3. \A m \in Of(q) : seen'[m] = seen[m]
    BY <1>1
  <2> QED BY <1>3, <2>1, <2>2, <2>3
<1>5. CASE q = e.pid
  <2>1. /\ Of(q)' = Of(q) \cup {n + 1} /\ n + 1 \notin Of(q)
        /\ IsFiniteSet(Of(q)) /\ Of(q) \subseteq 1 .. n
    BY <1>1, <1>5
  <2>2. Cardinality(Of(q)') = Cardinality(Of(q)) + 1 /\ Cardinality(Of(q)) \in Nat
    BY <2>1, FS_AddElement, FS_CardinalityType
  <2>3. CASE q \in DOMAIN last_event
    <3>1. q \notin DOMAIN last_event'
      BY <1>2, <1>5, <2>3, MapFacts
    <3>2. Cardinality(Of(q)) % 2 = 1
      BY <1>3, <2>3
    <3>3. Cardinality(Of(q)') % 2 # 1
      BY <2>2, <3>2
    <3> QED BY <3>1, <3>3
  <2>4. CASE q \notin DOMAIN last_event
    <3>1. q \in DOMAIN last_event' /\ last_event'[q] = e
      BY <1>2, <1>5, <2>4, MapFacts
    <3>2. Cardinality(Of(q)) % 2 # 1
      BY <1>3, <2>4
    <3>3. Cardinality(Of(q)') % 2 = 1
      BY <2>2, <3>2
    <3>4. n + 1 \in Of(q)' /\ \A j \in Of(q)' : j <= n + 1
      BY <1>1, <2>1
    <3> QED BY <1>1, <3>1, <3>3, <3>4
  <2> QED BY <2>3, <2>4
<1> QED BY <1>4, <1>5

LEMMA FirstStep ==
  ASSUME MonitorInv, NEW e \in Event, AnalyzeFirst(e)
  PROVE  MonitorInv'
<1>0. PICK n : n = Len(seen)
  OBVIOUS
<1>1. /\ analyzing /\ analyzing' = analyzing
      /\ e.pid \notin DOMAIN last_event /\ e.pid \in Pids
      /\ last_event' = Put(last_event, e.pid, e)
      /\ seen' = Append(seen, e) /\ MembersPart
      /\ UNCHANGED <<deadlines, default_deadline_ns, violations>>
  BY EventType DEF AnalyzeFirst, configuration, MonitorInv
<1>2. WaitingPart /\ PartnerPart /\ ViolationsAsDefined
  BY <1>1 DEF MonitorInv
<1>3. MembersPart'
  BY MembersStep DEF MonitorInv, MonitorNext, Analyze
<1>4. WaitingPart'
  BY <1>0, <1>1, <1>2, WaitingGrows
<1>5. (Cardinality(Of(e.pid)) + 1) % 2 # 0
  <2>1. Cardinality(Of(e.pid)) \in Nat
    BY <1>0, <1>1, Grown, FS_CardinalityType DEF MembersPart
  <2>2. Cardinality(Of(e.pid)) % 2 # 1
    BY <1>1, <1>2 DEF WaitingPart
  <2> QED BY <2>1, <2>2
<1>6. /\ Closing' = Closing
      /\ \A i \in Closing : /\ i \in LatePairs' <=> i \in LatePairs
                            /\ Definition(i)' = Definition(i)
                            /\ Partner(i)' = Partner(i)
                            /\ seen'[Partner(i)'].pid = seen'[i].pid
                            /\ \A j \in 1 .. i - 1 :
                                 seen'[j].pid = seen'[i].pid => j <= Partner(i)'
  BY <1>0, <1>1, <1>2, <1>5, PairsStay
<1>7. PartnerPart'
  BY <1>2, <1>6 DEF PartnerPart
<1>8. ViolationsAsDefined'
  <2>1. LatePairs \subseteq Closing /\ LatePairs' \subseteq Closing'
    BY Zenon DEF LatePairs
  <2>2. LatePairs' = LatePairs
    BY <1>6, <2>1
  <2>3. \A i \in LatePairs : Definition(i)' = Definition(i)
    BY <1>6, <2>1
  <2>4. violations' = violations
    BY <1>1
  <2>5. PICK ends \in [1 .. Len(violations) -> LatePairs] :
          /\ Lists(ends, LatePairs)
          /\ \A k \in 1 .. Len(violations) : violations[k] = Definition(ends[k])
    BY <1>1, <1>2 DEF ViolationsAsDefined
  <2>6. \A k \in 1 .. Len(violations) : violations[k] = Definition(ends[k])'
    BY <2>3, <2>5
  <2> QED BY <2>2, <2>4, <2>5, <2>6 DEF ViolationsAsDefined
<1> QED BY <1>3, <1>4, <1>7, <1>8 DEF MonitorInv

(* Unsigned arithmetic reports a pair iff exact arithmetic finds it late.  *)
LEMMA LateExactly ==
  ASSUME MembersPart, NEW start \in Event, NEW end \in Event
  PROVE  /\ end.ts > start.ts /\ Late(start, end)
              <=> /\ DeadlineOf(start.pid) # 0
                  /\ end.ts > start.ts + DeadlineOf(start.pid)
         /\ end.ts > start.ts =>
              Report(start, end) =
                [ts |-> start.ts, pid |-> start.pid,
                 deadline |-> DeadlineOf(start.pid), actual |-> end.ts - start.ts,
                 overrun |-> (end.ts - start.ts) - DeadlineOf(start.pid)]
<1> DEFINE limit == DeadlineOf(start.pid)
           a == start.ts
           b == end.ts
<1>1. limit \in Nat /\ a \in Nat /\ b \in Nat
  BY DeadlineType, EventType, TypesAssumption DEF TimeStamps
<1>2. b > a => Elapsed(start, end) = b - a
  BY <1>1, EventType, WordDifference DEF Elapsed
<1>3. Late(start, end) <=> limit # 0 /\ Elapsed(start, end) > limit
  BY DEF Late
<1>4. Report(start, end) =
        [ts |-> a, pid |-> start.pid, deadline |-> limit,
         actual |-> Elapsed(start, end), overrun |-> Elapsed(start, end) - limit]
  BY DEF Report
<1> HIDE DEF limit, a, b
<1>5. b > a /\ Late(start, end) <=> limit # 0 /\ b > a + limit
  BY <1>1, <1>2, <1>3
<1> QED BY <1>2, <1>4, <1>5 DEF limit, a, b

LEMMA SecondStep ==
  ASSUME MonitorInv, NEW e \in Event, AnalyzeSecond(e)
  PROVE  MonitorInv'
<1>0. PICK n : n = Len(seen)
  OBVIOUS
<1>1. /\ analyzing /\ analyzing' = analyzing
      /\ e.pid \in DOMAIN last_event /\ e.pid \in Pids
      /\ last_event' = Erase(last_event, e.pid)
      /\ seen' = Append(seen, e) /\ MembersPart /\ seen \in Seq(Event)
      /\ UNCHANGED <<deadlines, default_deadline_ns>>
  BY EventType DEF AnalyzeSecond, configuration, MonitorInv, MembersPart
<1>2. WaitingPart /\ PartnerPart /\ ViolationsAsDefined
  BY <1>1 DEF MonitorInv
<1>3. MembersPart'
  BY MembersStep DEF MonitorInv, MonitorNext, Analyze
<1>4. WaitingPart'
  BY <1>0, <1>1, <1>2, WaitingGrows
<1>5. PICK m \in Of(e.pid) :
        last_event[e.pid] = seen[m] /\ \A j \in Of(e.pid) : j <= m
  BY <1>1, <1>2 DEF WaitingPart
<1>6. /\ n \in Nat /\ Len(seen') = n + 1 /\ seen'[n + 1] = e
      /\ \A i \in 1 .. n : seen'[i] = seen[i]
      /\ Of(e.pid) \subseteq 1 .. n
      /\ Partner(n + 1)' = Max(Of(e.pid))
      /\ Cardinality(Of(e.pid)) \in Nat
  BY <1>0, <1>1, Grown, FS_CardinalityType
<1>7. /\ Partner(n + 1)' = m /\ m \in 1 .. n
      /\ seen'[m] = seen[m] /\ seen[m].pid = e.pid /\ seen[m] \in Event
  <2>1. Of(e.pid) \subseteq Int
    BY <1>6
  <2>2. Max(Of(e.pid)) = m
    BY <1>5, <2>1, GreatestIs
  <2>3. m \in 1 .. n /\ seen[m].pid = e.pid
    BY <1>5, <1>6 DEF Of
  <2>4. seen[m] \in Event
    BY <1>0, <1>1, <2>3, ElementOfSeq
  <2> QED BY <1>6, <2>2, <2>3, <2>4
<1>8. (Cardinality(Of(e.pid)) + 1) % 2 = 0
  <2>1. Cardinality(Of(e.pid)) % 2 = 1
    BY <1>1, <1>2 DEF WaitingPart
  <2> QED BY <1>6, <2>1
<1>9. /\ Closing \subseteq 1 .. n /\ Closing' = Closing \cup {n + 1}
      /\ \A q : DeadlineOf(q)' = DeadlineOf(q)
      /\ \A i \in Closing : /\ i \in LatePairs' <=> i \in LatePairs
                            /\ Definition(i)' = Definition(i)
                            /\ Partner(i)' = Partner(i)
                            /\ seen'[Partner(i)'].pid = seen'[i].pid
                            /\ \A j \in 1 .. i - 1 :
                                 seen'[j].pid = seen'[i].pid => j <= Partner(i)'
  BY <1>0, <1>1, <1>2, <1>8, PairsStay
<1>10. PartnerPart'
  <2>1. ASSUME NEW i \in Closing
        PROVE  /\ Partner(i)' \in 1 .. i - 1
               /\ seen'[Partner(i)'].pid = seen'[i].pid
               /\ \A j \in 1 .. i - 1 :
                    seen'[j].pid = seen'[i].pid => j <= Partner(i)'
    BY <1>2, <1>9 DEF PartnerPart
  <2>2. /\ Partner(n + 1)' \in 1 .. (n + 1) - 1
        /\ seen'[Partner(n + 1)'].pid = seen'[n + 1].pid
        /\ \A j \in 1 .. (n + 1) - 1 :
             seen'[j].pid = seen'[n + 1].pid => j <= Partner(n + 1)'
    <3>1. ASSUME NEW j \in 1 .. n, seen'[j].pid = e.pid PROVE j <= m
      BY <1>0, <1>5, <1>6, <3>1 DEF Of
    <3> QED BY <1>6, <1>7, <3>1
  <2> QED BY <1>9, <2>1, <2>2 DEF PartnerPart
<1>11. ViolationsAsDefined'
  <2>0. PICK st, limit : st = seen[m] /\ limit = DeadlineOf(e.pid)
    OBVIOUS
  <2> DEFINE late == limit # 0 /\ e.ts > st.ts + limit
  <2>1. n + 1 \in LatePairs' <=> late
    <3>1. n + 1 \in Closing'
      BY <1>9
    <3>2. /\ n + 1 \in LatePairs'
              <=> /\ DeadlineOf(seen[n + 1].pid)' # 0
                  /\ seen'[n + 1].ts > seen'[Partner(n + 1)'].ts
                                          + DeadlineOf(seen[n + 1].pid)'
      BY <3>1, Zenon DEF LatePairs
    <3>3. DeadlineOf(seen[n + 1].pid)' = limit
      BY <1>6, <1>9, <2>0
    <3>4. seen'[n + 1].ts = e.ts /\ seen'[Partner(n + 1)'].ts = st.ts
      BY <1>6, <1>7, <2>0
    <3> QED BY <3>2, <3>3, <3>4
  <2>2. st \in Event /\ st.pid = e.pid
    BY <1>7, <2>0
  <2>3. PICK new : new = [ts |-> st.ts, pid |-> e.pid, deadline |-> limit,
                          actual |-> e.ts - st.ts,
                          overrun |-> (e.ts - st.ts) - limit]
    OBVIOUS
  <2>4. Definition(n + 1)' = new
    BY <1>6, <1>7, <1>9, <2>0, <2>3 DEF Definition
  <2>5. violations' = IF late THEN Append(violations, new) ELSE violations
    <3>1. /\ e.ts > st.ts /\ Late(st, e) <=> late
          /\ e.ts > st.ts => Report(st, e) = new
      BY <1>1, <2>0, <2>2, <2>3, LateExactly
    <3>2. CASE e.ts > st.ts
      <4>1. Check(st, e)
        BY <1>5, <2>0, <3>2 DEF AnalyzeSecond
      <4> HIDE DEF late
      <4> QED BY <3>1, <3>2, <4>1 DEF Check
    <3>3. CASE ~(e.ts > st.ts)
      <4>1. UNCHANGED violations
        BY <1>5, <2>0, <3>3 DEF AnalyzeSecond
      <4> HIDE DEF late
      <4> QED BY <3>1, <3>3, <4>1
    <3> QED BY <3>2, <3>3
  <2> HIDE DEF late
  <2>6. LatePairs \subseteq Closing /\ LatePairs' \subseteq Closing'
    BY Zenon DEF LatePairs
  <2>7. LatePairs' = IF late THEN LatePairs \cup {n + 1} ELSE LatePairs
    <3>1. n + 1 \notin Closing
      BY <1>6, <1>9
    <3>2. \A i : i \in LatePairs' <=> i \in LatePairs \/ (i = n + 1 /\ late)
      BY <1>9, <2>1, <2>6, <3>1
    <3> QED BY <3>2
  <2>8. \A i \in LatePairs : Definition(i)' = Definition(i)
    BY <1>9, <2>6
  <2>9. PICK ends \in [1 .. Len(violations) -> LatePairs] :
          /\ Lists(ends, LatePairs)
          /\ \A k \in 1 .. Len(violations) : violations[k] = Definition(ends[k])
    BY <1>1, <1>2 DEF ViolationsAsDefined
  <2>10. \A k \in 1 .. Len(violations) : violations[k] = Definition(ends[k])'
    BY <2>8, <2>9
  <2>11. CASE late
    <3>0. PICK c : c = Len(violations)
      OBVIOUS
    <3>1. /\ c \in Nat /\ Len(violations') = c + 1
          /\ \A k \in 1 .. c : violations'[k] = violations[k]
          /\ violations'[c + 1] = new
      <4>1. violations \in Seq(Reports) /\ violations' \in Seq(Reports)
        BY <1>1, <1>3 DEF MembersPart
      <4>2. violations' = Append(violations, new)
        BY <2>5, <2>11
      <4> QED BY <3>0, <4>1, <4>2, LenProperties
    <3>2. PICK next \in [1 .. c + 1 -> LatePairs \cup {n + 1}] :
            /\ Lists(next, LatePairs \cup {n + 1})
            /\ \A k \in 1 .. c : next[k] = ends[k]
            /\ next[c + 1] = n + 1
      <4>1. LatePairs \subseteq Int /\ n + 1 \in Int
        BY <1>6, <1>9, <2>6
      <4>2. \A i \in LatePairs : i < n + 1
        BY <1>6, <1>9, <2>6
      <4>3. ends \in [1 .. c -> LatePairs]
        BY <2>9, <3>0
      <4>4. Lists(ends, LatePairs) /\ c \in Nat
        BY <2>9, <3>1
      <4> DEFINE next == Longer(ends, c, n + 1)
      <4>5. /\ next \in [1 .. c + 1 -> LatePairs \cup {n + 1}]
            /\ Lists(next, LatePairs \cup {n + 1})
        BY <4>1, <4>2, <4>3, <4>4, ListGrows
      <4>6. /\ \A k \in 1 .. c : next[k] = ends[k]
            /\ next[c + 1] = n + 1
        BY <4>4 DEF Longer
      <4> HIDE DEF next
      <4> QED BY <4>5, <4>6
    <3>3. LatePairs' = LatePairs \cup {n + 1}
      BY <2>7, <2>11
    <3>4. ASSUME NEW k \in 1 .. c + 1 PROVE violations'[k] = Definition(next[k])'
      <4>1. CASE k = c + 1
        BY <2>4, <3>1, <3>2, <4>1
      <4>2. CASE k # c + 1
        <5>1. k \in 1 .. c
          BY <3>1, <4>2
        <5>2. violations'[k] = violations[k] /\ next[k] = ends[k]
          BY <3>1, <3>2, <5>1
        <5> QED BY <2>10, <3>0, <5>1, <5>2
      <4> QED BY <4>1, <4>2
    <3>5. next \in [1 .. Len(violations') -> LatePairs'] /\ Lists(next, LatePairs')
      BY <3>1, <3>2, <3>3
    <3>6. \A k \in 1 .. Len(violations') : violations'[k] = Definition(next[k])'
      BY <3>1, <3>4
    <3> QED BY <3>5, <3>6, Zenon DEF ViolationsAsDefined
  <2>12. CASE ~late
    <3>1. LatePairs' = LatePairs /\ violations' = violations
      BY <2>5, <2>7, <2>12
    <3> QED BY <2>9, <2>10, <3>1 DEF ViolationsAsDefined
  <2> QED BY <2>11, <2>12
<1> QED BY <1>3, <1>4, <1>10, <1>11 DEF MonitorInv

LEMMA MonitorInvInit == MonitorInit => MonitorInv
<1> SUFFICES ASSUME MonitorInit PROVE MonitorInv
  OBVIOUS
<1>1. IsMap(Nothing, Pids, Deadlines) /\ IsMap(Nothing, Pids, Event)
  BY DEF IsMap, Nothing
<1>2. <<>> \in Seq(Reports) /\ <<>> \in Seq(Event)
  BY EmptySeq
<1>3. ~analyzing /\ analyzing \in BOOLEAN
  BY Zenon DEF MonitorInit
<1> QED BY <1>1, <1>2, <1>3 DEF MonitorInit, MonitorInv, MembersPart

(* The call begins with nothing seen and nobody waiting.                   *)
LEMMA BeginStep ==
  ASSUME MonitorInv, AnalyzeBegin PROVE MonitorInv'
<1>1. last_event' = Nothing /\ seen' = <<>> /\ violations' = <<>>
  BY DEF AnalyzeBegin
<1>2. MembersPart'
  BY MembersStep DEF MonitorInv, MonitorNext
<1>3. \A p : Of(p)' = {}
  BY <1>1 DEF Of
<1>4. Closing' = {} /\ LatePairs' = {}
  BY <1>1 DEF Closing, LatePairs
<1>5. WaitingPart'
  <2>1. Cardinality({}) = 0 /\ DOMAIN last_event' = {} /\ 0 % 2 # 1
    BY <1>1, FS_EmptySet DEF Nothing
  <2> QED BY <1>3, <2>1 DEF WaitingPart
<1>6. PartnerPart'
  BY <1>4 DEF PartnerPart
<1>7. ViolationsAsDefined'
  <2>1. Len(violations') = 0
    BY <1>1
  <2>2. <<>> \in [1 .. 0 -> {}] /\ DOMAIN <<>> = {}
    BY SMT
  <2>3. Lists(<<>>, {})
    BY <2>2 DEF Lists
  <2> QED BY <1>4, <2>1, <2>2, <2>3 DEF ViolationsAsDefined
<1> QED BY <1>2, <1>5, <1>6, <1>7 DEF MonitorInv

LEMMA MonitorInvStep == MonitorInv /\ [MonitorNext]_monitorVars => MonitorInv'
<1> SUFFICES ASSUME MonitorInv, [MonitorNext]_monitorVars PROVE MonitorInv'
  OBVIOUS
<1>1. CASE UNCHANGED monitorVars
  <2>1. /\ deadlines' = deadlines /\ default_deadline_ns' = default_deadline_ns
        /\ violations' = violations /\ last_event' = last_event
        /\ analyzing' = analyzing /\ seen' = seen
    BY <1>1 DEF monitorVars
  <2>2. MembersPart' <=> MembersPart
    BY <2>1 DEF MembersPart
  <2>3. WaitingPart' <=> WaitingPart
    BY <2>1 DEF WaitingPart, Of
  <2>4. /\ \A i : Rank(i)' = Rank(i) /\ Partner(i)' = Partner(i)
        /\ \A p : DeadlineOf(p)' = DeadlineOf(p)
    BY <2>1 DEF Rank, Partner, DeadlineOf
  <2>5. Closing' = Closing
    BY <2>1, <2>4 DEF Closing
  <2>6. PartnerPart' <=> PartnerPart
    BY <2>1, <2>4, <2>5 DEF PartnerPart
  <2>7. LatePairs' = LatePairs /\ \A i : Definition(i)' = Definition(i)
    BY <2>1, <2>4, <2>5 DEF LatePairs, Definition
  <2>8. ViolationsAsDefined' <=> ViolationsAsDefined
    BY <2>1, <2>7 DEF ViolationsAsDefined
  <2> QED BY <2>1, <2>2, <2>3, <2>6, <2>8, Zenon DEF MonitorInv
<1>2. CASE MonitorNext
  <2>1. MembersPart'
    BY <1>2, MembersStep DEF MonitorInv
  <2>2. ASSUME ~analyzing' PROVE MonitorInv'
    BY <2>1, <2>2 DEF MonitorInv
  <2>3. CASE Configure
    BY <2>2, <2>3 DEF Configure, SetDefaultDeadline, SetDeadline
  <2>4. ASSUME NEW start \in Event, NEW end \in Event, CheckDeadline(start, end)
        PROVE  MonitorInv'
    BY <2>2, <2>4 DEF CheckDeadline
  <2>5. CASE AnalyzeBegin
    BY <2>5, BeginStep
  <2>6. CASE Analyze
    BY <2>6, FirstStep, SecondStep DEF Analyze
  <2>7. CASE AnalyzeReturn
    BY <2>2, <2>7 DEF AnalyzeReturn
  <2>8. CASE MonitorReset
    BY <2>2, <2>8 DEF MonitorReset
  <2> QED BY <1>2, <2>3, <2>4, <2>5, <2>6, <2>7, <2>8 DEF MonitorNext
<1> QED BY <1>1, <1>2

LEMMA MonitorInvAlways == MonitorSpec => []MonitorInv
BY MonitorInvInit, MonitorInvStep, PTL DEF MonitorSpec

(* Every member of DeadlineMonitor::Impl keeps its type: no reported time  *)
(* is zero or wraps around, however late the two events of a pair.         *)
THEOREM MonitorTypeCorrect == MonitorSpec => []MonitorTypeOK
<1>1. MonitorInv => MonitorTypeOK
  <2> SUFFICES ASSUME MonitorInv PROVE MonitorTypeOK
    OBVIOUS
  <2>1. Event \subseteq MonitorEvents
    BY TypesAssumption, MonitorAssumption DEF Event, MonitorEvents, TimeStamps
  <2>2. IsMap(last_event, Pids, MonitorEvents)
    BY <2>1 DEF MonitorInv, MembersPart, IsMap
  <2>3. seen \in Seq(MonitorEvents)
    BY <2>1, SeqMonotonic DEF MonitorInv, MembersPart
  <2> QED BY <2>2, <2>3 DEF MonitorTypeOK, MonitorInv, MembersPart, Reports
<1> QED BY <1>1, MonitorInvAlways, PTL

(* AnalyzeEvents reports exactly the pairs that took longer than the       *)
(* deadline of their pid, in the order in which they end.                  *)
THEOREM ViolationsAsDefinedHolds == MonitorSpec => []ViolationsAsDefined
<1>1. MonitorInv => ViolationsAsDefined
  BY DEF MonitorInv, ViolationsAsDefined
<1> QED BY <1>1, MonitorInvAlways, PTL

(* No part of the time of a pid is charged to it twice: a later pair       *)
(* begins with an event after the one that ends an earlier pair.           *)
THEOREM ChargedOnceHolds == MonitorSpec => []ChargedOnce
<1>1. MonitorInv => ChargedOnce
  <2> SUFFICES ASSUME MonitorInv, analyzing,
                      NEW k \in 1 .. Len(violations), NEW l \in 1 .. Len(violations),
                      k < l, violations[k].pid = violations[l].pid,
                      Ordered(violations[k].pid)
               PROVE  violations[k].ts + violations[k].actual <= violations[l].ts
    BY DEF ChargedOnce
  <2>1. PartnerPart /\ ViolationsAsDefined /\ MembersPart
    BY DEF MonitorInv
  <2>2. PICK ends \in [1 .. Len(violations) -> LatePairs] :
          /\ Lists(ends, LatePairs)
          /\ \A i \in 1 .. Len(violations) : violations[i] = Definition(ends[i])
    BY <2>1 DEF ViolationsAsDefined
  <2> DEFINE i == ends[k]
             j == ends[l]
             p == violations[k].pid
  <2>3. i \in LatePairs /\ j \in LatePairs /\ i < j
    BY <2>2 DEF Lists
  <2>4. /\ violations[k].ts = seen[Partner(i)].ts
        /\ violations[k].actual = seen[i].ts - seen[Partner(i)].ts
        /\ p = seen[Partner(i)].pid
        /\ violations[l].ts = seen[Partner(j)].ts
        /\ violations[l].pid = seen[Partner(j)].pid
    <3>1. violations[k] = Definition(i) /\ violations[l] = Definition(j)
      BY <2>2
    <3>2. \A x : /\ Definition(x).ts = seen[Partner(x)].ts
                 /\ Definition(x).pid = seen[Partner(x)].pid
                 /\ Definition(x).actual = seen[x].ts - seen[Partner(x)].ts
      BY DEF Definition
    <3> HIDE DEF i, j
    <3> QED BY <3>1, <3>2
  <2> HIDE DEF i, j
  <2>5. i \in Closing /\ j \in Closing /\ i \in 1 .. Len(seen) /\ j \in 1 .. Len(seen)
    BY <2>3, Zenon DEF LatePairs, Closing
  <2>6. /\ Partner(i) \in 1 .. i - 1 /\ Partner(j) \in 1 .. j - 1
        /\ seen[i].pid = p /\ seen[j].pid = p
        /\ \A x \in 1 .. j - 1 : seen[x].pid = p => x <= Partner(j)
    BY <2>1, <2>4, <2>5 DEF PartnerPart
  <2>7. /\ i <= Partner(j) /\ Partner(j) \in 1 .. Len(seen)
        /\ Partner(i) \in 1 .. Len(seen)
    <3>1. Len(seen) \in Nat
      BY <2>1, LenProperties DEF MembersPart
    <3>2. i \in 1 .. j - 1
      BY <2>3, <2>5, <3>1
    <3>3. i <= Partner(j)
      BY <2>6, <3>2
    <3> QED BY <2>5, <2>6, <3>1, <3>3
  <2>8. i \in Of(p) /\ Partner(j) \in Of(p)
    BY <2>4, <2>5, <2>6, <2>7 DEF Of
  <2>9. /\ seen[i].ts \in Int /\ seen[Partner(i)].ts \in Int
        /\ seen[Partner(j)].ts \in Int
    <3>1. \A x \in 1 .. Len(seen) : seen[x].ts \in Int
      BY <2>1, ElementOfSeq, EventType DEF MembersPart, TimeStamps
    <3> QED BY <2>5, <2>7, <3>1
  <2>10. seen[i].ts <= seen[Partner(j)].ts
    <3>1. CASE i = Partner(j)
      BY <2>9, <3>1
    <3>2. CASE i # Partner(j)
      <4>1. i < Partner(j)
        BY <2>5, <2>7, <3>2
      <4> QED BY <2>8, <4>1 DEF Ordered
    <3> QED BY <3>1, <3>2
  <2> QED BY <2>4, <2>9, <2>10
<1> QED BY <1>1, MonitorInvAlways, PTL

-----------------------------------------------------------------------------
(* PriorityInversionDetector *)

InversionType == [ts : TimeStamps, high : Tasks, low : Tasks, duration : TimeStamps]
CPUType == [pid : {0} \cup {task.pid : task \in Tasks}, start : TimeStamps]

StatePart ==
  /\ inversions \in Seq(InversionType)
  /\ cpu_states \in [Cpus -> CPUType]
  /\ phase \in {"idle", "sched", "trace"}
  /\ phase = "idle" => given = <<>>
  /\ phase = "sched" => given \in Seq(SchedEvent)
  /\ phase = "trace" => given \in Seq(TraceEvent)

(* Each CPU is known by its last switch, if it has had one.                *)
On(c) == {j \in Switches : SwitchAt(j).cpu = c}
CPUPart ==
  \A c \in Cpus :
    \/ On(c) = {} /\ cpu_states[c] = FreshCPU
    \/ \E m \in On(c) :
         /\ \A j \in On(c) : j <= m
         /\ cpu_states[c] = [pid |-> SwitchAt(m).next.pid, start |-> SwitchAt(m).ts]

DetectorInv ==
  /\ StatePart
  /\ phase # "idle" => CPUPart /\ InversionsAsDefined

LEMMA SwitchFields ==
  ASSUME NEW s \in SchedEvent
  PROVE  /\ s.ts \in TimeStamps /\ s.cpu \in Cpus
         /\ s.prev \in Tasks /\ s.next \in Tasks
         /\ s.prev.prio \in Int /\ s.next.prio \in Int
         /\ s.next.pid \in {task.pid : task \in Tasks}
BY TypesAssumption, DetectorAssumption DEF SchedEvent, TimeStamps

LEMMA SwitchType ==
  ASSUME StatePart
  PROVE  Switches \subseteq Nat /\ \A i \in Switches : SwitchAt(i) \in SchedEvent
<1>1. CASE phase = "sched"
  <2>1. given \in Seq(SchedEvent) /\ Len(given) \in Nat
    BY <1>1, LenProperties DEF StatePart
  <2> QED BY <1>1, <2>1, ElementOfSeq DEF Switches, SwitchAt
<1>2. CASE phase = "trace"
  <2>1. given \in Seq(TraceEvent) /\ Len(given) \in Nat
    BY <1>2, LenProperties DEF StatePart
  <2>2. ASSUME NEW i \in Switches
        PROVE  i \in Nat /\ SwitchAt(i) \in SchedEvent
    <3>1. i \in 1 .. Len(given) - 1
      BY <1>2 DEF Switches
    <3>2. i \in 1 .. Len(given) /\ i + 1 \in 1 .. Len(given) /\ i \in Nat
      BY <2>1, <3>1
    <3>3. given[i] \in TraceEvent /\ given[i + 1] \in TraceEvent
      BY <2>1, <3>2, ElementOfSeq
    <3>4. SwitchAt(i) = SwitchOf(given[i], given[i + 1])
      BY <1>2 DEF SwitchAt
    <3> QED BY <3>2, <3>3, <3>4 DEF SwitchOf, TraceEvent, SchedEvent
  <2> QED BY <2>2
<1>3. CASE phase = "idle"
  <2>1. given = <<>> /\ phase # "sched"
    BY <1>3 DEF StatePart
  <2>2. Switches = {}
    BY <2>1 DEF Switches
  <2> QED BY <2>2
<1> QED BY <1>1, <1>2, <1>3 DEF StatePart

(* What is reported has the types of PriorityInversion.                    *)
LEMMA InversionHasType ==
  ASSUME NEW s \in SchedEvent, NEW state \in CPUType
  PROVE  Inversion(s, state) \in InversionType
<1>1. /\ s.ts \in TimeStamps /\ s.prev \in Tasks /\ s.next \in Tasks
      /\ state.start \in TimeStamps /\ 0 \in TimeStamps
  BY SwitchFields, TypesAssumption DEF CPUType, TimeStamps
<1>2. (s.ts - state.start) % Word \in TimeStamps
  BY <1>1, WordDifference
<1> QED BY <1>1, <1>2 DEF Inversion, InversionType

(* The two fields the loop sets for the CPU of a switch.                   *)
LEMMA DetectType ==
  ASSUME StatePart, NEW s \in SchedEvent, Detect(s)
  PROVE  /\ inversions' \in Seq(InversionType)
         /\ cpu_states' \in [Cpus -> CPUType]
         /\ cpu_states'[s.cpu] = [pid |-> s.next.pid, start |-> s.ts]
         /\ \A c \in Cpus : c # s.cpu => cpu_states'[c] = cpu_states[c]
         /\ inversions' = IF Inverted(s)
                          THEN Append(inversions, Inversion(s, cpu_states[s.cpu]))
                          ELSE inversions
<1>1. /\ s.cpu \in Cpus /\ cpu_states \in [Cpus -> CPUType]
      /\ inversions \in Seq(InversionType)
  BY SwitchFields DEF StatePart
<1>2. Inversion(s, cpu_states[s.cpu]) \in InversionType
  BY <1>1, InversionHasType
<1>3. [pid |-> s.next.pid, start |-> s.ts] \in CPUType
  BY SwitchFields DEF CPUType
<1>4. inversions' = IF Inverted(s)
                    THEN Append(inversions, Inversion(s, cpu_states[s.cpu]))
                    ELSE inversions
  BY DEF Detect
<1>5. inversions' \in Seq(InversionType)
  <2>1. CASE Inverted(s)
    BY <1>1, <1>2, <1>4, <2>1, AppendFacts
  <2>2. CASE ~Inverted(s)
    BY <1>1, <1>4, <2>2
  <2> QED BY <2>1, <2>2
<1>6. cpu_states' = [cpu_states EXCEPT ![s.cpu] = [pid |-> s.next.pid, start |-> s.ts]]
  BY DEF Detect
<1> QED BY <1>1, <1>3, <1>4, <1>5, <1>6

(* Whatever call it is in, a switch comes after all before it.             *)
LEMMA SwitchStep ==
  ASSUME StatePart, CPUPart, InversionsAsDefined, phase # "idle", phase' = phase,
         NEW s \in SchedEvent, Detect(s), NEW x \in Nat,
         Switches' = Switches \cup {x}, \A i \in Switches : i < x,
         \A i \in Switches : SwitchAt(i)' = SwitchAt(i), SwitchAt(x)' = s
  PROVE  CPUPart' /\ InversionsAsDefined'
<1>1. /\ Switches \subseteq Nat /\ x \notin Switches
      /\ \A i \in Switches : SwitchAt(i) \in SchedEvent
  BY SwitchType
<1>2. s.cpu \in Cpus
  BY SwitchFields
<1>3. \A c : On(c)' = IF c = s.cpu THEN On(c) \cup {x} ELSE On(c)
  BY <1>1 DEF On
<1>4. CPUPart'
  <2> SUFFICES ASSUME NEW c \in Cpus
               PROVE  \/ On(c)' = {} /\ cpu_states'[c] = FreshCPU
                      \/ \E m \in On(c)' :
                           /\ \A j \in On(c)' : j <= m
                           /\ cpu_states'[c] = [pid |-> SwitchAt(m)'.next.pid,
                                               start |-> SwitchAt(m)'.ts]
    BY Zenon DEF CPUPart
  <2>1. CASE c = s.cpu
    <3>1. x \in On(c)' /\ \A j \in On(c)' : j <= x
      BY <1>1, <1>3, <2>1 DEF On
    <3>2. cpu_states'[c] = [pid |-> SwitchAt(x)'.next.pid, start |-> SwitchAt(x)'.ts]
      BY <2>1, DetectType
    <3> QED BY <3>1, <3>2
  <2>2. CASE c # s.cpu
    <3>1. On(c)' = On(c) /\ cpu_states'[c] = cpu_states[c]
      BY <1>3, <2>2, DetectType
    <3>2. \A m \in On(c) : SwitchAt(m)' = SwitchAt(m)
      BY DEF On
    <3> QED BY <3>1, <3>2 DEF CPUPart
  <2> QED BY <2>1, <2>2
<1>5. ASSUME NEW i \in Switches
      PROVE  /\ i \in Reported' <=> i \in Reported
             /\ Inverting(i)' = Inverting(i)
  <2>1. SwitchAt(i)' = SwitchAt(i) /\ i \in Switches'
    OBVIOUS
  <2>2. Earlier(i)' = Earlier(i)
    <3>1. \A j : j \in Earlier(i)' <=> /\ j \in Switches' /\ j < i
                                      /\ SwitchAt(j)'.cpu = SwitchAt(i)'.cpu
      BY Zenon DEF Earlier
    <3>2. \A j : j \in Earlier(i) <=> /\ j \in Switches /\ j < i
                                     /\ SwitchAt(j).cpu = SwitchAt(i).cpu
      BY Zenon DEF Earlier
    <3>3. ~(x < i)
      BY <1>1
    <3>4. \A j : j \in Earlier(i)' <=> j \in Earlier(i)
      BY <2>1, <3>1, <3>2, <3>3
    <3> QED BY <3>4
  <2>3. \A j \in Earlier(i) : SwitchAt(j)' = SwitchAt(j)
    BY DEF Earlier
  <2>4. Resumed(i)' = Resumed(i)
    <3>1. \A j : j \in Resumed(i)' <=> j \in Resumed(i)
      BY <2>1, <2>2, <2>3 DEF Resumed
    <3> QED BY <3>1
  <2>5. \A j \in Resumed(i) : SwitchAt(j)' = SwitchAt(j)
    BY <2>3 DEF Resumed
  <2>6. {SwitchAt(j)'.ts : j \in Resumed(i)} = {SwitchAt(j).ts : j \in Resumed(i)}
    BY <2>5
  <2>7. Inverting(i)' = Inverting(i)
    BY <2>1, <2>4, <2>6, Zenon DEF Inverting
  <2>8. i \in Reported' <=> i \in Reported
    BY <2>1, Zenon DEF Reported
  <2> QED BY <2>7, <2>8
<1>6. x \in Reported' <=> Inverted(s)
  <2>1. x \in Reported' <=> s.prev.prio \in 1 .. s.next.prio - 1
    BY Zenon DEF Reported
  <2> QED BY <2>1, SwitchFields DEF Inverted
<1>7. Inverting(x)' = Inversion(s, cpu_states[s.cpu])
  <2> DEFINE state == cpu_states[s.cpu]
             early == On(s.cpu)
             began == {SwitchAt(j)'.ts : j \in Resumed(x)'} \ {0}
  <2>1. Earlier(x)' = early
    <3>1. \A j : j \in Earlier(x)' <=> /\ j \in Switches' /\ j < x
                                      /\ SwitchAt(j)'.cpu = s.cpu
      BY Zenon DEF Earlier
    <3>2. \A j : j \in early <=> j \in Switches /\ SwitchAt(j).cpu = s.cpu
      BY Zenon DEF On
    <3>3. ~(x < x)
      OBVIOUS
    <3>4. \A j : j \in Earlier(x)' <=> j \in early
      BY <3>1, <3>2, <3>3
    <3> QED BY <3>4
  <2>2. \A j \in early : /\ SwitchAt(j)' = SwitchAt(j) /\ j \in Nat
                        /\ SwitchAt(j) \in SchedEvent
    BY <1>1 DEF On
  <2>3. Resumed(x)' = {j \in early : /\ \A l \in early : l <= j
                                     /\ SwitchAt(j)'.next.pid = s.prev.pid}
    BY <2>1, Zenon DEF Resumed
  <2>4. Inverting(x)' = [ts |-> s.ts, high |-> s.prev, low |-> s.next,
                         duration |-> IF began = {} THEN 0
                                      ELSE (s.ts - Max(began)) % Word]
    BY Zenon DEF Inverting
  <2>5. CASE early = {} /\ state = FreshCPU
    <3>1. began = {}
      BY <2>3, <2>5
    <3>2. ~(state.start > 0)
      BY <2>5 DEF FreshCPU
    <3> QED BY <2>4, <3>1, <3>2 DEF Inversion
  <2>6. ASSUME NEW m \in early, \A j \in early : j <= m,
               state = [pid |-> SwitchAt(m).next.pid, start |-> SwitchAt(m).ts]
        PROVE  Inverting(x)' = Inversion(s, state)
    <3>1. state.pid = SwitchAt(m).next.pid /\ state.start = SwitchAt(m).ts
      BY <2>6
    <3>2. SwitchAt(m)' = SwitchAt(m) /\ state.start \in Nat
      BY <2>2, <2>6, <3>1, SwitchFields, TypesAssumption DEF TimeStamps
    <3>3. \A j : j \in Resumed(x)' <=> j = m /\ state.pid = s.prev.pid
      BY <2>2, <2>3, <2>6, <3>1, <3>2
    <3>4. CASE state.pid = s.prev.pid /\ state.start > 0
      <4>1. Resumed(x)' = {m}
        BY <3>3, <3>4
      <4>2. began = {state.start}
        BY <3>1, <3>2, <3>4, <4>1
      <4>3. Max({state.start}) = state.start
        BY <3>2, GreatestOfOne
      <4>4. began # {} /\ Max(began) = state.start
        BY <4>2, <4>3
      <4> HIDE DEF began, state
      <4> QED BY <2>4, <3>4, <4>4 DEF Inversion
    <3>5. CASE ~(state.pid = s.prev.pid /\ state.start > 0)
      <4>1. began = {}
        <5>1. ASSUME NEW j \in Resumed(x)' PROVE SwitchAt(j)'.ts = 0
          BY <3>1, <3>2, <3>3, <3>5
        <5> QED BY <5>1
      <4> HIDE DEF began, state
      <4> QED BY <2>4, <3>5, <4>1 DEF Inversion
    <3> QED BY <3>4, <3>5
  <2> QED BY <1>2, <2>5, <2>6 DEF CPUPart
<1>8. InversionsAsDefined'
  <2>0. PICK new : new = Inversion(s, cpu_states[s.cpu])
    OBVIOUS
  <2>1. Reported \subseteq Switches /\ Reported' \subseteq Switches'
    BY Zenon DEF Reported
  <2>2. Reported' = IF Inverted(s) THEN Reported \cup {x} ELSE Reported
    <3>1. \A i : i \in Reported' <=> i \in Reported \/ (i = x /\ Inverted(s))
      BY <1>1, <1>5, <1>6, <2>1
    <3> QED BY <3>1
  <2>3. inversions' = IF Inverted(s) THEN Append(inversions, new) ELSE inversions
    BY <2>0, DetectType
  <2>4. PICK at \in [1 .. Len(inversions) -> Reported] :
          /\ Lists(at, Reported)
          /\ \A k \in 1 .. Len(inversions) : inversions[k] = Inverting(at[k])
    BY DEF InversionsAsDefined
  <2>5. \A k \in 1 .. Len(inversions) : inversions[k] = Inverting(at[k])'
    BY <1>5, <2>1, <2>4
  <2>6. CASE Inverted(s)
    <3>0. PICK c : c = Len(inversions)
      OBVIOUS
    <3>1. /\ c \in Nat /\ Len(inversions') = c + 1
          /\ \A k \in 1 .. c : inversions'[k] = inversions[k]
          /\ inversions'[c + 1] = new
      <4>1. inversions \in Seq(InversionType) /\ inversions' \in Seq(InversionType)
        BY DetectType DEF StatePart
      <4>2. inversions' = Append(inversions, new)
        BY <2>3, <2>6
      <4> QED BY <3>0, <4>1, <4>2, LenProperties
    <3>2. PICK next \in [1 .. c + 1 -> Reported \cup {x}] :
            /\ Lists(next, Reported \cup {x})
            /\ \A k \in 1 .. c : next[k] = at[k]
            /\ next[c + 1] = x
      <4>1. \A i \in Reported : i < x
        BY <2>1
      <4>2. c \in Nat /\ at \in [1 .. c -> Reported] /\ Lists(at, Reported)
        BY <2>4, <3>0, <3>1
      <4> DEFINE next == Longer(at, c, x)
      <4>3. /\ next \in [1 .. c + 1 -> Reported \cup {x}]
            /\ Lists(next, Reported \cup {x})
        BY <4>1, <4>2, ListGrows
      <4>4. /\ \A k \in 1 .. c : next[k] = at[k]
            /\ next[c + 1] = x
        BY <4>2 DEF Longer
      <4> HIDE DEF next
      <4> QED BY <4>3, <4>4
    <3>3. Reported' = Reported \cup {x}
      BY <2>2, <2>6
    <3>4. ASSUME NEW k \in 1 .. c + 1 PROVE inversions'[k] = Inverting(next[k])'
      <4>1. CASE k = c + 1
        BY <1>7, <2>0, <3>1, <3>2, <4>1
      <4>2. CASE k # c + 1
        <5>1. k \in 1 .. c
          BY <3>1, <4>2
        <5>2. inversions'[k] = inversions[k] /\ next[k] = at[k]
          BY <3>1, <3>2, <5>1
        <5> QED BY <2>5, <3>0, <5>1, <5>2
      <4> QED BY <4>1, <4>2
    <3>5. next \in [1 .. Len(inversions') -> Reported'] /\ Lists(next, Reported')
      BY <3>1, <3>2, <3>3
    <3>6. \A k \in 1 .. Len(inversions') : inversions'[k] = Inverting(next[k])'
      BY <3>1, <3>4
    <3> QED BY <3>5, <3>6, Zenon DEF InversionsAsDefined
  <2>7. CASE ~Inverted(s)
    <3>1. Reported' = Reported /\ inversions' = inversions
      BY <2>2, <2>3, <2>7
    <3> QED BY <2>4, <2>5, <3>1 DEF InversionsAsDefined
  <2> QED BY <2>6, <2>7
<1> QED BY <1>4, <1>8

(* An element of a trace that ends no switch changes nothing.              *)
LEMMA NoSwitchStep ==
  ASSUME CPUPart, InversionsAsDefined, phase # "idle", phase' = phase,
         UNCHANGED <<inversions, cpu_states>>, Switches' = Switches,
         \A i \in Switches : SwitchAt(i)' = SwitchAt(i)
  PROVE  CPUPart' /\ InversionsAsDefined'
<1>1. inversions' = inversions /\ cpu_states' = cpu_states
  OBVIOUS
<1>2. \A c : On(c)' = On(c) /\ On(c) \subseteq Switches
  BY DEF On
<1>3. CPUPart'
  BY <1>1, <1>2 DEF CPUPart
<1>4. Reported' = Reported /\ Reported \subseteq Switches
  BY DEF Reported
<1>5. ASSUME NEW i \in Switches PROVE Inverting(i)' = Inverting(i)
  <2>1. Earlier(i)' = Earlier(i) /\ Earlier(i) \subseteq Switches
    BY DEF Earlier
  <2>2. Resumed(i)' = Resumed(i) /\ Resumed(i) \subseteq Switches
    BY <2>1 DEF Resumed
  <2>3. {SwitchAt(j)'.ts : j \in Resumed(i)} = {SwitchAt(j).ts : j \in Resumed(i)}
    BY <2>2
  <2> QED BY <2>2, <2>3, Zenon DEF Inverting
<1>6. InversionsAsDefined'
  <2>1. PICK at \in [1 .. Len(inversions) -> Reported] :
          /\ Lists(at, Reported)
          /\ \A k \in 1 .. Len(inversions) : inversions[k] = Inverting(at[k])
    BY DEF InversionsAsDefined
  <2>2. \A k \in 1 .. Len(inversions) : inversions[k] = Inverting(at[k])'
    BY <1>4, <1>5, <2>1
  <2> QED BY <1>1, <1>4, <2>1, <2>2 DEF InversionsAsDefined
<1> QED BY <1>3, <1>6

LEMMA SchedStep ==
  ASSUME DetectorInv, NEW e \in SchedEvent, AnalyzeStep(e)
  PROVE  DetectorInv'
<1>0. PICK n : n = Len(given)
  OBVIOUS
<1>1. /\ phase = "sched" /\ phase' = "sched" /\ Detect(e)
      /\ given' = Append(given, e) /\ given \in Seq(SchedEvent) /\ StatePart
      /\ CPUPart /\ InversionsAsDefined
  BY DEF AnalyzeStep, DetectorInv, StatePart
<1>2. /\ n \in Nat /\ Len(given') = n + 1 /\ given'[n + 1] = e
      /\ \A i \in 1 .. n : given'[i] = given[i]
      /\ given' \in Seq(SchedEvent)
  BY <1>0, <1>1, AppendFacts, LenProperties
<1>3. Switches = 1 .. n /\ Switches' = 1 .. n + 1
  BY <1>0, <1>1, <1>2 DEF Switches
<1>4. /\ Switches' = Switches \cup {n + 1} /\ n + 1 \in Nat
      /\ \A i \in Switches : i < n + 1
  BY <1>2, <1>3
<1>5. \A i : SwitchAt(i) = given[i] /\ SwitchAt(i)' = given'[i]
  BY <1>1 DEF SwitchAt
<1>6. /\ SwitchAt(n + 1)' = e
      /\ \A i \in Switches : SwitchAt(i)' = SwitchAt(i)
  BY <1>2, <1>3, <1>5
<1>7. CPUPart' /\ InversionsAsDefined'
  BY <1>1, <1>4, <1>6, SwitchStep
<1>8. StatePart'
  <2>1. inversions' \in Seq(InversionType) /\ cpu_states' \in [Cpus -> CPUType]
    BY <1>1, DetectType
  <2> QED BY <1>1, <1>2, <2>1 DEF StatePart
<1> QED BY <1>7, <1>8 DEF DetectorInv

LEMMA TraceStepKeeps ==
  ASSUME DetectorInv, NEW e \in TraceEvent, TraceStep(e)
  PROVE  DetectorInv'
<1>0. PICK n : n = Len(given)
  OBVIOUS
<1>1. /\ phase = "trace" /\ phase' = "trace"
      /\ given' = Append(given, e) /\ given \in Seq(TraceEvent) /\ StatePart
      /\ CPUPart /\ InversionsAsDefined
  BY DEF TraceStep, DetectorInv, StatePart
<1>2. /\ n \in Nat /\ Len(given') = n + 1 /\ given'[n + 1] = e
      /\ \A i \in 1 .. n : given'[i] = given[i] /\ given[i] \in TraceEvent
      /\ given' \in Seq(TraceEvent)
  BY <1>0, <1>1, AppendFacts, LenProperties, ElementOfSeq
<1>3. /\ \A i : i \in Switches <=> i \in 1 .. n - 1 /\ given[i].switch
      /\ \A i : i \in Switches' <=> i \in 1 .. n /\ given'[i].switch
  <2>1. 1 .. Len(given') - 1 = 1 .. n
    BY <1>2
  <2> QED BY <1>0, <1>1, <2>1 DEF Switches
<1>4. \A i : /\ SwitchAt(i) = SwitchOf(given[i], given[i + 1])
             /\ SwitchAt(i)' = SwitchOf(given'[i], given'[i + 1])
  BY <1>1 DEF SwitchAt
<1>5. ASSUME NEW i \in Switches PROVE SwitchAt(i)' = SwitchAt(i) /\ i < n /\ i \in Nat
  <2>1. i \in 1 .. n - 1
    BY <1>3
  <2>2. i \in 1 .. n /\ i + 1 \in 1 .. n /\ i < n /\ i \in Nat
    BY <1>2, <2>1
  <2> QED BY <1>2, <1>4, <2>2
<1>6. CASE given # <<>> /\ Last(given).switch
  <2>1. n # 0 /\ Last(given) = given[n]
    BY <1>0, <1>1, <1>6, EmptySeq DEF Last
  <2>2. n \in 1 .. n /\ n + 1 \in 1 .. n + 1
    BY <1>2, <2>1
  <2>3. Switches' = Switches \cup {n}
    <3>1. \A i : i \in 1 .. n <=> i \in 1 .. n - 1 \/ i = n
      BY <1>2, <2>1
    <3>2. \A i : i \in Switches' <=> i \in Switches \/ i = n
      BY <1>2, <1>3, <1>6, <2>1, <2>2, <3>1
    <3> QED BY <3>2
  <2>4. PICK s : s = SwitchOf(given[n], e)
    OBVIOUS
  <2>5. s \in SchedEvent /\ Detect(s)
    <3>1. given[n] \in TraceEvent
      BY <1>2, <2>2
    <3>2. s \in SchedEvent
      BY <2>4, <3>1 DEF SwitchOf, TraceEvent, SchedEvent
    <3> QED BY <1>6, <2>1, <2>4, <3>2 DEF TraceStep
  <2>6. SwitchAt(n)' = s
    BY <1>2, <1>4, <2>2, <2>4
  <2>7. CPUPart' /\ InversionsAsDefined'
    BY <1>1, <1>2, <1>5, <2>3, <2>5, <2>6, SwitchStep
  <2>8. StatePart'
    <3>1. inversions' \in Seq(InversionType) /\ cpu_states' \in [Cpus -> CPUType]
      BY <1>1, <2>5, DetectType
    <3> QED BY <1>1, <1>2, <3>1 DEF StatePart
  <2> QED BY <2>7, <2>8 DEF DetectorInv
<1>7. CASE ~(given # <<>> /\ Last(given).switch)
  <2>1. UNCHANGED <<inversions, cpu_states>>
    BY <1>7 DEF TraceStep
  <2>2. n = 0 \/ ~given[n].switch
    BY <1>0, <1>1, <1>7, EmptySeq DEF Last
  <2>3. Switches' = Switches
    <3>1. \A i : i \in 1 .. n <=> i \in 1 .. n - 1 \/ (i = n /\ n # 0)
      BY <1>2
    <3>2. \A i : i \in Switches' <=> i \in Switches
      BY <1>2, <1>3, <2>2, <3>1
    <3> QED BY <3>2
  <2>4. CPUPart' /\ InversionsAsDefined'
    BY <1>1, <1>5, <2>1, <2>3, NoSwitchStep
  <2>5. StatePart'
    BY <1>1, <1>2, <2>1 DEF StatePart
  <2> QED BY <2>4, <2>5 DEF DetectorInv
<1> QED BY <1>6, <1>7

(* A call begins with nothing given and every CPU as new.                  *)
LEMMA FreshStart ==
  ASSUME phase' \in {"sched", "trace"}, inversions' = <<>>, given' = <<>>,
         cpu_states' = [c \in Cpus |-> FreshCPU]
  PROVE  DetectorInv'
<1>1. Switches' = {}
  BY DEF Switches
<1>2. \A c : On(c)' = {}
  BY <1>1 DEF On
<1>3. CPUPart'
  BY <1>2 DEF CPUPart
<1>4. Reported' = {} /\ Len(inversions') = 0
  BY <1>1 DEF Reported
<1>5. InversionsAsDefined'
  <2>1. <<>> \in [1 .. 0 -> {}] /\ DOMAIN <<>> = {}
    BY SMT
  <2>2. Lists(<<>>, {})
    BY <2>1 DEF Lists
  <2> QED BY <1>4, <2>1, <2>2 DEF InversionsAsDefined
<1>6. StatePart'
  <2>1. FreshCPU \in CPUType
    BY TypesAssumption DEF FreshCPU, CPUType, TimeStamps
  <2> QED BY <2>1 DEF StatePart
<1> QED BY <1>3, <1>5, <1>6 DEF DetectorInv

LEMMA DetectorInvInit == DetectorInit => DetectorInv
<1>1. FreshCPU \in CPUType
  BY TypesAssumption DEF FreshCPU, CPUType, TimeStamps
<1> QED BY <1>1 DEF DetectorInit, DetectorInv, StatePart

LEMMA DetectorInvStep == DetectorInv /\ [DetectorNext]_detectorVars => DetectorInv'
<1> SUFFICES ASSUME DetectorInv, [DetectorNext]_detectorVars PROVE DetectorInv'
  OBVIOUS
<1>0. FreshCPU \in CPUType
  BY TypesAssumption DEF FreshCPU, CPUType, TimeStamps
<1>1. CASE UNCHANGED detectorVars
  <2>1. /\ inversions' = inversions /\ cpu_states' = cpu_states
        /\ phase' = phase /\ given' = given
    BY <1>1 DEF detectorVars
  <2>2. StatePart'
    BY <2>1 DEF DetectorInv, StatePart
  <2>3. CASE phase # "idle"
    <3>1. CPUPart /\ InversionsAsDefined
      BY <2>3 DEF DetectorInv
    <3>2. Switches' = Switches /\ \A i : SwitchAt(i)' = SwitchAt(i)
      BY <2>1 DEF Switches, SwitchAt
    <3> QED BY <2>1, <2>2, <2>3, <3>1, <3>2, NoSwitchStep DEF DetectorInv
  <2> QED BY <2>1, <2>2, <2>3 DEF DetectorInv
<1>2. CASE DetectBegin
  BY <1>2, FreshStart DEF DetectBegin
<1>3. ASSUME NEW e \in SchedEvent, AnalyzeStep(e) PROVE DetectorInv'
  BY <1>3, SchedStep
<1>4. ASSUME NEW e \in TraceEvent, TraceStep(e) PROVE DetectorInv'
  BY <1>4, TraceStepKeeps
<1>5. CASE Return
  BY <1>5 DEF Return, DetectorInv, StatePart
<1>6. CASE DetectorReset
  BY <1>0, <1>6 DEF DetectorReset, DetectorInv, StatePart
<1> QED BY <1>1, <1>2, <1>3, <1>4, <1>5, <1>6 DEF DetectorNext

LEMMA DetectorInvAlways == DetectorSpec => []DetectorInv
BY DetectorInvInit, DetectorInvStep, PTL DEF DetectorSpec

(* Every member of PriorityInversionDetector::Impl keeps its type: no      *)
(* duration is negative or wider than a time stamp.                        *)
THEOREM DetectorTypeCorrect == DetectorSpec => []DetectorTypeOK
<1>1. DetectorInv => DetectorTypeOK
  <2> SUFFICES ASSUME DetectorInv PROVE DetectorTypeOK
    OBVIOUS
  <2>1. ASSUME NEW i \in 1 .. Len(given)
        PROVE  given[i].ts \in TimeStamps /\ given[i].cpu \in Cpus
    <3>1. /\ SchedEvent \subseteq [ts : Times, cpu : Cpus, prev : Tasks, next : Tasks]
          /\ Times \subseteq TimeStamps
      BY TypesAssumption DEF SchedEvent, TimeStamps
    <3>2. CASE given = <<>>
      BY <3>2
    <3>3. CASE given \in Seq(SchedEvent)
      <4>1. given[i] \in SchedEvent
        BY <3>3, ElementOfSeq
      <4> QED BY <3>1, <4>1 DEF SchedEvent
    <3>4. CASE given \in Seq(TraceEvent)
      <4>1. given[i] \in TraceEvent
        BY <3>4, ElementOfSeq
      <4> QED BY <3>1, <4>1 DEF TraceEvent
    <3> QED BY <3>2, <3>3, <3>4 DEF DetectorInv, StatePart
  <2> QED BY <2>1 DEF DetectorTypeOK, DetectorInv, StatePart, InversionType, CPUType
<1> QED BY <1>1, DetectorInvAlways, PTL

(* Analyze and AnalyzeTraceEvents report exactly the inversions there are, *)
(* in order, each with the duration that the switch before it on the same  *)
(* CPU determines.                                                         *)
THEOREM InversionsAsDefinedHolds == DetectorSpec => []InversionsAsDefined
<1>1. DetectorInv => InversionsAsDefined
  BY DEF DetectorInv, InversionsAsDefined
<1> QED BY <1>1, DetectorInvAlways, PTL

(* No duration reaches back beyond the switch before it on its CPU, so no  *)
(* time of a CPU is counted in two inversions.                             *)
THEOREM DurationsDisjointHolds == DetectorSpec => []DurationsDisjoint
<1>1. DetectorInv => DurationsDisjoint
  <2> SUFFICES ASSUME DetectorInv, phase # "idle", Monotone
               PROVE  \E at \in [1 .. Len(inversions) -> Reported] :
                        /\ Lists(at, Reported)
                        /\ \A k \in 1 .. Len(inversions) :
                             /\ Earlier(at[k]) = {} => inversions[k].duration = 0
                             /\ \A j \in Earlier(at[k]) :
                                  SwitchAt(j).ts + inversions[k].duration
                                    <= SwitchAt(at[k]).ts
    BY Zenon DEF DurationsDisjoint
  <2>1. StatePart /\ InversionsAsDefined
    BY DEF DetectorInv
  <2>2. PICK at \in [1 .. Len(inversions) -> Reported] :
          /\ Lists(at, Reported)
          /\ \A k \in 1 .. Len(inversions) : inversions[k] = Inverting(at[k])
    BY <2>1 DEF InversionsAsDefined
  <2>3. Reported \subseteq Switches
    BY Zenon DEF Reported
  <2>4. ASSUME NEW i \in Reported
        PROVE  /\ Earlier(i) = {} => Inverting(i).duration = 0
               /\ \A j \in Earlier(i) :
                    SwitchAt(j).ts + Inverting(i).duration <= SwitchAt(i).ts
    <3> DEFINE began == {SwitchAt(j).ts : j \in Resumed(i)} \ {0}
               t == SwitchAt(i).ts
    <3>1. i \in Switches /\ t \in TimeStamps /\ t \in Nat
      BY <2>1, <2>3, SwitchType, SwitchFields, TypesAssumption DEF TimeStamps
    <3>2. \A j \in Earlier(i) : /\ SwitchAt(j).ts \in TimeStamps /\ j \in Switches
                               /\ SwitchAt(j).ts \in Nat /\ j \in Nat
                               /\ SwitchAt(j).ts <= t
                               /\ SwitchAt(j).cpu = SwitchAt(i).cpu
      <4>1. ASSUME NEW j \in Earlier(i)
            PROVE  j \in Switches /\ j < i /\ SwitchAt(j).cpu = SwitchAt(i).cpu
        BY DEF Earlier
      <4>2. ASSUME NEW j \in Earlier(i)
            PROVE  /\ SwitchAt(j).ts \in TimeStamps /\ SwitchAt(j).ts \in Nat
                   /\ j \in Nat
        BY <2>1, <4>1, SwitchType, SwitchFields, TypesAssumption DEF TimeStamps
      <4>3. ASSUME NEW j \in Earlier(i) PROVE SwitchAt(j).ts <= t
        BY <3>1, <4>1 DEF Monotone
      <4> QED BY <4>1, <4>2, <4>3
    <3>3. Inverting(i).duration = IF began = {} THEN 0 ELSE (t - Max(began)) % Word
      BY DEF Inverting
    <3>4. Resumed(i) \subseteq Earlier(i)
      BY Zenon DEF Resumed
    <3> HIDE DEF t
    <3>5. CASE began = {}
      <4>1. Inverting(i).duration = 0
        BY <3>3, <3>5
      <4> QED BY <3>1, <3>2, <4>1 DEF t
    <3>6. CASE began # {}
      <4>1. PICK m \in Resumed(i) : SwitchAt(m).ts \in began
        BY <3>6
      <4>2. m \in Earlier(i) /\ \A j \in Earlier(i) : j <= m
        BY <4>1, Zenon DEF Resumed
      <4>3. \A j \in Resumed(i) : j = m
        <5>1. \A j \in Resumed(i) : j \in Earlier(i) /\ m <= j
          BY <4>2, Zenon DEF Resumed
        <5> QED BY <3>2, <4>2, <5>1
      <4>4. began = {SwitchAt(m).ts}
        BY <4>1, <4>3
      <4>5. Max({SwitchAt(m).ts}) = SwitchAt(m).ts
        BY <3>2, <4>2, GreatestOfOne
      <4> HIDE DEF began
      <4>6. Inverting(i).duration = t - SwitchAt(m).ts
        <5>1. Inverting(i).duration = (t - SwitchAt(m).ts) % Word
          BY <3>3, <3>6, <4>4, <4>5
        <5>2. SwitchAt(m).ts <= t /\ SwitchAt(m).ts \in TimeStamps
          BY <3>2, <4>2
        <5> QED BY <3>1, <5>1, <5>2, WordDifference
      <4>7. ASSUME NEW j \in Earlier(i)
            PROVE  SwitchAt(j).ts <= SwitchAt(m).ts
        <5>1. j <= m /\ j \in Nat /\ m \in Nat
          BY <3>2, <4>2
        <5>2. CASE j = m
          BY <3>2, <5>2
        <5>3. CASE j < m
          <6>1. SwitchAt(j).cpu = SwitchAt(m).cpu /\ j \in Switches /\ m \in Switches
            BY <3>2, <4>2
          <6> QED BY <5>3, <6>1 DEF Monotone
        <5> QED BY <5>1, <5>2, <5>3
      <4>8. ASSUME NEW j \in Earlier(i)
            PROVE  SwitchAt(j).ts + Inverting(i).duration <= t
        <5> DEFINE a == SwitchAt(j).ts
                   b == SwitchAt(m).ts
                   d == Inverting(i).duration
        <5>1. a \in Nat /\ b \in Nat /\ a <= b /\ d = t - b /\ t \in Nat
          BY <3>1, <3>2, <4>2, <4>6, <4>7
        <5> HIDE DEF a, b, d
        <5>2. a + d <= t
          BY <5>1
        <5> QED BY <5>2 DEF a, d
      <4> QED BY <4>2, <4>8 DEF t
    <3> QED BY <3>5, <3>6
  <2>5. ASSUME NEW k \in 1 .. Len(inversions)
        PROVE  /\ Earlier(at[k]) = {} => inversions[k].duration = 0
               /\ \A j \in Earlier(at[k]) :
                    SwitchAt(j).ts + inversions[k].duration <= SwitchAt(at[k]).ts
    <3>1. inversions[k] = Inverting(at[k]) /\ at[k] \in Reported
      BY <2>2
    <3> QED BY <2>4, <3>1
  <2> QED BY <2>2, <2>5
<1> QED BY <1>1, DetectorInvAlways, PTL

-----------------------------------------------------------------------------
(* rt_sched *)

Run == [start : Nat, took : RunTimes]
ToolEvent == [ts : Nat, pid : Int, kind : {"kFunctionEntry", "kFunctionExit"}]
Printed == [ts : Nat, pid : Int, deadline : Int, actual : Int, overrun : Int]
PrintedInversion == [ts : Nat, high : Tasks, low : Tasks, duration : Nat]

(* The trace is an entry and the exit after it for each run.               *)
GeneratorPart ==
  /\ tool_step \in {"start", "runs", "monitor", "switches", "done"}
  /\ samples_left \in Nat /\ clock \in Nat /\ Base <= clock
  /\ runs \in Seq(Run)
  /\ trace \in Seq(ToolEvent) /\ Len(trace) = 2 * Len(runs)
  /\ \A i \in 1 .. Len(runs) :
       /\ trace[2 * i - 1] = EntryAt(i - 1, runs[i].start)
       /\ trace[2 * i] = ExitAt(i - 1, runs[i].start + runs[i].took)

ConfigurationPart ==
  /\ deadlines = Nothing /\ default_deadline_ns \in TimeStamps
  /\ analyzing <=> tool_step = "monitor"

(* The reports are the late ones of the first h runs.                      *)
LateAmong(h) ==
  {i \in 1 .. h : default_deadline_ns # 0 /\ runs[i].took > default_deadline_ns}
Reporting(v, i) ==
  <<v.pid, v.ts, v.actual>> = <<PidOf(i - 1), runs[i].start, runs[i].took>>
ToldUpTo(h) ==
  /\ violations \in Seq(Printed)
  /\ \E late \in [1 .. Len(violations) -> LateAmong(h)] :
       /\ Lists(late, LateAmong(h))
       /\ \A k \in 1 .. Len(violations) : Reporting(violations[k], late[k])

(* Nobody waits but the task whose entry was the last event.               *)
ToldPart ==
  /\ tool_step \in {"start", "runs"} => fed = 0
  /\ tool_step = "monitor" =>
       \E h \in Nat :
         /\ h <= Len(runs)
         /\ ToldUpTo(h)
         /\ \/ fed = 2 * h /\ last_event = Nothing
            \/ /\ fed = 2 * h + 1 /\ h < Len(runs)
               /\ last_event = Put(Nothing, PidOf(h), EntryAt(h, runs[h + 1].start))
  /\ tool_step \in {"switches", "done"} => ToldUpTo(Len(runs))

(* The switches are between base_ns and now.                               *)
SwitchPart ==
  /\ phase \in {"idle", "sched"}
  /\ phase = "sched" => tool_step = "switches"
  /\ cpu_states \in [Cpus -> [pid : Int, start : Nat]]
  /\ phase = "sched" =>
       \A c \in Cpus : cpu_states[c].start = 0 \/ cpu_states[c].start \in Base .. clock
  /\ inversions \in Seq(PrintedInversion)
  /\ \A k \in 1 .. Len(inversions) : Base + inversions[k].duration <= inversions[k].ts

ToolInv == GeneratorPart /\ ConfigurationPart /\ ToldPart /\ SwitchPart

LEMMA ToolInvInit == ToolInit => ToolInv
<1> SUFFICES ASSUME ToolInit PROVE ToolInv
  OBVIOUS
<1>1. /\ Base \in Nat /\ 0 \in TimeStamps
      /\ <<>> \in Seq(Run) /\ <<>> \in Seq(ToolEvent) /\ <<>> \in Seq(PrintedInversion)
      /\ Len(<<>>) = 0
  BY ToolAssumption, TypesAssumption, EmptySeq DEF TimeStamps
<1>2. GeneratorPart
  <2>1. /\ tool_step = "start" /\ samples_left = 0 /\ clock = Base
        /\ trace = <<>> /\ runs = <<>>
    BY DEF ToolInit
  <2> QED BY <1>1, <2>1 DEF GeneratorPart
<1>3. ConfigurationPart
  BY <1>1 DEF ToolInit, MonitorInit, ConfigurationPart
<1>4. ToldPart
  BY DEF ToolInit, ToldPart
<1>5. SwitchPart
  <2>1. FreshCPU \in [pid : Int, start : Nat]
    BY DEF FreshCPU
  <2>2. /\ inversions = <<>> /\ phase = "idle"
        /\ cpu_states = [c \in Cpus |-> FreshCPU]
    BY DEF ToolInit, DetectorInit
  <2> QED BY <1>1, <2>1, <2>2 DEF SwitchPart
<1> QED BY <1>2, <1>3, <1>4, <1>5 DEF ToolInv

LEMMA RunFacts ==
  ASSUME GeneratorPart
  PROVE  /\ Len(runs) \in Nat
         /\ \A i \in 1 .. Len(runs) : /\ runs[i].start \in Nat
                                      /\ runs[i].took \in 1 .. Word - 1
<1>1. runs \in Seq(Run) /\ Len(runs) \in Nat
  BY LenProperties DEF GeneratorPart
<1>2. \A run \in Run : run.start \in Nat /\ run.took \in 1 .. Word - 1
  BY ToolAssumption DEF Run
<1> QED BY <1>1, <1>2, ElementOfSeq

(* Two more events for another run.                                        *)
LEMMA GenerateStep ==
  ASSUME GeneratorPart, NEW exec \in RunTimes, GenerateRun(exec)
  PROVE  GeneratorPart'
<1>0. PICK n : n = Len(runs)
  OBVIOUS
<1> DEFINE entry == EntryAt(n, clock)
           exit == ExitAt(n, clock + exec)
           run == [start |-> clock, took |-> exec]
<1>1. /\ runs \in Seq(Run) /\ trace \in Seq(ToolEvent) /\ Len(trace) = 2 * n
      /\ n \in Nat /\ clock \in Nat /\ exec \in Nat \ {0} /\ Gap \in Nat
      /\ Base \in Nat /\ Base <= clock /\ samples_left \in Nat
  BY <1>0, LenProperties, ToolAssumption, TypesAssumption DEF GeneratorPart
<1>2. /\ runs' = Append(runs, run) /\ trace' = trace \o <<entry, exit>>
      /\ clock' = clock + exec + Gap /\ samples_left > 0
      /\ samples_left' = samples_left - 1 /\ tool_step' = tool_step
  BY <1>0 DEF GenerateRun
<1>3. run \in Run
  BY <1>1 DEF Run
<1>4. PidOf(n) \in Int
  BY <1>1, ToolAssumption DEF PidOf
<1>5. entry \in ToolEvent /\ exit \in ToolEvent
  BY <1>1, <1>4 DEF EntryAt, ExitAt, ToolEvent
<1> HIDE DEF entry, exit, run
<1>6. /\ runs' \in Seq(Run) /\ Len(runs') = n + 1 /\ runs'[n + 1] = run
      /\ \A i \in 1 .. n : runs'[i] = runs[i]
  BY <1>0, <1>1, <1>2, <1>3, AppendFacts
<1>7. /\ trace' \in Seq(ToolEvent) /\ Len(trace') = 2 * n + 2
      /\ \A i \in 1 .. 2 * n : trace'[i] = trace[i]
      /\ trace'[2 * n + 1] = entry /\ trace'[2 * n + 2] = exit
  <2>1. /\ <<entry, exit>> \in Seq(ToolEvent) /\ Len(<<entry, exit>>) = 2
        /\ <<entry, exit>>[1] = entry /\ <<entry, exit>>[2] = exit
    BY <1>5
  <2>2. PICK two : two = <<entry, exit>>
    OBVIOUS
  <2>3. /\ trace \o two \in Seq(ToolEvent)
        /\ Len(trace \o two) = Len(trace) + Len(two)
        /\ \A i \in 1 .. Len(trace) + Len(two) :
             (trace \o two)[i] = IF i <= Len(trace) THEN trace[i]
                                 ELSE two[i - Len(trace)]
    BY <1>1, <2>1, <2>2, ConcatProperties
  <2>4. /\ 2 * n + 1 \in 1 .. 2 * n + 2 /\ 2 * n + 2 \in 1 .. 2 * n + 2
        /\ ~(2 * n + 1 <= 2 * n) /\ ~(2 * n + 2 <= 2 * n)
        /\ (2 * n + 1) - 2 * n = 1 /\ (2 * n + 2) - 2 * n = 2
        /\ \A i \in 1 .. 2 * n : i \in 1 .. 2 * n + 2 /\ i <= 2 * n
    BY <1>1
  <2> QED BY <1>1, <1>2, <2>1, <2>2, <2>3, <2>4
<1>8. ASSUME NEW i \in 1 .. n + 1
      PROVE  /\ trace'[2 * i - 1] = EntryAt(i - 1, runs'[i].start)
             /\ trace'[2 * i] = ExitAt(i - 1, runs'[i].start + runs'[i].took)
  <2>1. CASE i = n + 1
    <3>1. 2 * i - 1 = 2 * n + 1 /\ 2 * i = 2 * n + 2 /\ i - 1 = n
      BY <1>1, <2>1
    <3>2. runs'[i].start = clock /\ runs'[i].took = exec
      BY <1>6, <2>1 DEF run
    <3> QED BY <1>7, <3>1, <3>2 DEF entry, exit
  <2>2. CASE i # n + 1
    <3>1. i \in 1 .. n /\ 2 * i - 1 \in 1 .. 2 * n /\ 2 * i \in 1 .. 2 * n
      BY <1>1, <2>2
    <3>2. /\ trace[2 * i - 1] = EntryAt(i - 1, runs[i].start)
          /\ trace[2 * i] = ExitAt(i - 1, runs[i].start + runs[i].took)
      BY <1>0, <3>1 DEF GeneratorPart
    <3> QED BY <1>6, <1>7, <3>1, <3>2
  <2> QED BY <2>1, <2>2
<1>9. /\ clock' \in Nat /\ Base <= clock' /\ samples_left' \in Nat
      /\ Len(trace') = 2 * Len(runs')
  BY <1>1, <1>2, <1>6, <1>7
<1> QED BY <1>2, <1>6, <1>7, <1>8, <1>9 DEF GeneratorPart

(* The entry of a run is only remembered.                                  *)
LEMMA EntryEvent ==
  ASSUME GeneratorPart, ConfigurationPart, tool_step = "monitor",
         NEW h \in Nat, h <= Len(runs), ToldUpTo(h), fed = 2 * h, last_event = Nothing,
         NEW e, MonitorEvent(e)
  PROVE  /\ UNCHANGED violations /\ h < Len(runs) /\ fed' = 2 * h + 1
         /\ last_event' = Put(Nothing, PidOf(h), EntryAt(h, runs[h + 1].start))
<1>1. /\ fed < Len(trace) /\ Len(trace) = 2 * Len(runs) /\ Len(runs) \in Nat
      /\ e = trace[2 * h + 1] /\ fed' = fed + 1
      /\ AnalyzeFirst(e) \/ AnalyzeSecond(e)
  BY LenProperties DEF MonitorEvent, GeneratorPart
<1>2. h < Len(runs) /\ h + 1 \in 1 .. Len(runs)
      /\ 2 * h + 1 = 2 * (h + 1) - 1 /\ (h + 1) - 1 = h
  BY <1>1
<1>3. e = EntryAt(h, runs[h + 1].start)
  BY <1>1, <1>2 DEF GeneratorPart
<1>4. e.pid = PidOf(h)
  BY <1>3 DEF EntryAt
<1>5. AnalyzeFirst(e)
  BY <1>1 DEF AnalyzeSecond, Nothing
<1> QED BY <1>1, <1>2, <1>3, <1>4, <1>5 DEF AnalyzeFirst

(* The exit after it is checked against it.                                *)
LEMMA ExitEvent ==
  ASSUME GeneratorPart, ConfigurationPart, tool_step = "monitor",
         NEW h \in Nat, h < Len(runs), ToldUpTo(h), fed = 2 * h + 1,
         last_event = Put(Nothing, PidOf(h), EntryAt(h, runs[h + 1].start)),
         NEW e, MonitorEvent(e)
  PROVE  ToldUpTo(h + 1)' /\ fed' = 2 * (h + 1) /\ last_event' = Nothing
<1>0. PICK n : n = h + 1
  OBVIOUS
<1> DEFINE run == runs[n]
           entry == EntryAt(h, run.start)
           exit == ExitAt(h, run.start + run.took)
           limit == default_deadline_ns
<1>1. /\ fed < Len(trace) /\ Len(runs) \in Nat
      /\ e = trace[fed + 1] /\ fed' = fed + 1
      /\ UNCHANGED <<trace, runs>>
      /\ AnalyzeFirst(e) \/ AnalyzeSecond(e)
  BY LenProperties DEF MonitorEvent, GeneratorPart, generatorVars
<1>2. n \in 1 .. Len(runs) /\ n \in Nat /\ fed + 1 = 2 * n /\ n - 1 = h /\ fed' = 2 * n
  BY <1>0, <1>1
<1>3. e = exit
  BY <1>1, <1>2 DEF GeneratorPart
<1>4. /\ last_event = Put(Nothing, PidOf(h), entry) /\ e.pid = PidOf(h)
      /\ entry.pid = PidOf(h) /\ entry.ts = run.start /\ e.ts = run.start + run.took
  BY <1>0, <1>3 DEF EntryAt, ExitAt
<1>5. DOMAIN last_event = {PidOf(h)} /\ last_event[PidOf(h)] = entry
  BY <1>4 DEF Put, Nothing
<1>6. AnalyzeSecond(e)
  BY <1>1, <1>4, <1>5 DEF AnalyzeFirst
<1>7. last_event' = Nothing
  <2>1. last_event' = Erase(last_event, PidOf(h))
    BY <1>4, <1>6 DEF AnalyzeSecond
  <2>2. DOMAIN last_event \ {PidOf(h)} = {}
    BY <1>5
  <2> QED BY <2>1, <2>2 DEF Erase, Nothing
<1>8. /\ run.start \in Nat /\ run.took \in 1 .. Word - 1 /\ limit \in Nat
      /\ Word \in Nat \ {0} /\ UNCHANGED default_deadline_ns
  <2>1. UNCHANGED default_deadline_ns
    BY <1>6 DEF AnalyzeSecond, configuration
  <2> QED BY <1>2, <2>1, RunFacts, TypesAssumption DEF ConfigurationPart, TimeStamps
<1>9. Check(entry, e)
  <2>1. e.ts > entry.ts
    BY <1>4, <1>8
  <2> QED BY <1>4, <1>5, <1>6, <2>1 DEF AnalyzeSecond
<1>10. Elapsed(entry, e) = run.took /\ \A p : DeadlineOf(p) = limit
  <2>1. DOMAIN deadlines = {}
    BY DEF ConfigurationPart, Nothing
  <2>2. \A p : DeadlineOf(p) = limit
    BY <2>1 DEF DeadlineOf
  <2>3. e.ts - entry.ts = run.took
    BY <1>4, <1>8
  <2>4. run.took % Word = run.took
    BY <1>8, FitsInWord DEF TimeStamps
  <2> QED BY <2>2, <2>3, <2>4 DEF Elapsed
<1>11. PICK new : new = Report(entry, e)
  OBVIOUS
<1>12. /\ new \in Printed /\ Reporting(new, n)
       /\ Late(entry, e) <=> limit # 0 /\ run.took > limit
  <2>1. new = [ts |-> run.start, pid |-> PidOf(h), deadline |-> limit,
               actual |-> run.took, overrun |-> run.took - limit]
    BY <1>4, <1>10, <1>11 DEF Report
  <2>2. PidOf(h) \in Int
    BY ToolAssumption DEF PidOf
  <2>3. new \in Printed
    BY <1>8, <2>1, <2>2 DEF Printed
  <2>4. Reporting(new, n)
    BY <1>2, <2>1 DEF Reporting
  <2> QED BY <1>4, <1>10, <2>3, <2>4 DEF Late
<1> DEFINE late == limit # 0 /\ run.took > limit
<1>13. violations' = IF late THEN Append(violations, new) ELSE violations
  BY <1>9, <1>11, <1>12 DEF Check
<1>14. LateAmong(n)' = IF late THEN LateAmong(h) \cup {n} ELSE LateAmong(h)
  <2>1. \A i : i \in 1 .. n <=> i \in 1 .. h \/ i = n
    BY <1>0
  <2>2. n \notin 1 .. h
    BY <1>0
  <2>3. \A i : i \in LateAmong(n)'
                <=> i \in 1 .. n /\ limit # 0 /\ runs[i].took > limit
    BY <1>1, <1>8 DEF LateAmong
  <2>4. \A i : i \in LateAmong(h)
                <=> i \in 1 .. h /\ limit # 0 /\ runs[i].took > limit
    BY DEF LateAmong
  <2>5. CASE late
    <3>1. \A i : i \in LateAmong(n)' <=> i \in LateAmong(h) \/ i = n
      BY <2>1, <2>3, <2>4, <2>5
    <3> QED BY <2>5, <3>1
  <2>6. CASE ~late
    <3>1. \A i : i \in LateAmong(n)' <=> i \in LateAmong(h)
      BY <2>1, <2>2, <2>3, <2>4, <2>6
    <3> QED BY <2>6, <3>1
  <2> QED BY <2>5, <2>6
<1> HIDE DEF late, run, entry, exit, limit
<1>15. \A v, i : Reporting(v, i)' <=> Reporting(v, i)
  BY <1>1 DEF Reporting
<1>16. PICK list \in [1 .. Len(violations) -> LateAmong(h)] :
         /\ Lists(list, LateAmong(h))
         /\ \A k \in 1 .. Len(violations) : Reporting(violations[k], list[k])
  BY DEF ToldUpTo
<1>17. ToldUpTo(n)'
  <2>1. CASE late
    <3>0. PICK c : c = Len(violations)
      OBVIOUS
    <3>1. /\ c \in Nat /\ Len(violations') = c + 1 /\ violations' \in Seq(Printed)
          /\ \A k \in 1 .. c : violations'[k] = violations[k]
          /\ violations'[c + 1] = new
      <4>1. violations \in Seq(Printed) /\ violations' = Append(violations, new)
        BY <1>13, <2>1 DEF ToldUpTo
      <4> QED BY <1>12, <3>0, <4>1, LenProperties, AppendFacts
    <3>2. PICK next \in [1 .. c + 1 -> LateAmong(h) \cup {n}] :
            /\ Lists(next, LateAmong(h) \cup {n})
            /\ \A k \in 1 .. c : next[k] = list[k]
            /\ next[c + 1] = n
      <4>1. \A i \in LateAmong(h) : i < n
        BY <1>0 DEF LateAmong
      <4>2. c \in Nat /\ list \in [1 .. c -> LateAmong(h)] /\ Lists(list, LateAmong(h))
        BY <1>16, <3>0, <3>1
      <4> DEFINE next == Longer(list, c, n)
      <4>3. /\ next \in [1 .. c + 1 -> LateAmong(h) \cup {n}]
            /\ Lists(next, LateAmong(h) \cup {n})
        BY <4>1, <4>2, ListGrows
      <4>4. /\ \A k \in 1 .. c : next[k] = list[k]
            /\ next[c + 1] = n
        BY <4>2 DEF Longer
      <4> HIDE DEF next
      <4> QED BY <4>3, <4>4
    <3>3. LateAmong(n)' = LateAmong(h) \cup {n}
      BY <1>14, <2>1
    <3>4. ASSUME NEW k \in 1 .. c + 1 PROVE Reporting(violations[k], next[k])'
      <4>1. CASE k = c + 1
        BY <1>12, <1>15, <3>1, <3>2, <4>1
      <4>2. CASE k # c + 1
        <5>1. k \in 1 .. c
          BY <3>1, <4>2
        <5>2. violations'[k] = violations[k] /\ next[k] = list[k]
          BY <3>1, <3>2, <5>1
        <5>3. Reporting(violations[k], list[k])
          BY <1>16, <3>0, <5>1
        <5>4. Reporting(violations'[k], next[k])
          BY <5>2, <5>3
        <5> QED BY <1>1, <5>4 DEF Reporting
      <4> QED BY <4>1, <4>2
    <3>5. next \in [1 .. Len(violations') -> LateAmong(n)'] /\ Lists(next, LateAmong(n)')
      BY <3>1, <3>2, <3>3
    <3>6. \A k \in 1 .. Len(violations') : Reporting(violations[k], next[k])'
      BY <3>1, <3>4
    <3> QED BY <3>1, <3>5, <3>6, Zenon DEF ToldUpTo
  <2>2. CASE ~late
    <3>1. LateAmong(n)' = LateAmong(h) /\ violations' = violations
      BY <1>13, <1>14, <2>2
    <3>2. \A k \in 1 .. Len(violations) : Reporting(violations[k], list[k])'
      BY <1>1, <1>16, <3>1 DEF Reporting
    <3>3. violations \in Seq(Printed)
      BY DEF ToldUpTo
    <3> QED BY <1>16, <3>1, <3>2, <3>3 DEF ToldUpTo
  <2> QED BY <2>1, <2>2
<1> QED BY <1>0, <1>2, <1>7, <1>17

(* A step that leaves the generator, the configuration or the switches.    *)
LEMMA GeneratorStays ==
  ASSUME GeneratorPart, UNCHANGED <<trace, runs>>, clock' \in Nat, Base <= clock',
         samples_left' \in Nat,
         tool_step' \in {"start", "runs", "monitor", "switches", "done"}
  PROVE  GeneratorPart'
BY DEF GeneratorPart

LEMMA ToldStays ==
  ASSUME NEW h, ToldUpTo(h), UNCHANGED <<violations, runs, default_deadline_ns>>
  PROVE  ToldUpTo(h)'
<1>1. LateAmong(h)' = LateAmong(h)
  BY DEF LateAmong
<1>2. \A v, i : Reporting(v, i)' <=> Reporting(v, i)
  BY DEF Reporting
<1>3. violations' = violations
  OBVIOUS
<1>4. PICK late \in [1 .. Len(violations) -> LateAmong(h)] :
        /\ Lists(late, LateAmong(h))
        /\ \A k \in 1 .. Len(violations) : Reporting(violations[k], late[k])
  BY DEF ToldUpTo
<1>5. \A k \in 1 .. Len(violations) : Reporting(violations[k], late[k])'
  BY <1>3, <1>4 DEF Reporting
<1>6. violations' \in Seq(Printed)
  BY <1>3 DEF ToldUpTo
<1> QED BY <1>1, <1>3, <1>4, <1>5, <1>6 DEF ToldUpTo

LEMMA SwitchesStay ==
  ASSUME SwitchPart, UNCHANGED detectorVars, phase = "idle"
  PROVE  SwitchPart'
BY DEF SwitchPart, detectorVars

LEMMA MonitorBegins ==
  ASSUME ToolInv, MonitorBegin PROVE ToolInv'
<1>1. /\ tool_step = "runs" /\ tool_step' = "monitor"
      /\ violations' = <<>> /\ last_event' = Nothing /\ analyzing'
      /\ UNCHANGED <<samples_left, clock, trace, runs, fed, detectorVars,
                     deadlines, default_deadline_ns>>
  BY DEF MonitorBegin, AnalyzeBegin, configuration, generatorVars
<1>2. GeneratorPart'
  BY <1>1 DEF ToolInv, GeneratorPart
<1>3. ConfigurationPart'
  BY <1>1 DEF ToolInv, ConfigurationPart
<1>4. ToldPart'
  <2>1. fed' = 0 /\ Len(runs') \in Nat
    BY <1>1, LenProperties DEF ToolInv, ToldPart, GeneratorPart
  <2>2. LateAmong(0)' = {} /\ Len(violations') = 0 /\ violations' \in Seq(Printed)
    BY <1>1 DEF LateAmong
  <2>3. ToldUpTo(0)'
    <3>1. <<>> \in [1 .. 0 -> {}] /\ DOMAIN <<>> = {}
      BY SMT
    <3>2. Lists(<<>>, {})
      BY <3>1 DEF Lists
    <3> QED BY <2>2, <3>1, <3>2 DEF ToldUpTo
  <2>4. 0 \in Nat /\ 0 <= Len(runs') /\ fed' = 2 * 0
    BY <2>1
  <2> QED BY <1>1, <2>3, <2>4 DEF ToldPart
<1>5. SwitchPart'
  BY <1>1, SwitchesStay DEF ToolInv, SwitchPart
<1> QED BY <1>2, <1>3, <1>4, <1>5 DEF ToolInv

LEMMA MonitorGoesOn ==
  ASSUME ToolInv, NEW e, MonitorEvent(e) PROVE ToolInv'
<1>1. /\ tool_step = "monitor" /\ tool_step' = "monitor"
      /\ analyzing /\ analyzing' = analyzing
      /\ UNCHANGED <<samples_left, clock, trace, runs, detectorVars,
                     deadlines, default_deadline_ns>>
      /\ GeneratorPart /\ ConfigurationPart /\ ToldPart /\ SwitchPart
  BY DEF MonitorEvent, AnalyzeFirst, AnalyzeSecond, configuration, generatorVars, ToolInv
<1>2. GeneratorPart'
  BY <1>1 DEF GeneratorPart
<1>3. ConfigurationPart'
  BY <1>1 DEF ConfigurationPart
<1>4. ToldPart'
  <2>1. PICK h \in Nat :
          /\ h <= Len(runs)
          /\ ToldUpTo(h)
          /\ \/ fed = 2 * h /\ last_event = Nothing
             \/ /\ fed = 2 * h + 1 /\ h < Len(runs)
                /\ last_event = Put(Nothing, PidOf(h), EntryAt(h, runs[h + 1].start))
    BY <1>1 DEF ToldPart
  <2>2. Len(runs) \in Nat /\ runs' = runs
    BY <1>1, RunFacts
  <2>3. CASE fed = 2 * h /\ last_event = Nothing
    <3>1. /\ UNCHANGED violations /\ h < Len(runs) /\ fed' = 2 * h + 1
          /\ last_event' = Put(Nothing, PidOf(h), EntryAt(h, runs[h + 1].start))
      BY <1>1, <2>1, <2>3, EntryEvent
    <3>2. ToldUpTo(h)'
      BY <1>1, <2>1, <3>1, ToldStays
    <3> QED BY <1>1, <2>1, <2>2, <3>1, <3>2 DEF ToldPart
  <2>4. CASE /\ fed = 2 * h + 1 /\ h < Len(runs)
             /\ last_event = Put(Nothing, PidOf(h), EntryAt(h, runs[h + 1].start))
    <3>1. ToldUpTo(h + 1)' /\ fed' = 2 * (h + 1) /\ last_event' = Nothing
      BY <1>1, <2>1, <2>4, ExitEvent
    <3>2. h + 1 \in Nat /\ h + 1 <= Len(runs)
      BY <2>2, <2>4
    <3> QED BY <1>1, <2>2, <3>1, <3>2 DEF ToldPart
  <2> QED BY <2>1, <2>3, <2>4
<1>5. SwitchPart'
  BY <1>1, SwitchesStay DEF SwitchPart
<1> QED BY <1>2, <1>3, <1>4, <1>5 DEF ToolInv

LEMMA MonitorReturns ==
  ASSUME ToolInv, MonitorReturn PROVE ToolInv'
<1>1. /\ tool_step = "monitor" /\ tool_step' = "switches" /\ fed = Len(trace)
      /\ analyzing' = FALSE /\ clock' = Base /\ samples_left' = Len(runs)
      /\ UNCHANGED <<trace, runs, fed, detectorVars, violations,
                     deadlines, default_deadline_ns>>
      /\ GeneratorPart /\ ConfigurationPart /\ ToldPart /\ SwitchPart
  BY DEF MonitorReturn, AnalyzeReturn, configuration, ToolInv
<1>2. GeneratorPart'
  BY <1>1, RunFacts, ToolAssumption DEF GeneratorPart
<1>3. ConfigurationPart'
  BY <1>1 DEF ConfigurationPart
<1>4. ToldPart'
  <2>1. PICK h \in Nat :
          /\ h <= Len(runs)
          /\ ToldUpTo(h)
          /\ fed = 2 * h \/ (fed = 2 * h + 1 /\ h < Len(runs))
    BY <1>1 DEF ToldPart
  <2>2. h = Len(runs)
    <3>1. fed = 2 * Len(runs) /\ Len(runs) \in Nat
      BY <1>1, RunFacts DEF GeneratorPart
    <3> QED BY <2>1, <3>1
  <2>3. ToldUpTo(h)' /\ Len(runs') = h
    BY <1>1, <2>1, <2>2, ToldStays
  <2> QED BY <1>1, <2>3 DEF ToldPart
<1>5. SwitchPart'
  BY <1>1, SwitchesStay DEF SwitchPart
<1> QED BY <1>2, <1>3, <1>4, <1>5 DEF ToolInv

(* A switch drawn at random; its duration counts from one before it.       *)
LEMMA SwitchDrawn ==
  ASSUME ToolInv, NEW cpu \in Cpus, NEW prev \in Tasks, NEW next \in Tasks,
         NEW t \in Intervals, DetectSwitch(cpu, prev, next, t)
  PROVE  ToolInv'
<1> DEFINE e == [ts |-> clock, cpu |-> cpu, prev |-> prev, next |-> next]
           state == cpu_states[cpu]
<1>1. /\ tool_step = "switches" /\ tool_step' = tool_step
      /\ phase = "sched" /\ phase' = "sched" /\ Detect(e)
      /\ clock' = clock + t /\ samples_left > 0 /\ samples_left' = samples_left - 1
      /\ UNCHANGED <<trace, runs, fed, monitorVars>>
      /\ GeneratorPart /\ ConfigurationPart /\ ToldPart /\ SwitchPart
  BY DEF DetectSwitch, AnalyzeStep, ToolInv
<1>2. /\ clock \in Nat /\ Base \in Nat /\ Base <= clock /\ t \in Nat /\ clock' \in Nat
      /\ Base <= clock' /\ clock <= clock' /\ samples_left' \in Nat
  BY <1>1, ToolAssumption DEF GeneratorPart
<1>3. GeneratorPart'
  BY <1>1, <1>2, GeneratorStays DEF GeneratorPart
<1>4. /\ UNCHANGED <<deadlines, default_deadline_ns, violations, last_event, analyzing>>
  BY <1>1 DEF monitorVars
<1>5. ConfigurationPart'
  BY <1>1, <1>4 DEF ConfigurationPart
<1>6. ToldPart'
  <2>1. ToldUpTo(Len(runs)) /\ Len(runs') = Len(runs)
    BY <1>1 DEF ToldPart
  <2>2. PICK n : n = Len(runs)
    OBVIOUS
  <2>3. ToldUpTo(n)'
    BY <1>1, <1>4, <2>1, <2>2, ToldStays
  <2> QED BY <1>1, <2>1, <2>2, <2>3 DEF ToldPart
<1>7. /\ state.start = 0 \/ state.start \in Base .. clock
      /\ state.start \in Nat /\ cpu_states \in [Cpus -> [pid : Int, start : Nat]]
  BY <1>1 DEF SwitchPart
<1>8. Inversion(e, state) \in PrintedInversion
      /\ Base + Inversion(e, state).duration <= Inversion(e, state).ts
  <2> DEFINE d == (clock - state.start) % Word
  <2>1. state.start > 0 => /\ clock - state.start \in Nat
                           /\ Base <= state.start
    BY <1>2, <1>7
  <2>2. state.start > 0 => d \in Nat /\ d <= clock - state.start
    BY <2>1, ModAtMost, TypesAssumption
  <2>3. Inversion(e, state) =
          [ts |-> clock, high |-> prev, low |-> next,
           duration |-> IF state.pid = prev.pid /\ state.start > 0 THEN d ELSE 0]
    BY DEF Inversion
  <2> HIDE DEF d, e, state
  <2>4. CASE state.pid = prev.pid /\ state.start > 0
    <3>1. /\ Inversion(e, state) = [ts |-> clock, high |-> prev, low |-> next,
                                    duration |-> d]
          /\ d \in Nat /\ Base + d <= clock
      BY <1>2, <1>7, <2>1, <2>2, <2>3, <2>4
    <3> QED BY <1>2, <3>1 DEF PrintedInversion
  <2>5. CASE ~(state.pid = prev.pid /\ state.start > 0)
    <3>1. Inversion(e, state) = [ts |-> clock, high |-> prev, low |-> next,
                                 duration |-> 0]
      BY <2>3, <2>5
    <3> QED BY <1>2, <3>1 DEF PrintedInversion
  <2> QED BY <2>4, <2>5
<1>9. SwitchPart'
  <2>1. PICK new : new = Inversion(e, state)
    OBVIOUS
  <2>2. /\ inversions' = IF Inverted(e) THEN Append(inversions, new) ELSE inversions
        /\ cpu_states' = [cpu_states EXCEPT ![cpu] = [pid |-> next.pid, start |-> clock]]
    BY <1>1, <2>1 DEF Detect
  <2>3. next.pid \in Int
    BY DetectorAssumption
  <2>4. cpu_states' \in [Cpus -> [pid : Int, start : Nat]]
    BY <1>2, <1>7, <2>2, <2>3
  <2>5. ASSUME NEW c \in Cpus
        PROVE  cpu_states'[c].start = 0 \/ cpu_states'[c].start \in Base .. clock'
    <3>1. CASE c = cpu
      BY <1>2, <1>7, <2>2, <3>1
    <3>2. CASE c # cpu
      <4>1. cpu_states'[c] = cpu_states[c] /\ cpu_states[c].start \in Nat
        BY <1>7, <2>2, <3>2
      <4>2. cpu_states[c].start = 0 \/ cpu_states[c].start \in Base .. clock
        BY <1>1 DEF SwitchPart
      <4> QED BY <1>2, <4>1, <4>2
    <3> QED BY <3>1, <3>2
  <2>6. /\ inversions' \in Seq(PrintedInversion)
        /\ \A k \in 1 .. Len(inversions') :
             Base + inversions'[k].duration <= inversions'[k].ts
    <3>1. /\ inversions \in Seq(PrintedInversion)
          /\ \A k \in 1 .. Len(inversions) :
               Base + inversions[k].duration <= inversions[k].ts
      BY <1>1 DEF SwitchPart
    <3>2. CASE Inverted(e)
      <4>1. inversions' = Append(inversions, new)
        BY <2>2, <3>2
      <4>2. /\ new \in PrintedInversion /\ Base + new.duration <= new.ts
        BY <1>8, <2>1
      <4> HIDE DEF e, state
      <4>3. /\ inversions' \in Seq(PrintedInversion)
            /\ Len(inversions') = Len(inversions) + 1 /\ Len(inversions) \in Nat
            /\ \A k \in 1 .. Len(inversions) : inversions'[k] = inversions[k]
            /\ inversions'[Len(inversions) + 1] = new
        BY <3>1, <4>1, <4>2, AppendFacts, LenProperties
      <4>4. ASSUME NEW k \in 1 .. Len(inversions')
            PROVE  Base + inversions'[k].duration <= inversions'[k].ts
        <5>1. CASE k = Len(inversions) + 1
          BY <4>2, <4>3, <5>1
        <5>2. CASE k # Len(inversions) + 1
          <6>1. k \in 1 .. Len(inversions)
            BY <4>3, <5>2
          <6> QED BY <3>1, <4>3, <6>1
        <5> QED BY <5>1, <5>2
      <4> QED BY <4>3, <4>4
    <3>3. CASE ~Inverted(e)
      BY <2>2, <3>1, <3>3
    <3> QED BY <3>2, <3>3
  <2> HIDE DEF e, state
  <2> QED BY <1>1, <2>4, <2>5, <2>6 DEF SwitchPart
<1> QED BY <1>3, <1>5, <1>6, <1>9 DEF ToolInv

LEMMA ToolInvStep == ToolInv /\ [ToolNext]_toolVars => ToolInv'
<1> SUFFICES ASSUME ToolInv, [ToolNext]_toolVars PROVE ToolInv'
  OBVIOUS
<1>0. GeneratorPart /\ ConfigurationPart /\ ToldPart /\ SwitchPart
  BY DEF ToolInv
<1>1. CASE UNCHANGED toolVars
  <2>1. /\ UNCHANGED <<tool_step, samples_left, clock, trace, runs, fed, violations,
                       deadlines, default_deadline_ns, last_event, analyzing>>
        /\ UNCHANGED <<inversions, cpu_states, phase>>
    BY <1>1 DEF toolVars, generatorVars, monitorVars, detectorVars
  <2>2. GeneratorPart' /\ ConfigurationPart' /\ SwitchPart'
    BY <1>0, <2>1 DEF GeneratorPart, ConfigurationPart, SwitchPart
  <2>3. \A h : ToldUpTo(h) => ToldUpTo(h)'
    BY <2>1, ToldStays
  <2>4. ToldPart'
    <3>1. tool_step' \in {"start", "runs"} => fed' = 0
      BY <1>0, <2>1 DEF ToldPart
    <3>2. ASSUME tool_step' = "monitor"
          PROVE  \E h \in Nat :
                   /\ h <= Len(runs')
                   /\ ToldUpTo(h)'
                   /\ \/ fed' = 2 * h /\ last_event' = Nothing
                      \/ /\ fed' = 2 * h + 1 /\ h < Len(runs')
                         /\ last_event' = Put(Nothing, PidOf(h),
                                              EntryAt(h, runs'[h + 1].start))
      BY <1>0, <2>1, <2>3, <3>2 DEF ToldPart
    <3>3. ASSUME tool_step' \in {"switches", "done"} PROVE ToldUpTo(Len(runs))'
      <4>1. PICK n : n = Len(runs)
        OBVIOUS
      <4>2. ToldUpTo(n)'
        BY <1>0, <2>1, <2>3, <3>3, <4>1 DEF ToldPart
      <4> QED BY <2>1, <4>1, <4>2
    <3> QED BY <3>1, <3>2, <3>3 DEF ToldPart
  <2> QED BY <2>2, <2>4 DEF ToolInv
<1>2. ASSUME NEW d \in Deadlines, NEW n \in NumSamples, ToolBegin(d, n) PROVE ToolInv'
  <2>1. /\ tool_step = "start" /\ tool_step' = "runs" /\ samples_left' = n
        /\ default_deadline_ns' = d
        /\ UNCHANGED <<clock, trace, runs, fed, detectorVars, deadlines, analyzing>>
    BY <1>2 DEF ToolBegin, SetDefaultDeadline
  <2>2. n \in Nat /\ d \in TimeStamps
    BY ToolAssumption, MonitorAssumption
  <2>3. GeneratorPart'
    BY <1>0, <2>1, <2>2 DEF GeneratorPart
  <2>4. ConfigurationPart'
    BY <1>0, <2>1, <2>2 DEF ConfigurationPart
  <2>5. ToldPart'
    BY <1>0, <2>1 DEF ToldPart
  <2>6. SwitchPart'
    BY <1>0, <2>1, SwitchesStay DEF SwitchPart
  <2> QED BY <2>3, <2>4, <2>5, <2>6 DEF ToolInv
<1>3. ASSUME NEW exec \in RunTimes, GenerateRun(exec) PROVE ToolInv'
  <2>1. /\ tool_step = "runs" /\ tool_step' = tool_step
        /\ UNCHANGED <<fed, deadlines, default_deadline_ns, analyzing, detectorVars>>
    BY <1>3 DEF GenerateRun, monitorVars
  <2>2. GeneratorPart'
    BY <1>0, <1>3, GenerateStep
  <2>3. ConfigurationPart'
    BY <1>0, <2>1 DEF ConfigurationPart
  <2>4. ToldPart'
    BY <1>0, <2>1 DEF ToldPart
  <2>5. SwitchPart'
    BY <1>0, <2>1, SwitchesStay DEF SwitchPart
  <2> QED BY <2>2, <2>3, <2>4, <2>5 DEF ToolInv
<1>4. CASE MonitorBegin
  BY <1>4, MonitorBegins
<1>5. ASSUME NEW e \in Range(trace), MonitorEvent(e) PROVE ToolInv'
  BY <1>5, MonitorGoesOn
<1>6. CASE MonitorReturn
  BY <1>6, MonitorReturns
<1>7. CASE SwitchesBegin \/ Summary
  <2>1. /\ tool_step = "switches" /\ tool_step' \in {"switches", "done"}
        /\ UNCHANGED <<samples_left, clock, trace, runs, fed, violations,
                       deadlines, default_deadline_ns, last_event, analyzing>>
    BY <1>7 DEF SwitchesBegin, Summary, generatorVars, monitorVars
  <2>2. GeneratorPart' /\ ConfigurationPart'
    BY <1>0, <2>1 DEF GeneratorPart, ConfigurationPart
  <2>3. ToldPart'
    <3>1. PICK n : n = Len(runs)
      OBVIOUS
    <3>2. ToldUpTo(n)'
      BY <1>0, <2>1, <3>1, ToldStays DEF ToldPart
    <3> QED BY <2>1, <3>1, <3>2 DEF ToldPart
  <2>4. SwitchPart'
    <3>1. CASE SwitchesBegin
      <4>1. /\ phase' = "sched" /\ tool_step' = "switches" /\ inversions' = <<>>
            /\ cpu_states' = [c \in Cpus |-> FreshCPU]
        BY <3>1 DEF SwitchesBegin, DetectBegin
      <4>2. FreshCPU \in [pid : Int, start : Nat] /\ FreshCPU.start = 0
        BY DEF FreshCPU
      <4> QED BY <4>1, <4>2 DEF SwitchPart
    <3>2. CASE Summary
      BY <1>0, <3>2 DEF Summary, Return, SwitchPart
    <3> QED BY <1>7, <3>1, <3>2
  <2> QED BY <2>2, <2>3, <2>4 DEF ToolInv
<1>8. ASSUME NEW cpu \in Cpus, NEW prev \in Tasks, NEW next \in Tasks,
             NEW t \in Intervals, DetectSwitch(cpu, prev, next, t)
      PROVE  ToolInv'
  BY <1>8, SwitchDrawn
<1>9. CASE ToolOver
  BY <1>1, <1>9 DEF ToolOver
<1> QED BY <1>1, <1>2, <1>3, <1>4, <1>5, <1>6, <1>7, <1>8, <1>9 DEF ToolNext

LEMMA ToolInvAlways == ToolSpec => []ToolInv
BY ToolInvInit, ToolInvStep, PTL DEF ToolSpec

(* rt_sched prints the runs that were late, each with its task, its start  *)
(* and the time it took, and no inversion from before the switches began.  *)
THEOREM SummaryTrueHolds == ToolSpec => []SummaryTrue
<1>1. ToolInv => SummaryTrue
  <2> SUFFICES ASSUME ToolInv, tool_step \in {"switches", "done"}
               PROVE  /\ \E late \in [1 .. Len(violations) -> LateRuns] :
                           /\ Lists(late, LateRuns)
                           /\ \A k \in 1 .. Len(violations) :
                                Reporting(violations[k], late[k])
                      /\ \A k \in 1 .. Len(inversions) :
                           Base + inversions[k].duration <= inversions[k].ts
    BY Zenon DEF SummaryTrue, Reporting
  <2>1. ToldUpTo(Len(runs)) /\ LateAmong(Len(runs)) = LateRuns
    BY DEF ToolInv, ToldPart, LateAmong, LateRuns
  <2> QED BY <2>1 DEF ToolInv, ToldUpTo, SwitchPart
<1> QED BY <1>1, ToolInvAlways, PTL
=============================================================================
