------------------------ MODULE ApiExperiment_proofs ------------------------
(***************************************************************************)
(* What holds of the request generators by themselves (Requests), and what *)
(* the API experiments show: for every command line and any traffic next   *)
(* to the load, a request that loadgen-http reports without an error was   *)
(* answered OK by bench-api, and is in its counters.                       *)
(***************************************************************************)
EXTENDS ApiExperiment, BenchApi_proofs

-----------------------------------------------------------------------------
(* Part 1: the request generators, with any server.  For every command     *)
(* line: any tool and operation, any count, number of goroutines and       *)
(* number of samples, zero included.                                       *)
(*                                                                         *)
(* The inductive invariant.                                                *)

\* A call whose requests are made by the goroutines.
Pooled == running /\ ~Sequential

Failed == {w \in Workers : pc[w] = "failed"}

Result ==
  [op : CallType, durs : SUBSET (0 .. flags.count + flags.samples), errs : Nat,
   failures : SUBSET Indices]

\* Goroutines are at work in such a call only, and each tool has its own way of
\* keeping errors.
AtRest ==
  /\ running => calls # <<>>
  /\ ~Pooled => \A w \in Workers : pc[w] = "gone"
  /\ results \in Seq(Result)
  /\ IF IsKV THEN errs = 0 ELSE errCh = 0

\* Watch and Election have a duration for every sample they have taken.
Sampled ==
  running /\ Sequential => next <= flags.samples /\ durs = 0 .. next - 1

\* No two goroutines have the same index.
Apart ==
  Pooled =>
    /\ next <= sent
    /\ \A w \in Workers : pc[w] \in {"working", "failed"} => job[w] \in 0 .. next - 1
    /\ \A v, w \in Workers :
         v # w /\ {pc[v], pc[w]} \subseteq {"working", "failed"} => job[v] # job[w]

\* Every index taken has a duration, has failed or is being worked on, and a
\* goroutine leaves when there is none left, or with an error in errCh.
Accounted ==
  Pooled =>
    /\ durs \cup failures \subseteq 0 .. next - 1
    /\ \A i \in 0 .. next - 1 :
         i \in durs \cup failures \/ \E w \in Workers : pc[w] = "working" /\ job[w] = i
    /\ \A w \in Workers :
         /\ pc[w] = "working" => job[w] \notin durs \cup failures
         /\ pc[w] = "failed" => job[w] \in failures \ durs
         /\ pc[w] = "gone" => next = flags.count \/ errCh > 0

\* A failure that its goroutine no longer has in hand is in errCh, or counted, and
\* in loadgen-http timed.
FailuresKept ==
  Pooled =>
    /\ IsKV \/ IsMesh => durs \cap failures = {}
    /\ IsKV /\ errCh = 0 => \A i \in failures : \E w \in Failed : job[w] = i
    /\ ~IsKV /\ ~IsMesh => \A i \in failures : i \in durs \/ \E w \in Failed : job[w] = i
    /\ ~IsKV => errs + Cardinality(Failed) = Cardinality(failures)

\* Reads come after the seed write, and what that has measured it has written.
SeedFirst ==
  /\ (\E k \in 1 .. Len(calls) : calls[k] \in {"read", "mixed"}) =>
       IsKV /\ (calls[1] = "seed" \/ Indices \subseteq keys \/ flags.workers = 0)
  /\ IsKV /\ running /\ calls[1] = "seed" => durs \subseteq keys

IInv ==
  /\ TypeOK /\ AtRest /\ Sampled /\ Apart /\ Accounted /\ FailuresKept /\ SeedFirst
  /\ ReportedIsMeasured /\ GetsFindKeys

-----------------------------------------------------------------------------
(* What the command line says.                                             *)

\* The numbers of a command line, and how many indices there are.
LEMMA FlagFacts ==
  ASSUME TypeOK
  PROVE  /\ flags \in FlagType /\ ValidFlags(flags)
         /\ flags.count \in Nat /\ flags.workers \in Nat /\ flags.samples \in Nat
         /\ flags.tool \in Tools
         /\ Workers = 1 .. flags.workers /\ Indices = 0 .. flags.count - 1
<1>1. flags \in FlagType /\ ValidFlags(flags)
  BY FlagsAssumption DEF TypeOK
<1>2. QED
  BY <1>1 DEF FlagType, Workers, Indices

\* The key of an index is the index: no two indices share a key.
LEMMA KeyIsIndex ==
  ASSUME TypeOK, NEW i \in Indices
  PROVE  KeyOf(i) = i
<1>1. flags.count \in Nat /\ i \in 0 .. flags.count - 1
  BY FlagFacts
<1>2. i % flags.count = i
  BY <1>1
<1>3. QED
  BY <1>2 DEF KeyOf, EtcdKey, ConsulKey

\* Failures and failed goroutines can be counted, and there are no more failures
\* than indices.
LEMMA Countable ==
  ASSUME TypeOK
  PROVE  /\ IsFiniteSet(Failed) /\ Cardinality(Failed) \in Nat
         /\ IsFiniteSet(failures) /\ Cardinality(failures) \in 0 .. flags.count
<1>1. flags.count \in Nat /\ flags.workers \in Nat
      /\ Workers = 1 .. flags.workers /\ Indices = 0 .. flags.count - 1
  BY FlagFacts
<1>2. IsFiniteSet(Workers)
  BY <1>1, FS_Interval
<1>3. IsFiniteSet(Indices) /\ Cardinality(Indices) = flags.count
  <2> DEFINE top == flags.count - 1
  <2>1. 0 \in Int /\ top \in Int
    BY <1>1
  <2> HIDE DEF top
  <2>2. /\ IsFiniteSet(0 .. top)
        /\ Cardinality(0 .. top) = IF 0 > top THEN 0 ELSE top - 0 + 1
    BY <2>1, FS_Interval
  <2>3. QED
    BY <1>1, <2>2 DEF top
<1>4. IsFiniteSet(Failed) /\ Cardinality(Failed) \in Nat
  BY <1>2, FS_Subset, FS_CardinalityType DEF Failed
<1>5. IsFiniteSet(failures) /\ Cardinality(failures) <= flags.count
  BY <1>3, FS_Subset DEF TypeOK
<1>6. Cardinality(failures) \in Nat
  BY <1>5, FS_CardinalityType
<1>7. QED
  BY <1>1, <1>4, <1>5, <1>6

-----------------------------------------------------------------------------
(* The plan.                                                               *)

\* A call comes after those that are already in the plan.
LEMMA Appended ==
  ASSUME NEW S, NEW s \in Seq(S), NEW o \in S
  PROVE  /\ s \o Call(o) \in Seq(S)
         /\ s # <<>> => s \o Call(o) # <<>> /\ (s \o Call(o))[1] = s[1]
<1>1. CASE Wants(o)
  <2>1. Call(o) = <<o>>
    BY <1>1 DEF Call
  <2>2. QED
    BY <2>1
<1>2. CASE ~Wants(o)
  <2>1. Call(o) = <<>>
    BY <1>2 DEF Call
  <2>2. QED
    BY <2>1
<1>3. QED
  BY <1>1, <1>2

\* A plan of loadgen-kv that reads begins with the seed write.
LEMMA KVPlanSeeds ==
  /\ KVPlan \in Seq(CallType)
  /\ (\E k \in 1 .. Len(KVPlan) : KVPlan[k] \in {"read", "mixed"}) => KVPlan[1] = "seed"
<1> DEFINE p1 == Seed \o Call("write")
           p2 == p1 \o Call("read")
           p3 == p2 \o Call("mixed")
           p4 == p3 \o Call("watch")
           p5 == p4 \o Call("election")
<1>1. KVPlan = p5
  BY DEF KVPlan
<1>2. ASSUME NEW S, Seed \in Seq(S), {"write", "watch", "election"} \subseteq S,
             {"read", "mixed"} \subseteq S
      PROVE  /\ p5 \in Seq(S)
             /\ Seed # <<>> => p5[1] = Seed[1]
  <2>1. p1 \in Seq(S) /\ (Seed # <<>> => p1 # <<>> /\ p1[1] = Seed[1])
    BY <1>2, Appended
  <2> HIDE DEF p1
  <2>2. p2 \in Seq(S) /\ (p1 # <<>> => p2 # <<>> /\ p2[1] = p1[1])
    BY <1>2, <2>1, Appended
  <2> HIDE DEF p2
  <2>3. p3 \in Seq(S) /\ (p2 # <<>> => p3 # <<>> /\ p3[1] = p2[1])
    BY <1>2, <2>2, Appended
  <2> HIDE DEF p3
  <2>4. p4 \in Seq(S) /\ (p3 # <<>> => p4 # <<>> /\ p4[1] = p3[1])
    BY <1>2, <2>3, Appended
  <2> HIDE DEF p4
  <2>5. p5 \in Seq(S) /\ (p4 # <<>> => p5 # <<>> /\ p5[1] = p4[1])
    BY <1>2, <2>4, Appended
  <2>6. QED
    BY <2>1, <2>2, <2>3, <2>4, <2>5
<1>3. Seed \in Seq(CallType)
  <2>1. "seed" \in CallType
    BY DEF CallType
  <2>2. CASE Seed = <<>>
    BY <2>2
  <2>3. CASE Seed = <<"seed">>
    BY <2>1, <2>3
  <2>4. QED
    BY <2>2, <2>3 DEF Seed
<1>4. p5 \in Seq(CallType) /\ (Seed # <<>> => p5[1] = Seed[1])
  BY <1>2, <1>3 DEF CallType, KVOps
<1>5. CASE Wants("read") \/ Wants("mixed")
  <2>1. Seed # <<>> /\ Seed[1] = "seed"
    BY <1>5 DEF Seed
  <2>2. QED
    BY <1>1, <1>4, <2>1
<1>6. CASE ~Wants("read") /\ ~Wants("mixed")
  <2> DEFINE S == {"write", "watch", "election"}
  <2>1. Seed = <<>> /\ Call("read") = <<>> /\ Call("mixed") = <<>>
    BY <1>6 DEF Seed, Call
  <2>2. p1 \in Seq(S)
    <3>1. Seed \in Seq(S)
      BY <2>1
    <3>2. QED
      BY <3>1, Appended
  <2> HIDE DEF p1
  <2>3. p3 \in Seq(S)
    <3>1. p2 = p1
      BY <2>1, <2>2
    <3> HIDE DEF p2
    <3>2. p3 = p2
      BY <2>1, <2>2, <3>1
    <3>3. QED
      BY <2>2, <3>1, <3>2
  <2> HIDE DEF p3
  <2>4. p4 \in Seq(S)
    BY <2>3, Appended
  <2> HIDE DEF p4
  <2>5. p5 \in Seq(S)
    BY <2>4, Appended
  <2>6. \A k \in 1 .. Len(p5) : p5[k] \in S
    BY <2>5
  <2>7. QED
    BY <1>1, <1>4, <2>6
<1>7. QED
  BY <1>5, <1>6

\* Every plan is one of calls, and only one of loadgen-kv reads.
LEMMA PlanFacts ==
  ASSUME flags \in FlagType, ValidFlags(flags)
  PROVE  /\ Plan \in Seq(CallType)
         /\ (\E k \in 1 .. Len(Plan) : Plan[k] \in {"read", "mixed"}) =>
              IsKV /\ Plan[1] = "seed"
<1>1. flags.tool \in Tools
  BY DEF FlagType
<1>2. CASE flags.tool \in KVStores
  <2>1. IsKV /\ Plan = KVPlan
    BY <1>2 DEF Plan, IsKV, IsMesh, KVStores
  <2>2. QED
    BY <2>1, KVPlanSeeds
<1>3. CASE flags.tool = "mesh"
  <2>1. Plan = <<"data-plane">>
    BY <1>3 DEF Plan, IsKV, IsMesh, KVStores
  <2>2. QED
    BY <2>1 DEF CallType
<1>4. CASE flags.tool \in Protocols
  <2>1. flags.op \in HttpOps \cup {"all"}
    BY <1>4 DEF ValidFlags, Protocols, KVStores
  <2>2. Plan = HttpPlan
    BY <1>4 DEF Plan, IsKV, IsMesh, KVStores, Protocols
  <2>3. CASE flags.op = "all"
    <3>1. Plan = <<"echo", "get-user", "create-order">>
      BY <2>2, <2>3 DEF HttpPlan
    <3>2. QED
      BY <3>1 DEF CallType, HttpOps
  <2>4. CASE flags.op # "all"
    <3>1. Plan = <<flags.op>> /\ flags.op \in HttpOps
      BY <2>1, <2>2, <2>4 DEF HttpPlan
    <3>2. QED
      BY <3>1 DEF CallType, HttpOps
  <2>5. QED
    BY <2>3, <2>4
<1>5. QED
  BY <1>1, <1>2, <1>3, <1>4 DEF Tools

\* The invariant holds when main starts.
LEMMA InitInvariant == Init => IInv
<1> SUFFICES ASSUME Init PROVE IInv
  OBVIOUS
<1>1. flags \in FlagType /\ ValidFlags(flags)
  BY FlagsAssumption DEF Init
<1>2. flags.count \in Nat /\ flags.workers \in Nat /\ flags.samples \in Nat
  BY <1>1 DEF FlagType
<1>3. calls = Plan /\ Plan \in Seq(CallType)
  BY <1>1, PlanFacts DEF Init
<1>4. TypeOK
  <2>1. pc \in [Workers -> {"idle", "working", "failed", "gone"}] /\ job \in [Workers -> Nat]
    BY DEF Init
  <2>2. /\ sent \in 0 .. flags.count /\ next \in 0 .. flags.count + flags.samples
        /\ errs \in 0 .. flags.count /\ errCh \in 0 .. flags.workers
    BY <1>2 DEF Init
  <2>3. DOMAIN results = {} /\ durs = {} /\ failures = {} /\ keys = {}
    BY DEF Init
  <2>4. flags \in Flags /\ running \in BOOLEAN /\ missed \in BOOLEAN
        /\ exit \in {"none", "ok", "fatal"}
    BY DEF Init
  <2>5. calls \in Seq(CallType)
    BY <1>3
  <2>6. QED
    BY <2>1, <2>2, <2>3, <2>4, <2>5 DEF TypeOK
<1>5. AtRest
  BY DEF Init, AtRest, Pooled
<1>6. Sampled /\ Apart /\ Accounted /\ FailuresKept
  BY DEF Init, Sampled, Apart, Accounted, FailuresKept, Pooled
<1>7. SeedFirst
  BY <1>1, <1>3, PlanFacts DEF Init, SeedFirst
<1>8. ReportedIsMeasured /\ GetsFindKeys
  BY DEF Init, ReportedIsMeasured, GetsFindKeys
<1>9. QED
  BY <1>4, <1>5, <1>6, <1>7, <1>8 DEF IInv

-----------------------------------------------------------------------------
(* The steps of main.                                                      *)

\* What has been reported stays what it is.
LEMMA SameReports ==
  ASSUME ReportedIsMeasured, flags' = flags, results' = results
  PROVE  ReportedIsMeasured'
BY DEF ReportedIsMeasured, Indices, IsMesh

\* The process may end at any time: nothing else changes.
LEMMA ExitStep ==
  ASSUME IInv, exit' \in {"none", "ok", "fatal"},
         UNCHANGED <<flags, calls, running, pool, measured, store, results>>
  PROVE  IInv'
<1> USE DEF pool, measured, store
<1>1. TypeOK'
  BY DEF IInv, TypeOK, Workers, Indices
<1>2. AtRest' /\ Sampled'
  BY DEF IInv, AtRest, Sampled, Pooled, Sequential, Workers, Result, Indices, IsKV
<1>3. Apart' /\ Accounted'
  BY DEF IInv, Apart, Accounted, Pooled, Sequential, Workers
<1>4. FailuresKept'
  BY DEF IInv, FailuresKept, Failed, Pooled, Sequential, Workers, IsKV, IsMesh
<1>5. SeedFirst' /\ GetsFindKeys'
  BY DEF IInv, SeedFirst, GetsFindKeys, Indices, IsKV
<1>6. QED
  BY <1>1, <1>2, <1>3, <1>4, <1>5, SameReports DEF IInv

\* A call begins with nothing measured and nothing taken.
LEMMA BeginStep == IInv /\ Begin => IInv'
<1> SUFFICES ASSUME IInv, Begin PROVE IInv'
  OBVIOUS
<1>1. /\ TypeOK /\ flags' = flags /\ calls' = calls /\ calls # <<>>
      /\ flags.count \in Nat /\ flags.workers \in Nat /\ flags.samples \in Nat
      /\ sent' \in 0 .. flags.count /\ next' = 0
      /\ durs' = {} /\ errs' = 0 /\ errCh' = 0 /\ failures' = {}
      /\ keys' = keys /\ results' = results
  BY FlagFacts DEF IInv, Begin, store
<1>2. Workers' = Workers /\ Indices' = Indices /\ IsKV' = IsKV /\ IsMesh' = IsMesh
      /\ Sequential' = Sequential /\ Result' = Result
  BY <1>1 DEF Workers, Indices, IsKV, IsMesh, Sequential, Result
<1>3. /\ pc' \in [Workers -> {"idle", "gone"}]
      /\ \A w \in Workers : pc'[w] = IF Sequential THEN "gone" ELSE "idle"
  BY DEF Begin
<1>4. TypeOK'
  <2>1. pc' \in [Workers -> {"idle", "working", "failed", "gone"}]
    BY <1>3
  <2>2. QED
    BY <1>1, <1>2, <2>1 DEF TypeOK, Begin, store
<1>5. AtRest'
  <2>1. ~Pooled' => \A w \in Workers : pc'[w] = "gone"
    BY <1>2, <1>3 DEF Pooled, Begin
  <2>2. QED
    BY <1>1, <1>2, <2>1 DEF IInv, AtRest
<1>6. Sampled'
  BY <1>1 DEF Sampled
<1>7. Apart' /\ Accounted'
  BY <1>1, <1>2, <1>3 DEF Apart, Accounted, Pooled
<1>8. FailuresKept'
  <2>1. Failed' = {}
    BY <1>2, <1>3 DEF Failed
  <2>2. QED
    BY <1>1, <2>1, FS_EmptySet DEF FailuresKept
<1>9. SeedFirst' /\ GetsFindKeys'
  BY <1>1, <1>2 DEF IInv, SeedFirst, GetsFindKeys, Begin, store
<1>10. ReportedIsMeasured'
  BY <1>1, SameReports DEF IInv
<1>11. QED
  BY <1>4, <1>5, <1>6, <1>7, <1>8, <1>9, <1>10 DEF IInv

\* An index more in the channel.
LEMMA SendStep == IInv /\ Send => IInv'
<1> SUFFICES ASSUME IInv, Send PROVE IInv'
  OBVIOUS
<1> USE DEF measured, store
<1>1. flags.count \in Nat /\ sent \in 0 .. flags.count /\ next \in Int
  BY FlagFacts DEF IInv, TypeOK
<1>2. sent' \in 0 .. flags.count /\ sent' > sent
  BY <1>1 DEF Send
<1>3. TypeOK'
  BY <1>2 DEF IInv, TypeOK, Workers, Indices, Send
<1>4. AtRest' /\ Sampled'
  BY DEF IInv, AtRest, Sampled, Pooled, Sequential, Workers, Result, Indices, IsKV, Send
<1>5. Apart'
  BY <1>1, <1>2 DEF IInv, Apart, Pooled, Sequential, Workers, Send
<1>6. Accounted'
  BY DEF IInv, Accounted, Pooled, Sequential, Workers, Send
<1>7. FailuresKept'
  BY DEF IInv, FailuresKept, Failed, Pooled, Sequential, Workers, IsKV, IsMesh, Send
<1>8. SeedFirst' /\ GetsFindKeys'
  BY DEF IInv, SeedFirst, GetsFindKeys, Indices, IsKV, Send
<1>9. ReportedIsMeasured'
  BY SameReports DEF IInv, Send
<1>10. QED
  BY <1>3, <1>4, <1>5, <1>6, <1>7, <1>8, <1>9 DEF IInv

\* The keys may be deleted once no call is left that could read them.
LEMMA CleanupStep == IInv /\ Cleanup => IInv'
<1> SUFFICES ASSUME IInv, Cleanup PROVE IInv'
  OBVIOUS
<1> USE DEF pool, measured
<1>1. calls = <<>> /\ ~running /\ keys' \in {{}, keys}
  BY DEF IInv, AtRest, Cleanup
<1>2. TypeOK'
  BY <1>1 DEF IInv, TypeOK, Workers, Indices, Cleanup
<1>3. AtRest' /\ Sampled'
  BY DEF IInv, AtRest, Sampled, Pooled, Sequential, Workers, Result, Indices, IsKV, Cleanup
<1>4. Apart' /\ Accounted'
  BY DEF IInv, Apart, Accounted, Pooled, Sequential, Workers, Cleanup
<1>5. FailuresKept'
  BY DEF IInv, FailuresKept, Failed, Pooled, Sequential, Workers, IsKV, IsMesh, Cleanup
<1>6. SeedFirst' /\ GetsFindKeys'
  BY <1>1 DEF IInv, SeedFirst, GetsFindKeys, Cleanup
<1>7. ReportedIsMeasured'
  BY SameReports DEF IInv, Cleanup
<1>8. QED
  BY <1>2, <1>3, <1>4, <1>5, <1>6, <1>7 DEF IInv

\* Watch and Election take one sample after the other.
LEMMA SampleStep ==
  ASSUME IInv, NEW o \in {"watch", "election"}, Sample(o)
  PROVE  IInv'
<1> USE DEF measured, store
<1>1. CASE exit' = "fatal" /\ UNCHANGED <<durs, next>>
  BY <1>1, ExitStep DEF Sample, pool
<1>2. CASE durs' = durs \cup {next} /\ next' = next + 1 /\ UNCHANGED exit
  <2>1. /\ flags.count \in Nat /\ flags.samples \in Nat
        /\ next \in Nat /\ next < flags.samples /\ durs = 0 .. next - 1
        /\ running /\ Sequential /\ calls[1] # "seed"
    BY FlagFacts DEF IInv, TypeOK, Sampled, Sequential, Sample
  <2>2. durs' = 0 .. next' - 1
    BY <1>2, <2>1
  <2>3. next' \in 0 .. flags.count + flags.samples /\ next' <= flags.samples
    BY <1>2, <2>1
  <2>4. durs' \subseteq 0 .. flags.count + flags.samples
    BY <1>2, <2>1 DEF IInv, TypeOK
  <2>5. ~Pooled' /\ ~Pooled /\ Workers' = Workers
    BY <2>1 DEF Pooled, Sequential, Sample, Workers
  <2>6. TypeOK'
    BY <1>2, <2>3, <2>4 DEF IInv, TypeOK, Workers, Indices, Sample
  <2>7. AtRest'
    BY <2>5 DEF IInv, AtRest, Result, Indices, IsKV, Sample
  <2>8. Sampled'
    BY <2>2, <2>3 DEF Sampled, Sample
  <2>9. Apart' /\ Accounted' /\ FailuresKept'
    BY <2>5 DEF Apart, Accounted, FailuresKept
  <2>10. SeedFirst' /\ GetsFindKeys'
    BY <2>1 DEF IInv, SeedFirst, GetsFindKeys, Indices, IsKV, Sample
  <2>11. ReportedIsMeasured'
    BY SameReports DEF IInv, Sample
  <2>12. QED
    BY <2>6, <2>7, <2>8, <2>9, <2>10, <2>11 DEF IInv
<1>3. QED
  BY <1>1, <1>2 DEF Sample

\* When the goroutines have gone without an error in errCh every index has been
\* measured or counted.
LEMMA PooledResult ==
  ASSUME IInv, Pooled, AllGone, errCh = 0, flags.workers > 0
  PROVE  /\ durs = IF IsMesh THEN Indices \ failures ELSE Indices
         /\ errs = Cardinality(failures)
<1>1. flags.workers \in Nat /\ flags.count \in Nat /\ Workers = 1 .. flags.workers
      /\ Indices = 0 .. flags.count - 1
  BY FlagFacts DEF IInv
<1>2. 1 \in Workers
  BY <1>1
<1>3. next = flags.count
  BY <1>2 DEF IInv, Accounted, AllGone
<1>4. Failed = {} /\ \A w \in Workers : pc[w] # "working"
  BY DEF AllGone, Failed
<1>5. durs \cup failures = Indices
  BY <1>1, <1>3, <1>4 DEF IInv, Accounted
<1>6. IsKV => failures = {} /\ errs = 0 /\ ~IsMesh
  BY <1>4 DEF IInv, FailuresKept, AtRest, IsKV, IsMesh, KVStores
<1>7. IsMesh => durs \cap failures = {}
  BY DEF IInv, FailuresKept
<1>8. ~IsKV /\ ~IsMesh => failures \subseteq durs
  BY <1>4 DEF IInv, FailuresKept
<1>9. durs = IF IsMesh THEN Indices \ failures ELSE Indices
  BY <1>5, <1>6, <1>7, <1>8
<1>10. CASE IsKV
  BY <1>6, <1>9, <1>10, FS_EmptySet
<1>11. CASE ~IsKV
  <2>1. errs + Cardinality(Failed) = Cardinality(failures) /\ Cardinality(Failed) = 0
    BY <1>4, <1>11, FS_EmptySet DEF IInv, FailuresKept
  <2>2. errs \in Nat
    BY <1>1 DEF IInv, TypeOK
  <2>3. QED
    BY <1>9, <2>1, <2>2
<1>12. QED
  BY <1>10, <1>11

\* A plan that goes on without its first call still reads only what is written.
LEMMA CallDone ==
  ASSUME IInv, calls # <<>>, calls' = Tail(calls),
         IsKV /\ calls[1] = "seed" /\ flags.workers > 0 => Indices \subseteq keys,
         UNCHANGED <<flags, keys>>, ~running'
  PROVE  calls' \in Seq(CallType) /\ SeedFirst'
<1>1. /\ calls \in Seq(CallType) /\ calls' \in Seq(CallType)
      /\ \A k \in 1 .. Len(calls') : k + 1 \in 1 .. Len(calls) /\ calls'[k] = calls[k + 1]
  BY DEF IInv, TypeOK
<1>2. ASSUME NEW k \in 1 .. Len(calls'), calls'[k] \in {"read", "mixed"}
      PROVE  IsKV /\ (Indices \subseteq keys \/ flags.workers = 0)
  <2>1. flags.workers \in Nat
    BY FlagFacts DEF IInv
  <2>2. k + 1 \in 1 .. Len(calls) /\ calls[k + 1] \in {"read", "mixed"}
    BY <1>1, <1>2
  <2>3. IsKV /\ (calls[1] = "seed" \/ Indices \subseteq keys \/ flags.workers = 0)
    BY <2>2 DEF IInv, SeedFirst
  <2>4. QED
    BY <2>1, <2>3
<1>3. SeedFirst'
  BY <1>2 DEF SeedFirst, IsKV, Indices
<1>4. QED
  BY <1>1, <1>3

\* What a call reports is what it did.
LEMMA FinishStep == IInv /\ Finish => IInv'
<1> SUFFICES ASSUME IInv, Finish PROVE IInv'
  OBVIOUS
<1> USE DEF pool, measured, store
<1>1. /\ flags' = flags /\ running /\ running' = FALSE /\ calls # <<>> /\ errCh \in Nat
      /\ Workers' = Workers /\ Indices' = Indices /\ Result' = Result /\ IsKV' = IsKV
      /\ IsMesh' = IsMesh
  BY FlagFacts DEF IInv, TypeOK, AtRest, Finish, Workers, Indices, Result, IsKV, IsMesh
<1>2. \A w \in Workers : pc[w] = "gone"
  BY <1>1 DEF IInv, AtRest, Pooled, Finish, CallOver, AllGone
<1>3. ~Pooled'
  BY <1>1 DEF Pooled
<1>4. Sampled' /\ Apart' /\ Accounted' /\ FailuresKept' /\ GetsFindKeys'
  BY <1>1, <1>3 DEF Sampled, Apart, Accounted, FailuresKept, IInv, GetsFindKeys, Finish
<1>5. CASE errCh > 0
  <2>1. UNCHANGED <<calls, results>> /\ exit' = "fatal"
    BY <1>5 DEF Finish
  <2>2. TypeOK'
    BY <1>1, <2>1 DEF IInv, TypeOK, Finish
  <2>3. AtRest'
    BY <1>1, <1>2, <2>1 DEF IInv, AtRest, Finish
  <2>4. SeedFirst'
    BY <1>1, <2>1 DEF IInv, SeedFirst, Finish
  <2>5. QED
    BY <1>1, <1>4, <2>1, <2>2, <2>3, <2>4, SameReports DEF IInv
<1>6. CASE ~(errCh > 0)
  <2> DEFINE r == [op |-> calls[1], durs |-> durs, errs |-> errs, failures |-> failures]
  <2>1. calls' = Tail(calls) /\ results' = Append(results, r) /\ exit' = exit /\ errCh = 0
    BY <1>1, <1>6 DEF Finish
  <2>2. r \in Result
    <3>1. calls[1] \in CallType
      BY <1>1 DEF IInv, TypeOK
    <3>2. errs \in Nat
      BY FlagFacts DEF IInv, TypeOK
    <3>3. QED
      BY <3>1, <3>2 DEF IInv, TypeOK, Result
  <2>3. ~Sequential /\ flags.workers > 0 =>
          /\ durs = IF IsMesh THEN Indices \ failures ELSE Indices
          /\ errs = Cardinality(failures)
    BY <1>1, <1>2, <2>1, PooledResult DEF Pooled, AllGone
  <2>4. Sequential => durs = 0 .. flags.samples - 1
    BY <1>1 DEF IInv, Sampled, Finish, CallOver
  <2>5. IsKV /\ calls[1] = "seed" /\ flags.workers > 0 => Indices \subseteq keys
    BY <1>1, <2>3 DEF IInv, SeedFirst, Sequential, IsKV, IsMesh, KVStores
  <2>6. calls' \in Seq(CallType) /\ SeedFirst'
    BY <1>1, <2>1, <2>5, CallDone DEF Finish
  <2>7. /\ results \in Seq(Result) /\ results' \in Seq(Result)
        /\ DOMAIN results' = DOMAIN results \cup {Len(results) + 1}
        /\ \A k \in DOMAIN results : results'[k] = results[k]
        /\ results'[Len(results) + 1] = r
    <3> HIDE DEF r
    <3>1. results \in Seq(Result)
      BY DEF IInv, AtRest
    <3>2. QED
      BY <2>1, <2>2, <3>1
  <2>8. TypeOK'
    <3> HIDE DEF r
    <3>1. \A k \in DOMAIN results' : results'[k] \in Result
      BY <2>7
    <3>2. \A k \in DOMAIN results' : results'[k].op \in CallType
      BY <3>1 DEF Result
    <3>3. QED
      BY <1>1, <2>1, <2>6, <3>2 DEF IInv, TypeOK, Finish
  <2>9. AtRest'
    BY <1>1, <1>2, <2>7 DEF IInv, AtRest, Finish
  <2>10. ReportedIsMeasured'
    <3>1. IF r.op \in {"watch", "election"} THEN r.durs = 0 .. flags.samples - 1
          ELSE flags.workers > 0 =>
                 /\ r.durs = IF IsMesh THEN Indices \ r.failures ELSE Indices
                 /\ r.errs = Cardinality(r.failures)
      BY <2>3, <2>4 DEF Sequential
    <3> HIDE DEF r
    <3>2. QED
      BY <1>1, <2>7, <3>1 DEF IInv, ReportedIsMeasured
  <2>11. QED
    BY <1>4, <2>6, <2>8, <2>9, <2>10 DEF IInv
<1>7. QED
  BY <1>5, <1>6

-----------------------------------------------------------------------------
(* The steps of the goroutines.                                            *)

\* A goroutine that has not gone is in a call that uses goroutines.
LEMMA AtWork ==
  ASSUME IInv, NEW w \in Workers, pc[w] # "gone"
  PROVE  /\ Pooled /\ running /\ ~Sequential
         /\ flags.count \in Nat /\ flags.workers \in Nat /\ flags.workers > 0
         /\ flags.samples \in Nat
         /\ sent \in 0 .. flags.count /\ next \in Nat /\ next <= sent
         /\ Indices = 0 .. flags.count - 1 /\ 0 .. next - 1 \subseteq Indices
         /\ pc \in [Workers -> {"idle", "working", "failed", "gone"}]
         /\ job \in [Workers -> Nat]
<1>1. Pooled
  BY DEF IInv, AtRest
<1>2. /\ flags.count \in Nat /\ flags.workers \in Nat /\ flags.samples \in Nat
      /\ Workers = 1 .. flags.workers /\ Indices = 0 .. flags.count - 1
  BY FlagFacts DEF IInv
<1>3. next <= sent
  BY <1>1 DEF IInv, Apart
<1>4. /\ sent \in 0 .. flags.count /\ next \in 0 .. flags.count + flags.samples
      /\ pc \in [Workers -> {"idle", "working", "failed", "gone"}]
      /\ job \in [Workers -> Nat]
  BY DEF IInv, TypeOK
<1>5. next \in Nat /\ 0 .. next - 1 \subseteq Indices
  BY <1>2, <1>3, <1>4
<1>6. QED
  BY <1>1, <1>2, <1>3, <1>4, <1>5 DEF Pooled

\* What a goroutine's step leaves alone, and what that leaves true.
Outside == <<flags, calls, running, sent, results, exit>>

\* A goroutine's step changes neither the plan of the calls nor what has been reported.
LEMMA OutsideKept ==
  ASSUME IInv, UNCHANGED Outside
  PROVE  /\ Workers' = Workers /\ Indices' = Indices /\ IsKV' = IsKV /\ IsMesh' = IsMesh
         /\ Sequential' = Sequential /\ Pooled' = Pooled /\ Result' = Result
         /\ ReportedIsMeasured'
BY SameReports
   DEF IInv, Outside, Workers, Indices, IsKV, IsMesh, Sequential, Pooled, Result

\* A goroutine takes the next index.
LEMMA FetchStep ==
  ASSUME IInv, NEW w \in Workers, Fetch(w)
  PROVE  IInv'
<1> USE DEF measured, store
<1>1. pc[w] = "idle" /\ next < sent /\ next' = next + 1
      /\ pc' = [pc EXCEPT ![w] = "working"] /\ job' = [job EXCEPT ![w] = next]
      /\ durs' = durs /\ errs' = errs /\ errCh' = errCh /\ failures' = failures
      /\ keys' = keys /\ missed' = missed /\ UNCHANGED Outside
  BY DEF Fetch, Outside
<1>2. /\ Pooled /\ running /\ ~Sequential
      /\ flags.count \in Nat /\ flags.samples \in Nat
      /\ sent \in 0 .. flags.count /\ next \in Nat
      /\ pc \in [Workers -> {"idle", "working", "failed", "gone"}]
      /\ job \in [Workers -> Nat]
  BY <1>1, AtWork
<1>3. /\ Workers' = Workers /\ Indices' = Indices /\ IsKV' = IsKV /\ IsMesh' = IsMesh
      /\ Sequential' = Sequential /\ Pooled' = Pooled /\ Result' = Result
      /\ ReportedIsMeasured'
  BY <1>1, OutsideKept
<1>4. \A v \in Workers : v # w => pc'[v] = pc[v] /\ job'[v] = job[v]
  BY <1>1, <1>2
<1>5. pc'[w] = "working" /\ job'[w] = next
  BY <1>1, <1>2
<1>6. TypeOK'
  <2>1. next' \in 0 .. flags.count + flags.samples
    BY <1>1, <1>2
  <2>2. pc' \in [Workers -> {"idle", "working", "failed", "gone"}] /\ job' \in [Workers -> Nat]
    BY <1>1, <1>2
  <2>3. QED
    BY <1>1, <1>3, <2>1, <2>2 DEF IInv, TypeOK, Outside
<1>7. AtRest' /\ Sampled'
  BY <1>1, <1>2, <1>3 DEF IInv, AtRest, Sampled, Outside
<1>8. Apart'
  <2>1. next' <= sent'
    BY <1>1, <1>2 DEF Outside
  <2>2. \A v \in Workers : v # w /\ pc'[v] \in {"working", "failed"} =>
          job'[v] \in 0 .. next - 1
    BY <1>2, <1>4 DEF IInv, Apart
  <2>3. \A v \in Workers : pc'[v] \in {"working", "failed"} => job'[v] \in 0 .. next' - 1
    BY <1>1, <1>2, <1>5, <2>2
  <2>4. ASSUME NEW u \in Workers, NEW v \in Workers, u # v,
               {pc'[u], pc'[v]} \subseteq {"working", "failed"}
        PROVE  job'[u] # job'[v]
    <3>1. CASE u = w
      BY <1>2, <1>5, <2>2, <2>4, <3>1
    <3>2. CASE v = w
      BY <1>2, <1>5, <2>2, <2>4, <3>2
    <3>3. CASE u # w /\ v # w
      BY <1>2, <1>4, <2>4, <3>3 DEF IInv, Apart
    <3>4. QED
      BY <3>1, <3>2, <3>3
  <2>5. QED
    BY <1>3, <2>1, <2>3, <2>4 DEF Apart
<1>9. Accounted'
  <2>1. durs \cup failures \subseteq 0 .. next - 1
    BY <1>2 DEF IInv, Accounted
  <2>2. durs' \cup failures' \subseteq 0 .. next' - 1
    BY <1>1, <1>2, <2>1
  <2>3. ASSUME NEW i \in 0 .. next' - 1
        PROVE  i \in durs' \cup failures' \/ \E v \in Workers : pc'[v] = "working" /\ job'[v] = i
    <3>1. CASE i = next
      BY <1>5, <3>1
    <3>2. CASE i # next
      <4>1. i \in 0 .. next - 1
        BY <1>1, <1>2, <3>2
      <4>2. i \in durs \cup failures \/ \E v \in Workers : pc[v] = "working" /\ job[v] = i
        BY <1>2, <4>1 DEF IInv, Accounted
      <4>3. QED
        BY <1>1, <1>4, <4>2
    <3>3. QED
      BY <3>1, <3>2
  <2>4. ASSUME NEW v \in Workers
        PROVE  /\ pc'[v] = "working" => job'[v] \notin durs' \cup failures'
               /\ pc'[v] = "failed" => job'[v] \in failures' \ durs'
               /\ pc'[v] = "gone" => next' = flags'.count \/ errCh' > 0
    <3>1. CASE v = w
      BY <1>1, <1>2, <1>5, <2>1, <3>1
    <3>2. CASE v # w
      BY <1>1, <1>2, <1>4, <3>2 DEF IInv, Accounted, Outside
    <3>3. QED
      BY <3>1, <3>2
  <2>5. QED
    BY <1>3, <2>2, <2>3, <2>4 DEF Accounted
<1>10. FailuresKept'
  <2>1. Failed' = Failed /\ \A v \in Failed : job'[v] = job[v]
    BY <1>1, <1>3, <1>4, <1>5 DEF Failed
  <2>2. QED
    BY <1>1, <1>2, <1>3, <2>1 DEF IInv, FailuresKept
<1>11. SeedFirst' /\ GetsFindKeys'
  BY <1>1, <1>3 DEF IInv, SeedFirst, GetsFindKeys, Outside
<1>12. QED
  BY <1>3, <1>6, <1>7, <1>8, <1>9, <1>10, <1>11 DEF IInv

\* A goroutine leaves when the channel is empty.
LEMMA LeaveStep ==
  ASSUME IInv, NEW w \in Workers, Leave(w)
  PROVE  IInv'
<1> USE DEF measured, store
<1>1. pc[w] = "idle" /\ next = flags.count /\ next' = next
      /\ pc' = [pc EXCEPT ![w] = "gone"] /\ job' = job
      /\ durs' = durs /\ errs' = errs /\ errCh' = errCh /\ failures' = failures
      /\ keys' = keys /\ missed' = missed /\ UNCHANGED Outside
  BY DEF Leave, RangeEnds, Outside
<1>2. /\ Pooled /\ running /\ ~Sequential
      /\ pc \in [Workers -> {"idle", "working", "failed", "gone"}]
  BY <1>1, AtWork
<1>3. /\ Workers' = Workers /\ Indices' = Indices /\ IsKV' = IsKV /\ IsMesh' = IsMesh
      /\ Sequential' = Sequential /\ Pooled' = Pooled /\ Result' = Result
      /\ ReportedIsMeasured'
  BY <1>1, OutsideKept
<1>4. pc'[w] = "gone" /\ \A v \in Workers : v # w => pc'[v] = pc[v]
  BY <1>1, <1>2
<1>5. TypeOK'
  <2>1. pc' \in [Workers -> {"idle", "working", "failed", "gone"}]
    BY <1>1, <1>2
  <2>2. QED
    BY <1>1, <1>3, <2>1 DEF IInv, TypeOK, Outside
<1>6. AtRest' /\ Sampled'
  BY <1>1, <1>2, <1>3 DEF IInv, AtRest, Sampled, Outside
<1>7. Apart'
  BY <1>1, <1>2, <1>3, <1>4 DEF IInv, Apart, Outside
<1>8. Accounted'
  BY <1>1, <1>2, <1>3, <1>4 DEF IInv, Accounted, Outside
<1>9. FailuresKept'
  <2>1. Failed' = Failed
    BY <1>1, <1>3, <1>4 DEF Failed
  <2>2. QED
    BY <1>1, <1>2, <1>3, <2>1 DEF IInv, FailuresKept
<1>10. SeedFirst' /\ GetsFindKeys'
  BY <1>1, <1>3 DEF IInv, SeedFirst, GetsFindKeys, Outside
<1>11. QED
  BY <1>3, <1>5, <1>6, <1>7, <1>8, <1>9, <1>10 DEF IInv

\* The index a goroutine has in hand is one that has been taken, and its own.
LEMMA InHand ==
  ASSUME IInv, NEW w \in Workers, pc[w] \in {"working", "failed"}
  PROVE  /\ job[w] \in 0 .. next - 1 /\ job[w] \in Indices /\ KeyOf(job[w]) = job[w]
         /\ \A v \in Workers : v # w /\ pc[v] \in {"working", "failed"} => job[v] # job[w]
<1>1. Pooled /\ 0 .. next - 1 \subseteq Indices
  BY AtWork
<1>2. job[w] \in 0 .. next - 1 /\ job[w] \in Indices
  BY <1>1 DEF IInv, Apart
<1>3. \A v \in Workers : v # w /\ pc[v] \in {"working", "failed"} => job[v] # job[w]
  BY <1>1 DEF IInv, Apart
<1>4. QED
  BY <1>2, <1>3, KeyIsIndex DEF IInv

\* What every step of a goroutine with an index in hand keeps.
LEMMA HandedOn ==
  ASSUME IInv, NEW w \in Workers, pc[w] \in {"working", "failed"},
         NEW p \in {"idle", "failed", "gone"}, pc' = [pc EXCEPT ![w] = p],
         UNCHANGED Outside, next' = next, job' = job,
         durs' \in {durs, durs \cup {job[w]}}, failures' \in {failures, failures \cup {job[w]}},
         keys' \in {keys, keys \cup {job[w]}}, missed' \in BOOLEAN,
         errs' \in 0 .. flags.count, errCh' \in 0 .. flags.workers,
         IF IsKV THEN errs' = 0 ELSE errCh' = 0,
         IsKV /\ calls[1] = "seed" => durs' \subseteq keys'
  PROVE  TypeOK' /\ AtRest' /\ Sampled' /\ Apart' /\ SeedFirst' /\ ReportedIsMeasured'
<1>1. /\ Pooled /\ running /\ ~Sequential
      /\ pc \in [Workers -> {"idle", "working", "failed", "gone"}]
      /\ flags.count \in Nat /\ flags.samples \in Nat
      /\ Indices = 0 .. flags.count - 1
  BY AtWork
<1>2. /\ Workers' = Workers /\ Indices' = Indices /\ IsKV' = IsKV /\ IsMesh' = IsMesh
      /\ Sequential' = Sequential /\ Pooled' = Pooled /\ Result' = Result
      /\ ReportedIsMeasured'
  BY OutsideKept
<1>3. job[w] \in Indices
  BY InHand
<1>4. TypeOK'
  <2>1. pc' \in [Workers -> {"idle", "working", "failed", "gone"}]
    BY <1>1
  <2>2. durs' \subseteq 0 .. flags.count + flags.samples
    <3>1. job[w] \in 0 .. flags.count + flags.samples
      BY <1>1, <1>3
    <3>2. QED
      BY <3>1 DEF IInv, TypeOK
  <2>3. failures' \subseteq Indices /\ keys' \subseteq Indices
    BY <1>3 DEF IInv, TypeOK
  <2>4. QED
    BY <1>2, <2>1, <2>2, <2>3 DEF IInv, TypeOK, Outside
<1>5. AtRest' /\ Sampled'
  BY <1>1, <1>2 DEF IInv, AtRest, Sampled, Outside
<1>6. Apart'
  <2>1. \A v \in Workers : pc'[v] \in {"working", "failed"} => pc[v] \in {"working", "failed"}
    BY <1>1
  <2>2. QED
    BY <1>1, <1>2, <2>1 DEF IInv, Apart, Outside
<1>7. SeedFirst'
  BY <1>2 DEF IInv, SeedFirst, Outside
<1>8. QED
  BY <1>2, <1>4, <1>5, <1>6, <1>7

\* A request is answered: its key is written, or was there to be read.
LEMMA SucceedStep ==
  ASSUME IInv, NEW w \in Workers, Succeed(w)
  PROVE  IInv'
<1>1. pc[w] = "working" /\ pc' = [pc EXCEPT ![w] = "idle"] /\ next' = next /\ job' = job
      /\ durs' = durs \cup {job[w]} /\ errs' = errs /\ errCh' = errCh /\ failures' = failures
      /\ UNCHANGED Outside
  BY DEF Succeed, Outside
<1>2. /\ Pooled /\ flags.workers > 0 /\ flags.workers \in Nat
      /\ pc \in [Workers -> {"idle", "working", "failed", "gone"}]
  BY <1>1, AtWork
<1>3. /\ Workers' = Workers /\ IsKV' = IsKV /\ IsMesh' = IsMesh /\ Pooled' = Pooled
  BY <1>1, OutsideKept
<1>4. /\ job[w] \in 0 .. next - 1 /\ job[w] \in Indices /\ KeyOf(job[w]) = job[w]
      /\ \A v \in Workers : v # w /\ pc[v] \in {"working", "failed"} => job[v] # job[w]
  BY <1>1, InHand
<1>5. pc'[w] = "idle" /\ \A v \in Workers : v # w => pc'[v] = pc[v]
  BY <1>1, <1>2
<1>6. keys' \in {keys, keys \cup {job[w]}}
  BY <1>4 DEF Succeed, Written
<1>7. IsKV /\ calls[1] = "seed" => durs' \subseteq keys'
  <2> SUFFICES ASSUME IsKV, calls[1] = "seed" PROVE durs' \subseteq keys'
    OBVIOUS
  <2>1. keys' = keys \cup {job[w]}
    BY <1>4 DEF Succeed, Written, IsPut
  <2>2. durs \subseteq keys
    BY <1>2 DEF IInv, SeedFirst, Pooled
  <2>3. QED
    BY <1>1, <2>1, <2>2
<1>8. GetsFindKeys'
  <2>1. ASSUME IsGet(calls[1], job[w])
        PROVE  KeyOf(job[w]) \in keys
    <3>1. calls[1] \in {"read", "mixed"}
      BY <2>1 DEF IsGet
    <3>2. 1 \in 1 .. Len(calls)
      BY <1>2 DEF IInv, AtRest, TypeOK, Pooled
    <3>3. calls[1] = "seed" \/ Indices \subseteq keys \/ flags.workers = 0
      BY <3>1, <3>2 DEF IInv, SeedFirst
    <3>4. QED
      BY <1>2, <1>4, <3>1, <3>3
  <2>2. missed' = (missed \/ (IsGet(calls[1], job[w]) /\ KeyOf(job[w]) \notin keys))
    BY DEF Succeed
  <2>3. ~missed
    BY DEF IInv, GetsFindKeys
  <2>4. missed' = FALSE
    <3>1. ~(IsGet(calls[1], job[w]) /\ KeyOf(job[w]) \notin keys)
      BY <2>1
    <3>2. QED
      BY <2>2, <2>3, <3>1, Zenon
  <2>5. QED
    BY <2>4 DEF GetsFindKeys
<1>9. missed' \in BOOLEAN
  BY <1>8 DEF GetsFindKeys, Succeed
<1>10. TypeOK' /\ AtRest' /\ Sampled' /\ Apart' /\ SeedFirst' /\ ReportedIsMeasured'
  <2>1. errs' \in 0 .. flags.count /\ errCh' \in 0 .. flags.workers
        /\ IF IsKV THEN errs' = 0 ELSE errCh' = 0
    BY <1>1 DEF IInv, TypeOK, AtRest
  <2>2. QED
    BY <1>1, <1>6, <1>7, <1>9, <2>1, HandedOn
<1>11. Accounted'
  <2>1. durs' \cup failures' \subseteq 0 .. next' - 1
    BY <1>1, <1>2, <1>4 DEF IInv, Accounted
  <2>2. ASSUME NEW i \in 0 .. next' - 1
        PROVE  i \in durs' \cup failures' \/ \E v \in Workers : pc'[v] = "working" /\ job'[v] = i
    BY <1>1, <1>2, <1>5 DEF IInv, Accounted
  <2>3. ASSUME NEW v \in Workers
        PROVE  /\ pc'[v] = "working" => job'[v] \notin durs' \cup failures'
               /\ pc'[v] = "failed" => job'[v] \in failures' \ durs'
               /\ pc'[v] = "gone" => next' = flags'.count \/ errCh' > 0
    BY <1>1, <1>2, <1>4, <1>5 DEF IInv, Accounted, Outside
  <2>4. QED
    BY <1>3, <2>1, <2>2, <2>3 DEF Accounted
<1>12. FailuresKept'
  <2>1. Failed' = Failed
    BY <1>1, <1>3, <1>5 DEF Failed
  <2>2. job[w] \notin failures
    BY <1>1, <1>2 DEF IInv, Accounted
  <2>3. QED
    BY <1>1, <1>2, <1>3, <2>1, <2>2 DEF IInv, FailuresKept
<1>13. QED
  BY <1>8, <1>10, <1>11, <1>12 DEF IInv

\* A request fails: its goroutine has the failure in hand.
LEMMA FailStep ==
  ASSUME IInv, NEW w \in Workers, Fail(w)
  PROVE  IInv'
<1>1. pc[w] = "working" /\ pc' = [pc EXCEPT ![w] = "failed"] /\ next' = next /\ job' = job
      /\ durs' = durs /\ errs' = errs /\ errCh' = errCh /\ missed' = missed
      /\ failures' = failures \cup {job[w]} /\ UNCHANGED Outside
  BY DEF Fail, Outside
<1>2. /\ Pooled /\ flags.count \in Nat
      /\ pc \in [Workers -> {"idle", "working", "failed", "gone"}]
  BY <1>1, AtWork
<1>3. /\ Workers' = Workers /\ IsKV' = IsKV /\ IsMesh' = IsMesh /\ Pooled' = Pooled
  BY <1>1, OutsideKept
<1>4. /\ job[w] \in 0 .. next - 1 /\ job[w] \in Indices /\ KeyOf(job[w]) = job[w]
      /\ \A v \in Workers : v # w /\ pc[v] \in {"working", "failed"} => job[v] # job[w]
  BY <1>1, InHand
<1>5. pc'[w] = "failed" /\ \A v \in Workers : v # w => pc'[v] = pc[v]
  BY <1>1, <1>2
<1>6. job[w] \notin durs /\ job[w] \notin failures
  BY <1>1, <1>2 DEF IInv, Accounted
<1>7. keys' \in {keys, keys \cup {job[w]}}
  BY <1>4 DEF Fail, Written
<1>8. IsKV /\ calls[1] = "seed" => durs' \subseteq keys'
  BY <1>1, <1>2, <1>7 DEF IInv, SeedFirst, Pooled
<1>9. TypeOK' /\ AtRest' /\ Sampled' /\ Apart' /\ SeedFirst' /\ ReportedIsMeasured'
  <2>1. errs' \in 0 .. flags.count /\ errCh' \in 0 .. flags.workers /\ missed' \in BOOLEAN
        /\ IF IsKV THEN errs' = 0 ELSE errCh' = 0
    BY <1>1 DEF IInv, TypeOK, AtRest
  <2>2. QED
    BY <1>1, <1>7, <1>8, <2>1, HandedOn
<1>10. Accounted'
  <2>1. durs' \cup failures' \subseteq 0 .. next' - 1
    BY <1>1, <1>2, <1>4 DEF IInv, Accounted
  <2>2. ASSUME NEW i \in 0 .. next' - 1
        PROVE  i \in durs' \cup failures' \/ \E v \in Workers : pc'[v] = "working" /\ job'[v] = i
    BY <1>1, <1>2, <1>5 DEF IInv, Accounted
  <2>3. ASSUME NEW v \in Workers
        PROVE  /\ pc'[v] = "working" => job'[v] \notin durs' \cup failures'
               /\ pc'[v] = "failed" => job'[v] \in failures' \ durs'
               /\ pc'[v] = "gone" => next' = flags'.count \/ errCh' > 0
    BY <1>1, <1>2, <1>4, <1>5, <1>6 DEF IInv, Accounted, Outside
  <2>4. QED
    BY <1>3, <2>1, <2>2, <2>3 DEF Accounted
<1>11. FailuresKept'
  <2>1. Failed' = Failed \cup {w} /\ w \notin Failed
    BY <1>1, <1>3, <1>5 DEF Failed
  <2>2. /\ Cardinality(Failed') = Cardinality(Failed) + 1
        /\ Cardinality(failures') = Cardinality(failures) + 1
    BY <1>1, <1>6, <2>1, Countable, FS_AddElement DEF IInv
  <2>3. ~IsKV => errs' + Cardinality(Failed') = Cardinality(failures')
    <3>1. Cardinality(Failed) \in Nat /\ Cardinality(failures) \in Int /\ errs \in Int
      BY <1>2, Countable DEF IInv, TypeOK
    <3>2. ~IsKV => errs + Cardinality(Failed) = Cardinality(failures)
      BY <1>2 DEF IInv, FailuresKept
    <3>3. QED
      BY <1>1, <2>2, <3>1, <3>2
  <2>4. IsKV \/ IsMesh => durs' \cap failures' = {}
    BY <1>1, <1>2, <1>6 DEF IInv, FailuresKept
  <2>5. IsKV /\ errCh' = 0 => \A i \in failures' : \E v \in Failed' : job'[v] = i
    BY <1>1, <1>2, <2>1 DEF IInv, FailuresKept
  <2>6. ~IsKV /\ ~IsMesh => \A i \in failures' : i \in durs' \/ \E v \in Failed' : job'[v] = i
    BY <1>1, <1>2, <2>1 DEF IInv, FailuresKept
  <2>7. QED
    BY <1>3, <2>3, <2>4, <2>5, <2>6 DEF FailuresKept
<1>12. QED
  BY <1>1, <1>9, <1>10, <1>11 DEF IInv, GetsFindKeys

\* loadgen-kv puts the failure into errCh, which has then an error at least.
LEMMA OfferErrorStep ==
  ASSUME IInv, NEW w \in Workers, OfferError(w)
  PROVE  IInv'
<1>1. pc[w] = "failed" /\ pc' = [pc EXCEPT ![w] = "gone"] /\ next' = next /\ job' = job
      /\ durs' = durs /\ errs' = errs /\ failures' = failures /\ keys' = keys
      /\ missed' = missed /\ IsKV /\ UNCHANGED Outside
  BY DEF OfferError, Outside, store
<1>2. /\ Pooled /\ flags.workers \in Nat /\ flags.workers > 0
      /\ pc \in [Workers -> {"idle", "working", "failed", "gone"}]
  BY <1>1, AtWork
<1>3. /\ Workers' = Workers /\ IsKV' = IsKV /\ IsMesh' = IsMesh /\ Pooled' = Pooled
  BY <1>1, OutsideKept
<1>4. pc'[w] = "gone" /\ \A v \in Workers : v # w => pc'[v] = pc[v]
  BY <1>1, <1>2
<1>5. errCh' \in 0 .. flags.workers /\ errCh' > 0
  BY <1>2 DEF OfferError, ErrChCap, IInv, TypeOK
<1>6. TypeOK' /\ AtRest' /\ Sampled' /\ Apart' /\ SeedFirst' /\ ReportedIsMeasured'
  <2>1. errs' \in 0 .. flags.count /\ errs' = 0 /\ missed' \in BOOLEAN
        /\ (calls[1] = "seed" => durs' \subseteq keys')
    BY <1>1, <1>2 DEF IInv, TypeOK, AtRest, SeedFirst, Pooled
  <2>2. QED
    BY <1>1, <1>5, <2>1, HandedOn
<1>7. Accounted'
  <2>1. \A i \in 0 .. next - 1 :
          i \in durs \cup failures \/ \E v \in Workers : pc'[v] = "working" /\ job[v] = i
    BY <1>1, <1>2, <1>4 DEF IInv, Accounted
  <2>2. QED
    BY <1>1, <1>2, <1>3, <1>4, <1>5, <2>1 DEF IInv, Accounted, Outside
<1>8. FailuresKept'
  BY <1>1, <1>2, <1>3, <1>5 DEF IInv, FailuresKept
<1>9. QED
  BY <1>1, <1>6, <1>7, <1>8 DEF IInv, GetsFindKeys

\* Elsewhere the failure is counted, and loadgen-http records its duration.
LEMMA CountErrorStep ==
  ASSUME IInv, NEW w \in Workers, CountError(w)
  PROVE  IInv'
<1>1. pc[w] = "failed" /\ pc' = [pc EXCEPT ![w] = "idle"] /\ next' = next /\ job' = job
      /\ durs' = (IF IsMesh THEN durs ELSE durs \cup {job[w]})
      /\ errs' = errs + 1 /\ errCh' = errCh /\ failures' = failures /\ keys' = keys
      /\ missed' = missed /\ ~IsKV /\ UNCHANGED Outside
  BY DEF CountError, Outside, store
<1>2. /\ Pooled /\ flags.count \in Nat /\ flags.workers \in Nat
      /\ pc \in [Workers -> {"idle", "working", "failed", "gone"}]
  BY <1>1, AtWork
<1>3. /\ Workers' = Workers /\ IsKV' = IsKV /\ IsMesh' = IsMesh /\ Pooled' = Pooled
  BY <1>1, OutsideKept
<1>4. /\ job[w] \in 0 .. next - 1
      /\ \A v \in Workers : v # w /\ pc[v] \in {"working", "failed"} => job[v] # job[w]
  BY <1>1, InHand
<1>5. pc'[w] = "idle" /\ \A v \in Workers : v # w => pc'[v] = pc[v]
  BY <1>1, <1>2
<1>6. job[w] \in failures
  BY <1>1, <1>2 DEF IInv, Accounted
<1>7. Failed' = Failed \ {w} /\ w \in Failed
  BY <1>1, <1>3, <1>5 DEF Failed
<1>8. errs' + Cardinality(Failed') = Cardinality(failures') /\ errs' \in 0 .. flags.count
  <2>1. /\ Cardinality(Failed) \in Nat /\ Cardinality(failures) \in 0 .. flags.count
        /\ IsFiniteSet(Failed) /\ errs \in 0 .. flags.count
    BY Countable DEF IInv, TypeOK
  <2>2. IsFiniteSet(Failed') /\ Cardinality(Failed') = Cardinality(Failed) - 1
    BY <1>7, <2>1, FS_RemoveElement
  <2>3. Cardinality(Failed') \in Nat
    BY <2>2, FS_CardinalityType
  <2>4. errs + Cardinality(Failed) = Cardinality(failures)
    BY <1>1, <1>2 DEF IInv, FailuresKept
  <2>5. QED
    BY <1>1, <1>2, <2>1, <2>2, <2>3, <2>4
<1>9. TypeOK' /\ AtRest' /\ Sampled' /\ Apart' /\ SeedFirst' /\ ReportedIsMeasured'
  <2>1. errCh' \in 0 .. flags.workers /\ errCh' = 0 /\ missed' \in BOOLEAN
    BY <1>1 DEF IInv, TypeOK, AtRest
  <2>2. QED
    BY <1>1, <1>8, <2>1, HandedOn
<1>10. Accounted'
  <2>1. durs' \cup failures' \subseteq 0 .. next' - 1
    BY <1>1, <1>2, <1>4 DEF IInv, Accounted
  <2>2. ASSUME NEW i \in 0 .. next' - 1
        PROVE  i \in durs' \cup failures' \/ \E v \in Workers : pc'[v] = "working" /\ job'[v] = i
    BY <1>1, <1>2, <1>5 DEF IInv, Accounted
  <2>3. ASSUME NEW v \in Workers
        PROVE  /\ pc'[v] = "working" => job'[v] \notin durs' \cup failures'
               /\ pc'[v] = "failed" => job'[v] \in failures' \ durs'
               /\ pc'[v] = "gone" => next' = flags'.count \/ errCh' > 0
    BY <1>1, <1>2, <1>4, <1>5 DEF IInv, Accounted, Outside
  <2>4. QED
    BY <1>3, <2>1, <2>2, <2>3 DEF Accounted
<1>11. FailuresKept'
  <2>1. IsMesh => durs' \cap failures' = {}
    BY <1>1, <1>2 DEF IInv, FailuresKept
  <2>2. ~IsMesh => \A i \in failures' : i \in durs' \/ \E v \in Failed' : job'[v] = i
    BY <1>1, <1>2, <1>7 DEF IInv, FailuresKept
  <2>3. QED
    BY <1>1, <1>3, <1>8, <2>1, <2>2 DEF FailuresKept
<1>12. QED
  BY <1>1, <1>9, <1>10, <1>11 DEF IInv, GetsFindKeys

-----------------------------------------------------------------------------
(* The theorems.                                                           *)

\* Every step keeps the invariant.
LEMMA StepKeeps == IInv /\ [Next]_vars => IInv'
<1> SUFFICES ASSUME IInv, [Next]_vars PROVE IInv'
  OBVIOUS
<1>1. CASE Begin
  BY <1>1, BeginStep
<1>2. CASE ProbeFails
  BY <1>2, ExitStep DEF ProbeFails
<1>3. CASE Send
  BY <1>3, SendStep
<1>4. CASE Samples
  BY <1>4, SampleStep DEF Samples, EtcdWatch, ConsulWatch, EtcdElection, ConsulElection
<1>5. CASE Finish
  BY <1>5, FinishStep
<1>6. CASE Cleanup
  BY <1>6, CleanupStep
<1>7. ASSUME NEW w \in Workers, Work(w)
      PROVE  IInv'
  BY <1>7, FetchStep, LeaveStep, SucceedStep, FailStep, OfferErrorStep, CountErrorStep DEF Work
<1>8. CASE Done \/ UNCHANGED vars
  <2>1. UNCHANGED vars
    BY <1>8 DEF Done
  <2>2. exit' \in {"none", "ok", "fatal"}
    BY <2>1 DEF IInv, TypeOK, vars
  <2>3. QED
    BY <2>1, <2>2, ExitStep DEF vars
<1>9. QED
  BY <1>1, <1>2, <1>3, <1>4, <1>5, <1>6, <1>7, <1>8 DEF Next, Main

\* The invariant holds throughout a run of main.
LEMMA Invariant == Spec => []IInv
<1>1. Init => IInv
  BY InitInvariant
<1>2. IInv /\ [Next]_vars => IInv'
  BY StepKeeps
<1>3. QED
  BY <1>1, <1>2, PTL DEF Spec

\* The counters stay within the bounds of the command line: errCh never needs
\* more places than it has, and no more errors are counted than requests are made.
THEOREM RequestsTypeOK == Spec => []TypeOK
<1>1. IInv => TypeOK
  BY DEF IInv
<1>2. QED
  BY <1>1, Invariant, PTL

\* What a call reports is what it did, for every tool, count and number of
\* goroutines: no failure is left out of the report or taken for a duration.
THEOREM MeasuredOnly == Spec => []ReportedIsMeasured
<1>1. IInv => ReportedIsMeasured
  BY DEF IInv
<1>2. QED
  BY <1>1, Invariant, PTL

\* Every Get of loadgen-kv finds the key it asks for: the seed write comes first,
\* and a report of it means that every key exists.
THEOREM GetsAreHits == Spec => []GetsFindKeys
<1>1. IInv => GetsFindKeys
  BY DEF IInv
<1>2. QED
  BY <1>1, Invariant, PTL

-----------------------------------------------------------------------------
(* Part 2: loadgen-http with bench-api.                                    *)
(*                                                                         *)
(* The inductive invariant: those of load generator and server, and how    *)
(* the one's records are related to the other's requests.                  *)

\* The current call of loadgen-http has the next number and is one that the server
\* knows, unless the command line asks for an unknown operation.
CallsLeft ==
  IsHttp =>
    /\ Len(results) + Len(calls) <= MaxCalls(flags)
    /\ \A c \in 1 .. Len(calls) : calls[c] \in HttpOps
    /\ flags.op # "unknown" => \A c \in 1 .. Len(calls) : calls[c] \in Operations

\* A request of the load is under way, or has been answered.
SentAs(r, o) ==
  r \in Reqs /\ client[r] # "unsent" /\ req[r] \in LoadRequests(flags.tool, o)
AnsweredAs(r, o) == SentAs(r, o) /\ client[r] = "answered"

InCall == running /\ Sends

\* An index in work is a request on its way, and one that has a duration and no
\* failure is an answered one.
Asked == InCall => \A w \in Workers : pc[w] = "working" => SentAs(Id(job[w]), calls[1])

Confirmed == InCall => \A i \in durs \ failures : AnsweredAs(Id(i), calls[1])

\* So it is with the calls that have been reported.
Reported ==
  SentAll =>
    \A k \in DOMAIN results :
      /\ results[k].op \in Operations
      /\ \A i \in Answered(k) : AnsweredAs(<<k, i>>, results[k].op)

Linked == CallsLeft /\ Asked /\ Confirmed /\ Reported

ExperimentInv == IInv /\ ServerInv /\ MetersInv /\ Linked

-----------------------------------------------------------------------------
(* The requests of the load.                                               *)

\* The protocols of loadgen-http are those of bench-api.
LEMMA SameProtocols ==
  /\ Protocols = APIProtocols /\ HttpOps = Operations \cup {"unknown"}
  /\ "unknown" \notin Operations /\ \A o \in Operations : o \notin {"watch", "election"}
BY DEF Protocols, APIProtocols, WebProtocols, HttpOps, Operations

\* What loadgen-http asks is answered OK, in a short answer, and counted under the
\* label of its operation.
LEMMA LoadAnswered ==
  ASSUME NEW p \in Protocols, NEW o \in Operations, NEW q \in LoadRequests(p, o)
  PROVE  /\ q.proto = p /\ Operation(q) = o /\ Instrumented(q)
         /\ \A a \in Replies(q) : a.status = "ok" /\ a.body # Echo("long")
<1>1. p \in {"rest", "grpc", "graphql"} /\ o \in {"echo", "get-user", "create-order"}
  BY DEF Protocols, Operations
<1>2. /\ q.proto = p /\ q.names = {o} /\ q.whole /\ q.msg \in {"hello", ""}
      /\ o = "get-user" => q.nums[1].kind = "int"
      /\ o = "create-order" => \A i \in 1 .. 3 : q.nums[i].kind = "int"
  <2>1. CASE o = "echo"
    <3>1. q = EchoRequest(p)
      BY <2>1 DEF LoadRequests
    <3>2. q = [Asking(p, "echo", "hello", Nothing) EXCEPT !.inline = (p = "graphql")]
      BY <3>1 DEF EchoRequest
    <3>3. QED
      BY <2>1, <3>2 DEF Asking
  <2>2. CASE o = "get-user"
    <3>1. PICK u \in UserIDs : q = UserRequest(p, u)
      BY <2>2 DEF LoadRequests
    <3>2. q = Asking(p, "get-user", "", [Nothing EXCEPT ![1] = Number(u)])
      BY <3>1 DEF UserRequest
    <3>3. q.nums = [Nothing EXCEPT ![1] = Number(u)] /\ q.proto = p /\ q.names = {"get-user"}
          /\ q.whole /\ q.msg = ""
      BY <3>2 DEF Asking
    <3>4. q.nums[1] = Number(u)
      <4>1. DOMAIN Nothing = 1 .. 3 /\ 1 \in 1 .. 3
        BY DEF Nothing
      <4>2. [Nothing EXCEPT ![1] = Number(u)][1] = Number(u)
        BY <4>1
      <4>3. QED
        BY <3>3, <4>2
    <3>5. Number(u).kind = "int"
      BY DEF Number
    <3>6. q.nums[1].kind = "int"
      BY <3>4, <3>5
    <3>7. QED
      BY <2>2, <3>3, <3>6
  <2>3. CASE o = "create-order"
    <3>1. PICK u \in UserIDs : q = OrderRequest(p, u)
      BY <2>3 DEF LoadRequests
    <3>2. q = Asking(p, "create-order", "", [i \in 1 .. 3 |-> Number(IF i = 1 THEN u ELSE i)])
      BY <3>1 DEF OrderRequest
    <3>3. q.nums = [i \in 1 .. 3 |-> Number(IF i = 1 THEN u ELSE i)] /\ q.proto = p
          /\ q.names = {"create-order"} /\ q.whole /\ q.msg = ""
      BY <3>2 DEF Asking
    <3>4. \A n : Number(n).kind = "int"
      BY DEF Number
    <3>5. ASSUME NEW i \in 1 .. 3 PROVE q.nums[i].kind = "int"
      <4>1. \E n : q.nums[i] = Number(n)
        BY <3>3
      <4>2. QED
        BY <3>4, <4>1
    <3>6. QED
      BY <2>3, <3>3, <3>5
  <2>4. QED
    BY <1>1, <2>1, <2>2, <2>3
<1>3. Operation(q) = o
  BY <1>1, <1>2 DEF Operation
<1>4. ~Rejected(q)
  <2>1. \A i \in Arguments(q) : q.nums[i].kind = "int"
    <3>1. CASE o = "echo"
      <4>1. Arguments(q) = {}
        BY <1>3, <3>1 DEF Arguments
      <4>2. QED
        BY <4>1
    <3>2. CASE o = "get-user"
      <4>1. Arguments(q) = {1}
        BY <1>3, <3>2 DEF Arguments
      <4>2. QED
        BY <1>2, <3>2, <4>1
    <3>3. CASE o = "create-order"
      <4>1. Arguments(q) = 1 .. 3
        BY <1>3, <3>3 DEF Arguments
      <4>2. QED
        BY <1>2, <3>3, <4>1
    <3>4. QED
      BY <1>1, <3>1, <3>2, <3>3
  <2>2. QED
    BY <1>2, <2>1 DEF Rejected
<1>5. Instrumented(q)
  BY <1>1, <1>3, <1>4 DEF Instrumented
<1>6. ASSUME NEW a \in Replies(q) PROVE a.status = "ok" /\ a.body # Echo("long")
  <2>1. Replies(q) = {Reply("ok", b) : b \in Bodies(q)}
    BY <1>1, <1>3, <1>4 DEF Replies
  <2>2. PICK b \in Bodies(q) : a = Reply("ok", b)
    BY <2>1
  <2>3. a.status = "ok" /\ a.body = b
    BY <2>2 DEF Reply
  <2>4. Echo("long").op = "echo" /\ Echo("long").msg = "long"
    BY DEF Echo
  <2>5. b # Echo("long")
    <3>1. CASE o = "echo"
      <4>1. Bodies(q) = {Echo(Message(q))}
        BY <1>3, <3>1 DEF Bodies
      <4>2. Message(q) # "long"
        BY <1>2 DEF Message
      <4>3. Echo(Message(q)).msg = Message(q)
        BY DEF Echo
      <4>4. QED
        BY <2>2, <2>4, <4>1, <4>2, <4>3
    <3>2. CASE o = "get-user"
      <4>1. \E i : b = GetUser(i)
        BY <1>3, <3>2 DEF Bodies
      <4>2. b.op = "get-user"
        BY <4>1 DEF GetUser
      <4>3. QED
        BY <2>4, <4>2
    <3>3. CASE o = "create-order"
      <4>1. \E u, v, n : b = CreateOrder(u, v, n)
        BY <1>3, <3>3 DEF Bodies
      <4>2. b.op = "create-order"
        BY <4>1 DEF CreateOrder
      <4>3. QED
        BY <2>4, <4>2
    <3>4. QED
      BY <1>1, <3>1, <3>2, <3>3
  <2>6. QED
    BY <2>3, <2>5
<1>7. QED
  BY <1>2, <1>3, <1>5, <1>6

\* In a call of loadgen-http the next request has an identity of its own, and the
\* server may get it.
LEMMA CallFacts ==
  ASSUME TypeOK, AtRest, CallsLeft, InCall
  PROVE  /\ calls # <<>> /\ calls[1] \in Operations /\ flags.tool \in Protocols
         /\ LoadRequests(flags.tool, calls[1]) \subseteq Inputs
         /\ \A i \in Indices : Id(i) \in Reqs
<1>1. calls # <<>> /\ flags.tool \in Protocols /\ calls \in Seq(CallType)
      /\ calls[1] # "unknown" /\ flags \in Flags
  BY DEF InCall, Sends, IsHttp, AtRest, TypeOK
<1>2. Len(calls) \in Nat /\ Len(calls) >= 1 /\ 1 \in 1 .. Len(calls)
  BY <1>1
<1>3. calls[1] \in Operations
  BY <1>1, <1>2, SameProtocols DEF CallsLeft, IsHttp
<1>4. LoadRequests(flags.tool, calls[1]) \subseteq Inputs
  BY <1>1, <1>3, RequestsAssumption
<1>5. Len(results) + 1 \in 1 .. MaxCalls(flags)
  <2>1. Len(results) \in Nat
    BY DEF AtRest
  <2>2. Len(results) + Len(calls) <= MaxCalls(flags) /\ MaxCalls(flags) \in Nat
    BY <1>1 DEF CallsLeft, IsHttp, MaxCalls
  <2>3. QED
    BY <1>2, <2>1, <2>2
<1>6. ASSUME NEW i \in Indices PROVE Id(i) \in Reqs
  <2>1. (1 .. MaxCalls(flags)) \X (0 .. flags.count - 1) \subseteq Reqs
    BY <1>1, RequestsAssumption
  <2>2. i \in 0 .. flags.count - 1
    BY DEF Indices
  <2>3. QED
    BY <1>5, <2>1, <2>2 DEF Id
<1>7. QED
  BY <1>1, <1>3, <1>4, <1>6

-----------------------------------------------------------------------------
(* The server's part in a step.                                            *)

\* What has been sent is not sent again, and an answer is not taken back.
LEMMA NothingTakenBack ==
  ASSUME ServerInv, [ServerNext]_serverVars, NEW r \in Reqs
  PROVE  /\ client[r] # "unsent" => client'[r] # "unsent" /\ req'[r] = req[r]
         /\ client[r] = "answered" => client'[r] = "answered"
<1>1. /\ client \in [Reqs -> {"unsent", "waiting", "answered", "failed"}]
      /\ req \in [Reqs -> Inputs]
      /\ \A x \in Reqs : client[x] = "answered" => stage[x] # "entered"
  BY DEF ServerInv, Shapes, InStep, Replied
<1>2. CASE UNCHANGED <<client, req>>
  BY <1>2
<1>3. ASSUME NEW x \in Reqs, NEW q \in Inputs, Submit(x, q)
      PROVE  /\ client[r] # "unsent" => client'[r] # "unsent" /\ req'[r] = req[r]
             /\ client[r] = "answered" => client'[r] = "answered"
  <2>1. client[x] = "unsent" /\ client' = [client EXCEPT ![x] = "waiting"]
        /\ req' = [req EXCEPT ![x] = q]
    BY <1>3 DEF Submit
  <2>2. CASE r = x
    BY <2>1, <2>2
  <2>3. CASE r # x
    BY <1>1, <2>1, <2>3
  <2>4. QED
    BY <2>2, <2>3
<1>4. ASSUME NEW x \in Reqs, Refused(x) \/ Broken(x) \/ GiveUp(x)
      PROVE  /\ client[r] # "unsent" => client'[r] # "unsent" /\ req'[r] = req[r]
             /\ client[r] = "answered" => client'[r] = "answered"
  <2>1. client[x] = "waiting" /\ client' = [client EXCEPT ![x] = "failed"] /\ req' = req
    BY <1>4 DEF Refused, Broken, GiveUp
  <2>2. QED
    BY <1>1, <2>1
<1>5. ASSUME NEW x \in Reqs, Flush(x) \/ FlushEarly(x)
      PROVE  /\ client[r] # "unsent" => client'[r] # "unsent" /\ req'[r] = req[r]
             /\ client[r] = "answered" => client'[r] = "answered"
  <2>1. client' = [client EXCEPT ![x] = IF @ = "waiting" THEN "answered" ELSE @]
        /\ req' = req
    BY <1>5 DEF Flush, FlushEarly, Waits
  <2>2. QED
    BY <1>1, <2>1
<1>6. ASSUME NEW x \in Reqs, Handle(x)
      PROVE  /\ client[r] # "unsent" => client'[r] # "unsent" /\ req'[r] = req[r]
             /\ client[r] = "answered" => client'[r] = "answered"
  <2>1. stage[x] = "entered" /\ req' = req
        /\ \E b \in BOOLEAN : client' = [client EXCEPT ![x] = IF b THEN "failed" ELSE @]
    BY <1>6 DEF Handle
  <2>2. PICK b \in BOOLEAN : client' = [client EXCEPT ![x] = IF b THEN "failed" ELSE @]
    BY <2>1
  <2>3. CASE r = x
    BY <1>1, <2>1, <2>2, <2>3
  <2>4. CASE r # x
    BY <1>1, <2>1, <2>2, <2>4
  <2>5. QED
    BY <2>3, <2>4
<1>7. ASSUME NEW x \in Reqs, Receive(x) \/ Bypass(x) \/ Enter(x) \/ Count(x) \/ Observe(x) \/ Depart(x)
      PROVE  UNCHANGED <<client, req>>
  BY <1>7 DEF Receive, Bypass, Enter, Count, Observe, Depart
<1>8. ASSUME NEW l \in Followed, BeginScrape(l) PROVE UNCHANGED <<client, req>>
  BY <1>8 DEF BeginScrape, exchange
<1>9. Open \/ Kill \/ EndScrape \/ UNCHANGED serverVars => UNCHANGED <<client, req>>
  BY DEF Open, Listen, ListenFails, Kill, EndScrape, serverVars, exchange
<1>10. QED
  BY <1>2, <1>3, <1>4, <1>5, <1>6, <1>7, <1>8, <1>9
     DEF ServerNext, ServerStep, Serve, Drop

\* Numbers, identities and reports depend on little.
LEMMA NamesKept ==
  ASSUME UNCHANGED <<flags, results>>
  PROVE  /\ IsHttp' = IsHttp /\ SentAll' = SentAll /\ Indices' = Indices
         /\ Workers' = Workers /\ MaxCalls(flags)' = MaxCalls(flags)
         /\ \A i : Id(i)' = Id(i)
         /\ \A k : Answered(k)' = Answered(k)
BY DEF IsHttp, SentAll, Indices, Workers, MaxCalls, Id, Answered

\* Reports stay as true as they are.
LEMMA ReportsStay ==
  ASSUME ServerInv, [ServerNext]_serverVars, Reported, UNCHANGED <<flags, results>>
  PROVE  Reported'
<1> SUFFICES ASSUME SentAll, NEW k \in DOMAIN results
             PROVE  /\ results[k].op \in Operations
                    /\ \A i \in Answered(k) : AnsweredAs(<<k, i>>, results[k].op)'
  <2>1. SentAll' = SentAll /\ \A k : Answered(k)' = Answered(k)
    BY NamesKept
  <2>2. QED
    BY <2>1 DEF Reported
<1>1. results[k].op \in Operations
  BY DEF Reported
<1>2. ASSUME NEW i \in Answered(k) PROVE AnsweredAs(<<k, i>>, results[k].op)'
  <2>1. <<k, i>> \in Reqs /\ client[<<k, i>>] = "answered"
        /\ req[<<k, i>>] \in LoadRequests(flags.tool, results[k].op)
    BY DEF Reported, AnsweredAs, SentAs
  <2>2. client'[<<k, i>>] = "answered" /\ req'[<<k, i>>] = req[<<k, i>>]
    BY <2>1, NothingTakenBack
  <2>3. QED
    BY <2>1, <2>2 DEF AnsweredAs, SentAs
<1>3. QED
  BY <1>1, <1>2

\* A step in which the load generator finishes and takes no request.
LEMMA QuietStep ==
  ASSUME ServerInv, [ServerNext]_serverVars, Linked,
         UNCHANGED <<flags, calls, running, pc, job, durs, failures, results>>
  PROVE  Linked'
<1>1. /\ IsHttp' = IsHttp /\ Workers' = Workers /\ MaxCalls(flags)' = MaxCalls(flags)
      /\ \A i : Id(i)' = Id(i)
  BY NamesKept
<1>2. InCall' = InCall
  BY <1>1 DEF InCall, Sends
<1>3. CallsLeft'
  BY <1>1 DEF Linked, CallsLeft
<1>4. ASSUME InCall, NEW i, SentAs(Id(i), calls[1])
      PROVE  /\ SentAs(Id(i), calls[1])'
             /\ AnsweredAs(Id(i), calls[1]) => AnsweredAs(Id(i), calls[1])'
  BY <1>4, NothingTakenBack DEF SentAs, AnsweredAs, Id
<1>5. Asked'
  <2>1. ASSUME InCall, NEW w \in Workers, pc[w] = "working"
        PROVE  SentAs(Id(job[w]), calls[1])'
    <3>1. SentAs(Id(job[w]), calls[1])
      BY <2>1 DEF Linked, Asked
    <3>2. QED
      BY <3>1, NothingTakenBack DEF SentAs, Id
  <2>2. QED
    BY <1>1, <1>2, <2>1 DEF Asked
<1>6. Confirmed'
  <2>1. ASSUME InCall, NEW i \in durs \ failures
        PROVE  AnsweredAs(Id(i), calls[1])'
    BY <1>4, <2>1 DEF Linked, Confirmed, AnsweredAs
  <2>2. QED
    BY <1>2, <2>1 DEF Confirmed
<1>7. QED
  BY <1>3, <1>5, <1>6, ReportsStay DEF Linked

\* Whatever the experiment does is something that the server knows.
LEMMA StepOfServer ==
  ASSUME TypeOK, AtRest, CallsLeft, [ExperimentNext]_allVars
  PROVE  [ServerNext]_serverVars
<1>1. CASE Script
  <2>1. CASE Probe
    <3>1. ProbeId \in Reqs /\ ProbeRequest \in Inputs
      BY RequestsAssumption
    <3>2. QED
      BY <2>1, <3>1 DEF Probe, ServerNext
  <2>2. CASE ProbeAnswered \/ ProbeGivenUp
    BY <2>2 DEF ProbeAnswered, ProbeGivenUp
  <2>3. QED
    BY <1>1, <2>1, <2>2 DEF Script
<1>2. ASSUME NEW w \in Workers, LoadWork(w)
      PROVE  [ServerNext]_serverVars
  <2>1. CASE LoadFetch(w) /\ Sends
    <3>1. running /\ next < sent
      BY <2>1 DEF LoadFetch, Fetch
    <3>2. next \in Indices
      <4>1. next \in Nat /\ sent \in 0 .. flags.count /\ flags.count \in Nat
        BY FlagFacts DEF TypeOK
      <4>2. QED
        BY <3>1, <4>1 DEF Indices
    <3>3. Id(next) \in Reqs /\ LoadRequests(flags.tool, calls[1]) \subseteq Inputs
      BY <2>1, <3>1, <3>2, CallFacts DEF InCall
    <3>4. \E q \in LoadRequests(flags.tool, calls[1]) : Submit(Id(next), q)
      BY <2>1 DEF LoadFetch
    <3>5. QED
      BY <3>3, <3>4 DEF ServerNext
  <2>2. CASE ~(LoadFetch(w) /\ Sends)
    BY <1>2, <2>2 DEF LoadWork, LoadFetch, LoadSucceed, LoadFail
  <2>3. QED
    BY <2>1, <2>2
<1>3. CASE LoadMain
  BY <1>3 DEF LoadMain
<1>4. CASE Visit
  <2>1. \A r \in Visitors : r \in Reqs
    BY ExperimentAssumption
  <2>2. QED
    BY <1>4, <2>1 DEF Visit, ServerNext
<1>5. CASE Server
  BY <1>5 DEF Server, ServerNext
<1>6. CASE (Done /\ UNCHANGED <<serverVars, probe>>) \/ UNCHANGED allVars
  BY <1>6 DEF allVars
<1>7. QED
  BY <1>1, <1>2, <1>3, <1>4, <1>5, <1>6 DEF ExperimentNext

\* And it is a step of the load generator, or the end of a run whose server did not
\* come up.
LEMMA StepOfLoad ==
  ASSUME IInv, [ExperimentNext]_allVars
  PROVE  IInv'
<1>1. CASE ProbeGivenUp
  BY <1>1, ExitStep DEF ProbeGivenUp
<1>2. CASE [Next]_vars
  BY <1>2, StepKeeps
<1>3. ASSUME NEW w \in Workers, LoadWork(w)
      PROVE  Next
  BY <1>3 DEF LoadWork, LoadFetch, LoadSucceed, LoadFail, Next, Work
<1>4. Probe \/ ProbeAnswered \/ Visit \/ Server => UNCHANGED vars
  BY DEF Probe, ProbeAnswered, Visit, Server
<1>5. LoadMain \/ Done => Next
  BY DEF LoadMain, Next
<1>6. QED
  BY <1>1, <1>2, <1>3, <1>4, <1>5 DEF ExperimentNext, Script, allVars

-----------------------------------------------------------------------------
(* The load generator's part in a step.                                    *)

\* A goroutine's step leaves the names of call and requests alone.
LEMMA SameCall ==
  ASSUME UNCHANGED <<flags, calls, running, results>>
  PROVE  /\ IsHttp' = IsHttp /\ Workers' = Workers /\ InCall' = InCall
         /\ CallsLeft => CallsLeft'
         /\ \A i : Id(i)' = Id(i)
BY DEF IsHttp, Workers, InCall, Sends, CallsLeft, Id, MaxCalls

\* A request of the load that stays in hand, and one that was answered.
LEMMA StaysSent ==
  ASSUME ServerInv, [ServerNext]_serverVars, UNCHANGED <<flags, calls, results>>, NEW i,
         SentAs(Id(i), calls[1])
  PROVE  /\ SentAs(Id(i), calls[1])'
         /\ AnsweredAs(Id(i), calls[1]) => AnsweredAs(Id(i), calls[1])'
BY NothingTakenBack DEF SentAs, AnsweredAs, Id

\* A goroutine sends a request, and has its index.
LEMMA FetchLinks ==
  ASSUME IInv, ServerInv, [ServerNext]_serverVars, Linked, NEW w \in Workers, LoadFetch(w)
  PROVE  Linked'
<1>1. /\ running /\ next < sent
      /\ pc' = [pc EXCEPT ![w] = "working"] /\ job' = [job EXCEPT ![w] = next]
      /\ UNCHANGED <<flags, calls, running, results, durs, failures>>
  BY DEF LoadFetch, Fetch, measured
<1>2. pc \in [Workers -> {"idle", "working", "failed", "gone"}] /\ job \in [Workers -> Nat]
  BY DEF IInv, TypeOK
<1>3. /\ Workers' = Workers /\ InCall' = InCall /\ CallsLeft'
      /\ \A i : Id(i)' = Id(i)
  BY <1>1, SameCall DEF Linked
<1>4. Asked'
  <2>1. ASSUME InCall, NEW v \in Workers, pc'[v] = "working"
        PROVE  SentAs(Id(job[v]), calls[1])'
    <3>1. CASE v # w
      <4>1. pc[v] = "working" /\ job'[v] = job[v]
        BY <1>1, <1>2, <2>1, <3>1
      <4>2. SentAs(Id(job[v]), calls[1])
        BY <2>1, <4>1 DEF Linked, Asked
      <4>3. QED
        BY <1>1, <4>1, <4>2, NothingTakenBack DEF SentAs, Id
    <3>2. CASE v = w
      <4>1. job'[v] = next
        BY <1>1, <1>2, <3>2
      <4>2. next \in Indices
        <5>1. next \in Nat /\ sent \in 0 .. flags.count /\ flags.count \in Nat
          BY FlagFacts DEF IInv, TypeOK
        <5>2. QED
          BY <1>1, <5>1 DEF Indices
      <4>3. Id(next) \in Reqs
        BY <2>1, <4>2, CallFacts DEF IInv, Linked
      <4>4. PICK q \in LoadRequests(flags.tool, calls[1]) : Submit(Id(next), q)
        BY <2>1 DEF LoadFetch, InCall
      <4>5. client' = [client EXCEPT ![Id(next)] = "waiting"] /\ req' = [req EXCEPT ![Id(next)] = q]
        BY <4>4 DEF Submit
      <4>6. DOMAIN client = Reqs /\ DOMAIN req = Reqs
        BY DEF ServerInv, Shapes
      <4>7. client'[Id(next)] = "waiting" /\ req'[Id(next)] = q
        BY <4>3, <4>5, <4>6
      <4>8. QED
        BY <1>1, <4>1, <4>3, <4>7 DEF SentAs, Id
    <3>3. QED
      BY <3>1, <3>2
  <2>2. QED
    BY <1>3, <2>1 DEF Asked
<1>5. Confirmed'
  <2>1. ASSUME InCall, NEW i \in durs \ failures
        PROVE  AnsweredAs(Id(i), calls[1])'
    BY <1>1, <2>1, StaysSent DEF Linked, Confirmed, AnsweredAs
  <2>2. QED
    BY <1>1, <1>3, <2>1 DEF Confirmed
<1>6. QED
  BY <1>1, <1>3, <1>4, <1>5, ReportsStay DEF Linked

\* A goroutine lets go of an index: what has a duration and no failure was there
\* before, or has been accepted.
LEMMA WorkLinks ==
  ASSUME IInv, ServerInv, [ServerNext]_serverVars, Linked, NEW w \in Workers,
         LoadWork(w), ~LoadFetch(w)
  PROVE  Linked'
<1>1. /\ UNCHANGED <<flags, calls, running, results, job>>
      /\ \E p \in {"idle", "failed", "gone"} : pc' = [pc EXCEPT ![w] = p]
  BY DEF LoadWork, LoadSucceed, LoadFail, Succeed, Fail, Leave, OfferError, CountError
<1>2. pc \in [Workers -> {"idle", "working", "failed", "gone"}]
  BY DEF IInv, TypeOK
<1>3. /\ Workers' = Workers /\ InCall' = InCall /\ CallsLeft'
      /\ \A i : Id(i)' = Id(i)
  BY <1>1, SameCall DEF Linked
<1>4. Asked'
  <2>1. ASSUME InCall, NEW v \in Workers, pc'[v] = "working"
        PROVE  SentAs(Id(job[v]), calls[1])'
    <3>1. pc[v] = "working"
      BY <1>1, <1>2, <2>1
    <3>2. SentAs(Id(job[v]), calls[1])
      BY <2>1, <3>1 DEF Linked, Asked
    <3>3. QED
      BY <1>1, <3>2, NothingTakenBack DEF SentAs, Id
  <2>2. QED
    BY <1>3, <2>1 DEF Asked
<1>5. ASSUME InCall, NEW i \in durs' \ failures'
      PROVE  AnsweredAs(Id(i), calls[1])
  <2>1. CASE i \in durs \ failures
    BY <1>5, <2>1 DEF Linked, Confirmed
  <2>2. CASE LoadSucceed(w) /\ i = job[w]
    <3>1. pc[w] = "working" /\ Accepted(Id(job[w]))
      BY <1>5, <2>2 DEF LoadSucceed, Succeed, InCall
    <3>2. SentAs(Id(job[w]), calls[1])
      BY <1>5, <3>1 DEF Linked, Asked
    <3>3. QED
      BY <2>2, <3>1, <3>2 DEF AnsweredAs, Accepted
  <2>3. CASE CountError(w) /\ i = job[w]
    <3>1. pc[w] = "failed" /\ failures' = failures
      BY <2>3 DEF CountError
    <3>2. job[w] \in failures
      BY <3>1 DEF IInv, AtRest, Accounted
    <3>3. QED
      BY <1>5, <2>3, <3>1, <3>2
  <2>4. CASE LoadSucceed(w) /\ i # job[w]
    <3>1. durs' = durs \cup {job[w]} /\ failures' = failures
      BY <2>4 DEF LoadSucceed, Succeed
    <3>2. QED
      BY <1>5, <2>1, <2>4, <3>1
  <2>5. CASE CountError(w) /\ i # job[w]
    <3>1. durs' \subseteq durs \cup {job[w]} /\ failures' = failures
      BY <2>5 DEF CountError
    <3>2. QED
      BY <1>5, <2>1, <2>5, <3>1
  <2>6. CASE LoadFail(w) \/ Leave(w) \/ OfferError(w)
    <3>1. durs' = durs /\ failures \subseteq failures'
      BY <2>6 DEF LoadFail, Fail, Leave, OfferError, measured
    <3>2. QED
      BY <1>5, <2>1, <3>1
  <2>7. QED
    BY <2>2, <2>3, <2>4, <2>5, <2>6 DEF LoadWork
<1>6. Confirmed'
  <2>1. ASSUME InCall, NEW i \in durs' \ failures'
        PROVE  AnsweredAs(Id(i), calls[1])'
    BY <1>1, <1>5, <2>1, StaysSent DEF AnsweredAs
  <2>2. QED
    BY <1>1, <1>3, <2>1 DEF Confirmed
<1>7. QED
  BY <1>1, <1>3, <1>4, <1>6, ReportsStay DEF Linked

\* A call is reported: without a failure it had a duration for every index, so all
\* that have not failed were answered.
LEMMA FinishLinks ==
  ASSUME IInv, IInv', ServerInv, [ServerNext]_serverVars, Linked, Finish
  PROVE  Linked'
<1>1. running /\ ~running' /\ flags' = flags /\ durs' = durs /\ failures' = failures
  BY DEF Finish, measured
<1>2. Asked' /\ Confirmed'
  BY <1>1 DEF Asked, Confirmed, InCall
<1>3. CASE UNCHANGED <<calls, results>>
  <2>1. CallsLeft'
    BY <1>1, <1>3, NamesKept DEF Linked, CallsLeft
  <2>2. QED
    BY <1>1, <1>2, <1>3, <2>1, ReportsStay DEF Linked
<1>4. CASE ~UNCHANGED <<calls, results>>
  <2> DEFINE r == [op |-> calls[1], durs |-> durs, errs |-> errs, failures |-> failures]
  <2>1. calls' = Tail(calls) /\ results' = Append(results, r)
    BY <1>4 DEF Finish
  <2>2. calls # <<>> /\ calls \in Seq(CallType) /\ results \in Seq(Result)
    BY <1>1 DEF IInv, TypeOK, AtRest
  <2>3. /\ Len(results') = Len(results) + 1 /\ Len(results) \in Nat
        /\ Len(calls') = Len(calls) - 1 /\ Len(calls) \in Nat \ {0}
        /\ \A c \in 1 .. Len(calls') : calls'[c] = calls[c + 1]
        /\ DOMAIN results = 1 .. Len(results) /\ DOMAIN results' = 1 .. Len(results) + 1
        /\ \A k \in 1 .. Len(results) : results'[k] = results[k]
        /\ results'[Len(results) + 1] = r
    <3> HIDE DEF r
    <3>1. QED
      BY <2>1, <2>2
  <2>4. CallsLeft'
    <3>1. IsHttp' = IsHttp /\ MaxCalls(flags)' = MaxCalls(flags)
      BY <1>1 DEF IsHttp, MaxCalls
    <3>2. IsHttp => Len(results') + Len(calls') <= MaxCalls(flags)
      BY <2>3 DEF Linked, CallsLeft
    <3>3. \A c \in 1 .. Len(calls') : c + 1 \in 1 .. Len(calls) /\ calls'[c] = calls[c + 1]
      BY <2>3
    <3>4. QED
      BY <1>1, <3>1, <3>2, <3>3 DEF Linked, CallsLeft
  <2>5. Reported'
    <3> SUFFICES ASSUME SentAll, NEW k \in DOMAIN results'
                 PROVE  /\ results'[k].op \in Operations
                        /\ \A i \in Indices \ results'[k].failures :
                             AnsweredAs(<<k, i>>, results[k].op)'
      <4>1. SentAll' = SentAll /\ Indices' = Indices
        BY <1>1 DEF SentAll, IsHttp, Indices
      <4>2. QED
        BY <4>1 DEF Reported, Answered
    <3>1. CASE k \in DOMAIN results
      <4>1. results'[k] = results[k]
        BY <2>3, <3>1
      <4>2. results[k].op \in Operations
        BY <3>1 DEF Linked, Reported
      <4>3. ASSUME NEW i \in Indices \ results[k].failures
            PROVE  AnsweredAs(<<k, i>>, results[k].op)'
        <5>1. <<k, i>> \in Reqs /\ client[<<k, i>>] = "answered"
              /\ req[<<k, i>>] \in LoadRequests(flags.tool, results[k].op)
          BY <3>1, <4>3 DEF Linked, Reported, Answered, AnsweredAs, SentAs
        <5>2. client'[<<k, i>>] = "answered" /\ req'[<<k, i>>] = req[<<k, i>>]
          BY <5>1, NothingTakenBack
        <5>3. QED
          BY <1>1, <4>1, <5>1, <5>2 DEF AnsweredAs, SentAs
      <4>4. QED
        BY <4>1, <4>2, <4>3
    <3>2. CASE k \notin DOMAIN results
      <4>1. k = Len(results) + 1 /\ results'[k] = r
        BY <2>3, <3>2
      <4>2. calls[1] \in Operations /\ InCall
        <5>1. 1 \in 1 .. Len(calls) /\ IsHttp /\ flags.op # "unknown"
          BY <2>3 DEF SentAll
        <5>2. calls[1] \in Operations
          BY <5>1 DEF Linked, CallsLeft
        <5>3. QED
          BY <1>1, <5>1, <5>2, SameProtocols DEF InCall, Sends
      <4>3. durs = Indices
        <5>1. results'[k].op = calls[1] /\ results'[k].durs = durs
          BY <4>1
        <5>2. calls[1] \notin {"watch", "election"}
          BY <4>2, SameProtocols
        <5>3. ~IsMesh' /\ flags'.workers > 0 /\ Indices' = Indices
          BY <1>1 DEF SentAll, IsHttp, Protocols, IsMesh, Indices
        <5>4. ReportedIsMeasured'
          BY DEF IInv
        <5>5. QED
          BY <5>1, <5>2, <5>3, <5>4 DEF ReportedIsMeasured
      <4>4. results'[k].op = calls[1] /\ results'[k].failures = failures
        BY <4>1
      <4>5. ASSUME NEW i \in Indices \ failures
            PROVE  AnsweredAs(<<k, i>>, results[k].op)'
        <5>1. AnsweredAs(<<k, i>>, calls[1])
          BY <4>1, <4>2, <4>3, <4>5 DEF Linked, Confirmed, Id
        <5>2. <<k, i>> \in Reqs /\ client[<<k, i>>] = "answered"
              /\ req[<<k, i>>] \in LoadRequests(flags.tool, calls[1])
          BY <5>1 DEF AnsweredAs, SentAs
        <5>3. client'[<<k, i>>] = "answered" /\ req'[<<k, i>>] = req[<<k, i>>]
          BY <5>2, NothingTakenBack
        <5>4. QED
          BY <1>1, <4>4, <5>2, <5>3 DEF AnsweredAs, SentAs
      <4>6. QED
        BY <4>2, <4>4, <4>5
    <3>3. QED
      BY <3>1, <3>2
  <2>6. QED
    BY <1>2, <2>4, <2>5 DEF Linked
<1>5. QED
  BY <1>3, <1>4

\* What main does.
LEMMA MainLinks ==
  ASSUME IInv, IInv', ServerInv, [ServerNext]_serverVars, Linked, Main
  PROVE  Linked'
<1>1. CASE Begin
  <2>1. /\ UNCHANGED <<flags, calls, results>> /\ durs' = {}
        /\ \A w \in Workers' : pc'[w] # "working"
    BY <1>1 DEF Begin, Workers
  <2>2. CallsLeft'
    BY <2>1, NamesKept DEF Linked, CallsLeft
  <2>3. Asked' /\ Confirmed'
    BY <2>1 DEF Asked, Confirmed
  <2>4. QED
    BY <2>1, <2>2, <2>3, ReportsStay DEF Linked
<1>2. CASE ProbeFails \/ Send \/ Cleanup
  BY <1>2, QuietStep DEF ProbeFails, Send, Cleanup, pool, measured
<1>3. CASE Samples
  <2>1. ~IsHttp /\ flags' = flags
    BY <1>3 DEF Samples, EtcdWatch, ConsulWatch, EtcdElection, ConsulElection, Sample,
                IsHttp, Protocols
  <2>2. ~IsHttp' /\ ~InCall' /\ ~SentAll'
    BY <2>1 DEF IsHttp, InCall, Sends, SentAll
  <2>3. QED
    BY <2>2 DEF Linked, CallsLeft, Asked, Confirmed, Reported
<1>4. CASE Finish
  BY <1>4, FinishLinks
<1>5. QED
  BY <1>1, <1>2, <1>3, <1>4 DEF Main

-----------------------------------------------------------------------------
(* Invariance.                                                             *)

\* The experiment begins with the calls of the command line and no request.
LEMMA ExperimentBegins == ExperimentInit => ExperimentInv
<1> SUFFICES ASSUME ExperimentInit PROVE ExperimentInv
  OBVIOUS
<1>1. IInv /\ ServerInv /\ MetersInv
  BY InitInvariant, InitInv, InitMeters DEF ExperimentInit
<1>2. ~running /\ results = <<>> /\ calls = Plan
  BY DEF ExperimentInit, Init
<1>3. Asked /\ Confirmed /\ Reported
  BY <1>2 DEF Asked, Confirmed, Reported, InCall
<1>4. CallsLeft
  <2> SUFFICES ASSUME IsHttp PROVE CallsLeft
    BY DEF CallsLeft
  <2>1. calls = HttpPlan
    BY <1>2 DEF Plan, IsHttp, Protocols, IsKV, KVStores, IsMesh
  <2>2. flags.op \in HttpOps \cup {"all"}
    BY <1>1, FlagFacts DEF IInv, ValidFlags, IsHttp, Protocols, KVStores
  <2>3. Len(results) = 0
    BY <1>2
  <2>4. CASE flags.op = "all"
    <3>1. calls = <<"echo", "get-user", "create-order">>
      BY <2>1, <2>4 DEF HttpPlan
    <3>2. Len(calls) = 3 /\ \A c \in 1 .. 3 : calls[c] \in Operations
      BY <3>1 DEF Operations
    <3>3. QED
      BY <2>3, <2>4, <3>2, SameProtocols DEF CallsLeft, MaxCalls
  <2>5. CASE flags.op # "all"
    <3>1. calls = <<flags.op>>
      BY <2>1, <2>5 DEF HttpPlan
    <3>2. Len(calls) = 1 /\ \A c \in 1 .. 1 : calls[c] = flags.op
      BY <3>1
    <3>3. QED
      BY <2>2, <2>3, <2>5, <3>2, SameProtocols DEF CallsLeft, MaxCalls
  <2>6. QED
    BY <2>4, <2>5
<1>5. QED
  BY <1>1, <1>3, <1>4 DEF ExperimentInv, Linked

\* The invariant is kept by both sides, and so are the links between them.
LEMMA ExperimentKeeps == ExperimentInv /\ [ExperimentNext]_allVars => ExperimentInv'
<1> SUFFICES ASSUME ExperimentInv, [ExperimentNext]_allVars PROVE ExperimentInv'
  OBVIOUS
<1>1. IInv /\ ServerInv /\ MetersInv /\ Linked
  BY DEF ExperimentInv
<1>2. [ServerNext]_serverVars
  BY <1>1, StepOfServer DEF IInv, Linked
<1>3. IInv' /\ ServerInv' /\ MetersInv'
  BY <1>1, <1>2, StepOfLoad, StepInv, StepMeters
<1>4. Linked'
  <2>1. CASE Script \/ Visit \/ Server \/ (Done /\ UNCHANGED <<serverVars, probe>>)
             \/ UNCHANGED allVars
    <3>1. UNCHANGED <<flags, calls, running, pc, job, durs, failures, results>>
      BY <2>1 DEF Script, Probe, ProbeAnswered, ProbeGivenUp, Visit, Server, Done, allVars,
                  vars, pool, measured
    <3>2. QED
      BY <1>1, <1>2, <3>1, QuietStep
  <2>2. ASSUME NEW w \in Workers, LoadWork(w) PROVE Linked'
    BY <1>1, <1>2, <2>2, FetchLinks, WorkLinks
  <2>3. CASE LoadMain
    BY <1>1, <1>2, <1>3, <2>3, MainLinks DEF LoadMain
  <2>4. QED
    BY <2>1, <2>2, <2>3 DEF ExperimentNext
<1>5. QED
  BY <1>3, <1>4 DEF ExperimentInv

\* It holds throughout an experiment.
LEMMA ExperimentInvariant == ExperimentSpec => []ExperimentInv
BY ExperimentBegins, ExperimentKeeps, PTL DEF ExperimentSpec

\* The answers to the load are among the requests that the counter holds.
LEMMA AnswersCounted ==
  ASSUME ExperimentInv, SentAll, NEW k \in DOMAIN results
  PROVE  /\ \A i \in Answered(k) : reply[<<k, i>>].status = "ok"
         /\ requestsTotal[<<LoadLabel(results[k].op), "ok">>] >= Cardinality(Answered(k))
<1> DEFINE o == results[k].op
           l == LoadLabel(o)
           C == CountedAs(l, "ok")
<1>1. o \in Operations /\ flags.tool \in Protocols
  BY DEF ExperimentInv, Linked, Reported, SentAll, IsHttp
<1>2. ASSUME NEW i \in Answered(k)
      PROVE  reply[<<k, i>>].status = "ok" /\ <<k, i>> \in C
  <2> DEFINE r == <<k, i>>
             q == req[r]
  <2>1. r \in Reqs /\ client[r] = "answered" /\ q \in LoadRequests(flags.tool, o)
    BY <1>2 DEF ExperimentInv, Linked, Reported, AnsweredAs, SentAs
  <2>2. /\ q.proto = flags.tool /\ Operation(q) = o /\ Instrumented(q)
        /\ \A a \in Replies(q) : a.status = "ok" /\ a.body # Echo("long")
    BY <1>1, <2>1, LoadAnswered
  <2>3. InStep(r)
    BY <2>1 DEF ExperimentInv, ServerInv
  <2>4. reply[r] \in Replies(q)
    BY <2>1, <2>3 DEF InStep
  <2>5. reply[r].status = "ok" /\ ~TooLong(r)
    BY <2>2, <2>4 DEF TooLong
  <2>6. HasCounted(r)
    BY <2>1, <2>2, <2>3, <2>5 DEF InStep, HasCounted
  <2>7. Label(q) = l
    BY <2>2 DEF Label, LoadLabel
  <2>8. r \in C
    BY <2>1, <2>5, <2>6, <2>7 DEF CountedAs
  <2>9. QED
    BY <2>5, <2>8
<1>3. l \in Labels
  <2>1. flags.tool \in {"rest", "grpc", "graphql"}
    BY <1>1 DEF Protocols
  <2>2. QED
    BY <1>1, <2>1 DEF LoadLabel, Labels
<1>4. requestsTotal[<<l, "ok">>] = Cardinality(C) /\ IsFiniteSet(C) /\ Cardinality(C) \in Nat
  <2>1. requestsTotal[<<l, "ok">>] = Cardinality(C)
    BY <1>3 DEF ExperimentInv, MetersInv, CounterAgrees, Counted
  <2>2. IsFiniteSet(C)
    BY ReqsAssumption, FS_Subset DEF CountedAs
  <2>3. QED
    BY <2>1, <2>2, FS_CardinalityType
<1>5. Cardinality(Answered(k)) <= Cardinality(C) /\ Cardinality(Answered(k)) \in Nat
  <2> DEFINE A == Answered(k)
             f == [i \in A |-> <<k, i>>]
  <2>1. \A i \in A : <<k, i>> \in C
    BY <1>2
  <2> HIDE DEF A, C
  <2>2. f \in Injection(A, C)
    BY <2>1 DEF Injection, IsInjective
  <2>3. IsFiniteSet(A) /\ Cardinality(A) <= Cardinality(C)
    BY <1>4, <2>2, FS_Injection
  <2>4. QED
    BY <2>3, FS_CardinalityType DEF A
<1>6. QED
  BY <1>2, <1>4, <1>5

-----------------------------------------------------------------------------
(* The theorems.                                                           *)

\* A request that loadgen-http reports without an error was answered OK, although
\* its HTTP clients do not look at the status, and the server's counters hold as
\* many: for every command line, and whatever visitors, scrapes, timeouts and the
\* end of the process do in between.
THEOREM ServedAsReported == ExperimentSpec => []ReportedIsServed
<1>1. ExperimentInv => ReportedIsServed
  BY AnswersCounted DEF ReportedIsServed
<1>2. QED
  BY <1>1, ExperimentInvariant, PTL

\* In an experiment, too, what a call reports is what it did, and Gets find their
\* keys, whether or not the server came up.
THEOREM LoadInExperiment == ExperimentSpec => [](ReportedIsMeasured /\ GetsFindKeys)
<1>1. ExperimentInv => ReportedIsMeasured /\ GetsFindKeys
  BY DEF ExperimentInv, IInv
<1>2. QED
  BY <1>1, ExperimentInvariant, PTL

\* Driven by script and load, the server does nothing that it does not do on its
\* own: its meters agree, and it keeps the promise of Service.
THEOREM ServerInExperiment ==
  ExperimentSpec => ServerSpec /\ []MetersAgree /\ ServerImplements
<1>1. ExperimentInit => ServerInit
  BY DEF ExperimentInit
<1>2. ExperimentInv /\ [ExperimentNext]_allVars => [ServerNext]_serverVars
  BY StepOfServer DEF ExperimentInv, IInv, Linked
<1>3. ExperimentSpec => ServerSpec
  BY <1>1, <1>2, ExperimentInvariant, PTL DEF ExperimentSpec, ServerSpec
<1>4. QED
  BY <1>3, MetersAlwaysAgree, Implements, PTL

=============================================================================
