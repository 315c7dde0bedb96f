---------------------------- MODULE Ingest_proofs ----------------------------
(***************************************************************************)
(* What a reported ingest run has stored, for every command line, size of  *)
(* an item.create chunk and number of spans, and any number of runs on the *)
(* same volumes.                                                           *)
(***************************************************************************)
EXTENDS Ingest, FiniteSetTheorems, TLAPS

-----------------------------------------------------------------------------
(* The inductive invariant.                                                *)

\* The items that the first item.create call makes.
First == UnitsFrom(0, ItemChunk)

\* The units that a reported run must have stored.
Owed == IF IsZabbix THEN First ELSE IF flags.backend = "spans" THEN {} ELSE Units

Types ==
  /\ flags \in Flags
  /\ pc \in PCs
  /\ created \in 0 .. NUnits
  /\ db \subseteq Units /\ live \subseteq db
  /\ next \in Nat
  /\ jobs \in Seq(SUBSET Units)
  /\ phase \in [Workers -> {"idle", "pushing", "accepted", "refused", "gone"}]
  /\ batch \in [Workers -> SUBSET Units]
  /\ stored \subseteq Units /\ refreshed \subseteq stored
  /\ failed \in BOOLEAN

\* item.create is all or nothing, in the server's database and later in its cache:
\* item 0 is there together with its chunk, or not at all.
Together ==
  /\ db # {} \/ created > 0 => 0 \in db
  /\ 0 \in db => First \subseteq db
  /\ 0 \in live => First \subseteq live

\* What an earlier Zabbix run has stored belongs to items that are still there, and
\* a second run cannot create those again.
Leftovers ==
  IsZabbix =>
    /\ stored \subseteq live
    /\ old # {} => 0 \in db /\ created = 0
    /\ pc \in {"cutting", "waiting", "reported"} => 0 \in live /\ created = NUnits

\* Goroutines work while main cuts or waits, and leave when there is nothing more.
Pooled ==
  /\ pc \notin {"cutting", "waiting"} =>
       jobs = <<>> /\ \A w \in Workers : phase[w] \in {"idle", "gone"}
  /\ \A w \in Workers :
       phase[w] = "gone" => pc \notin {"login", "creating", "cutting"} /\ jobs = <<>>
  /\ pc = "waiting" => next >= NUnits

\* Unless a Push has failed, a unit that has been cut is stored or on its way.
NothingLost ==
  \/ failed
  \/ \E w \in Workers : phase[w] = "refused"
  \/ \A u \in Owed :
       u < next => \/ u \in stored
                   \/ \E i \in 1 .. Len(jobs) : u \in jobs[i]
                   \/ \E w \in Workers : phase[w] = "pushing" /\ u \in batch[w]

\* After the pool is done, everything is stored, and after a flush visible.
Stored ==
  /\ pc \in {"flushing", "verifying", "reported"} => Owed \subseteq stored
  /\ pc \in {"flushing", "verifying"} => flags.backend \in LogBackends
  /\ pc \in {"verifying", "reported"} /\ flags.backend = "elasticsearch" => refreshed = Units

IInv == Types /\ Together /\ Leftovers /\ Pooled /\ NothingLost /\ Stored

-----------------------------------------------------------------------------
(* What the command line says.                                             *)

\* Quotients are natural numbers.
LEMMA Quotient ==
  ASSUME NEW n \in Nat, NEW d \in Nat \ {0}
  PROVE  n \div d \in Nat /\ AtLeastOne(n \div d) \in Nat \ {0}
<1>1. n \div d \in Nat
  OBVIOUS
<1>2. QED
  BY <1>1 DEF AtLeastOne

\* There is a unit, a goroutine, and a unit in every batch.
LEMMA FlagFacts ==
  ASSUME flags \in Flags
  PROVE  /\ NUnits \in Nat \ {0} /\ UnitsPerBatch \in Nat \ {0}
         /\ flags.workers \in Nat \ {0} /\ flags.backend \in Backends
         /\ Units = 0 .. NUnits - 1 /\ Workers = 1 .. flags.workers
<1>1. flags \in FlagType /\ ValidFlags(flags)
  BY FlagsAssumption
<1>2. /\ flags.count \in Nat \ {0} /\ flags.names \in Nat \ {0}
      /\ flags.batch \in Nat \ {0} /\ flags.workers \in Nat \ {0}
      /\ flags.backend \in Backends
  BY <1>1 DEF FlagType, ValidFlags
<1>3. SamplesPerSeries \in Nat \ {0}
  BY <1>2, Quotient DEF SamplesPerSeries
<1>4. /\ AtLeastOne(flags.count \div SpansPerTrace) \in Nat \ {0}
      /\ AtLeastOne(flags.batch \div SpansPerTrace) \in Nat \ {0}
      /\ AtLeastOne(flags.batch \div SamplesPerSeries) \in Nat \ {0}
  BY <1>2, <1>3, Quotient, SizesAssumption
<1>5. CASE flags.backend \in SeriesBackends
  BY <1>2, <1>4, <1>5 DEF NUnits, UnitsPerBatch, Units, Workers, SeriesBackends, LogBackends
<1>6. CASE flags.backend \in LogBackends
  BY <1>2, <1>4, <1>6 DEF NUnits, UnitsPerBatch, Units, Workers, SeriesBackends, LogBackends
<1>7. CASE flags.backend = "spans"
  BY <1>2, <1>4, <1>7 DEF NUnits, UnitsPerBatch, Units, Workers, SeriesBackends, LogBackends
<1>8. QED
  BY <1>2, <1>5, <1>6, <1>7 DEF Backends

\* What depends on the command line only.
LEMMA LineKept ==
  ASSUME flags' = flags
  PROVE  /\ NUnits' = NUnits /\ UnitsPerBatch' = UnitsPerBatch /\ Units' = Units
         /\ Workers' = Workers /\ IsZabbix' = IsZabbix /\ First' = First /\ Owed' = Owed
<1>1. NUnits' = NUnits /\ UnitsPerBatch' = UnitsPerBatch
  BY DEF NUnits, UnitsPerBatch, SamplesPerSeries
<1>2. QED
  BY <1>1 DEF Units, Workers, IsZabbix, First, Owed, UnitsFrom

\* Item 0 is in the first chunk, and only there.
LEMMA FirstChunk ==
  ASSUME flags \in Flags
  PROVE  /\ 0 \in First /\ First \subseteq Units /\ Owed \subseteq Units
         /\ ItemsOf(0) = First
         /\ \A start \in Nat : start > 0 => 0 \notin ItemsOf(start)
         /\ \A start \in Nat : ItemsOf(start) \subseteq Units
<1>1. 0 \in Units /\ ItemChunk \in Nat \ {0}
  BY FlagFacts, SizesAssumption
<1>2. QED
  BY <1>1 DEF First, Owed, ItemsOf, UnitsFrom

\* The channel neither loses nor invents a batch.
LEMMA BatchAppended ==
  ASSUME NEW S, NEW s \in Seq(S), NEW x \in S
  PROVE  /\ Append(s, x) \in Seq(S) /\ Len(Append(s, x)) = Len(s) + 1
         /\ Len(s) + 1 \in 1 .. Len(Append(s, x)) /\ Append(s, x)[Len(s) + 1] = x
         /\ \A i \in 1 .. Len(s) : i \in 1 .. Len(Append(s, x)) /\ Append(s, x)[i] = s[i]
OBVIOUS

\* Nor does taking one: every batch is the one taken or still in the channel.
LEMMA BatchTaken ==
  ASSUME NEW S, NEW s \in Seq(S), s # <<>>
  PROVE  /\ Head(s) \in S /\ Tail(s) \in Seq(S)
         /\ \A i \in 1 .. Len(s) :
              s[i] = Head(s) \/ (i - 1 \in 1 .. Len(Tail(s)) /\ Tail(s)[i - 1] = s[i])
OBVIOUS

\* The invariant holds when the first run starts.
LEMMA StartIInv == Init => IInv
<1> SUFFICES ASSUME Init PROVE IInv
  OBVIOUS
<1>1. flags \in Flags
  BY DEF Init
<1>2. NUnits \in Nat \ {0}
  BY <1>1, FlagFacts
<1>3. Types
  <2>1. phase \in [Workers -> {"idle", "pushing", "accepted", "refused", "gone"}]
        /\ batch \in [Workers -> SUBSET Units]
    BY DEF Init
  <2>2. created \in 0 .. NUnits /\ next \in Nat /\ jobs \in Seq(SUBSET Units)
    BY <1>2 DEF Init
  <2>3. QED
    BY <1>1, <2>1, <2>2 DEF Init, Types, PCs
<1>4. Together /\ Leftovers /\ Stored
  BY DEF Init, Together, Leftovers, Stored
<1>5. Pooled
  BY DEF Init, Pooled
<1>6. NothingLost
  <2>1. \A u \in Owed : ~(u < next)
    BY <1>1, <1>2, FirstChunk DEF Init, Units
  <2>2. QED
    BY <2>1 DEF NothingLost
<1>7. QED
  BY <1>3, <1>4, <1>5, <1>6 DEF IInv

-----------------------------------------------------------------------------
(* The steps of main and of the server.                                    *)

\* The end of a run that has nothing in hand.
LEMMA EndStep ==
  ASSUME IInv, pc \notin {"cutting", "waiting"}, pc' = "fatal",
         UNCHANGED <<flags, created, pool, server>>
  PROVE  IInv'
<1> USE DEF pool, server
<1>1. /\ NUnits' = NUnits /\ Units' = Units /\ Workers' = Workers
      /\ IsZabbix' = IsZabbix /\ First' = First /\ Owed' = Owed
  BY LineKept
<1>2. Types'
  BY <1>1 DEF IInv, Types, PCs
<1>3. Together' /\ Leftovers' /\ Stored'
  BY <1>1 DEF IInv, Together, Leftovers, Stored
<1>4. Pooled' /\ NothingLost'
  BY <1>1 DEF IInv, Pooled, NothingLost
<1>5. QED
  BY <1>2, <1>3, <1>4 DEF IInv

\* Nothing is cut before the backend is ready.
LEMMA SetupStep == IInv /\ Setup => IInv'
<1> SUFFICES ASSUME IInv, Setup PROVE IInv'
  OBVIOUS
<1> USE DEF pool, server
<1>1. CASE pc' = "fatal"
  BY <1>1, EndStep DEF Setup
<1>2. CASE pc' = "cutting"
  <2>1. /\ flags' = flags /\ NUnits' = NUnits /\ Units' = Units /\ Workers' = Workers
        /\ IsZabbix' = IsZabbix /\ First' = First /\ Owed' = Owed
    BY LineKept DEF Setup
  <2>2. Types'
    BY <1>2, <2>1 DEF IInv, Types, PCs, Setup
  <2>3. Together' /\ Leftovers' /\ Stored'
    BY <1>2, <2>1 DEF IInv, Together, Leftovers, Stored, Setup
  <2>4. Pooled' /\ NothingLost'
    BY <1>2, <2>1 DEF IInv, Pooled, NothingLost, Setup
  <2>5. QED
    BY <2>2, <2>3, <2>4 DEF IInv
<1>3. QED
  BY <1>1, <1>2 DEF Setup

\* The Zabbix login changes nothing that the invariant speaks of but the program's place.
LEMMA LoginStep == IInv /\ Login => IInv'
<1> SUFFICES ASSUME IInv, Login PROVE IInv'
  OBVIOUS
<1> USE DEF pool, server
<1>1. CASE pc' = "fatal"
  BY <1>1, EndStep DEF Login
<1>2. CASE pc' = "creating"
  <2>1. /\ flags' = flags /\ NUnits' = NUnits /\ Units' = Units /\ Workers' = Workers
        /\ IsZabbix' = IsZabbix /\ First' = First /\ Owed' = Owed
    BY LineKept DEF Login
  <2>2. Types'
    BY <1>2, <2>1 DEF IInv, Types, PCs, Login
  <2>3. Together' /\ Leftovers' /\ Stored'
    BY <1>2, <2>1 DEF IInv, Together, Leftovers, Stored, Login
  <2>4. Pooled' /\ NothingLost'
    BY <1>2, <2>1 DEF IInv, Pooled, NothingLost, Login
  <2>5. QED
    BY <2>2, <2>3, <2>4 DEF IInv
<1>3. QED
  BY <1>1, <1>2 DEF Login

\* A chunk of items is created as a whole, the first one only if no earlier run
\* has created it.
LEMMA CreateItemsStep == IInv /\ CreateItems => IInv'
<1> SUFFICES ASSUME IInv, CreateItems PROVE IInv'
  OBVIOUS
<1> USE DEF pool
<1>1. /\ flags' = flags /\ NUnits' = NUnits /\ Units' = Units /\ Workers' = Workers
      /\ IsZabbix' = IsZabbix /\ First' = First /\ Owed' = Owed
  BY LineKept DEF CreateItems
<1>2. /\ flags \in Flags /\ created \in 0 .. NUnits /\ created < NUnits /\ pc = "creating"
      /\ NUnits \in Nat \ {0} /\ ItemChunk \in Nat \ {0} /\ IsZabbix
  BY FlagFacts, SizesAssumption DEF IInv, Types, CreateItems
<1>3. CASE UNCHANGED <<db, created>> /\ pc' = "fatal"
  BY <1>2, <1>3, EndStep DEF CreateItems, server
<1>4. ASSUME Creatable(ItemsOf(created)), db' = db \cup ItemsOf(created),
             \/ created' = ItemsEnd(created) /\ UNCHANGED pc
             \/ pc' = "fatal" /\ UNCHANGED created
      PROVE  IInv'
  <2>1. created' \in 0 .. NUnits /\ (created' > 0 => created' # created \/ created > 0)
    BY <1>2, <1>4 DEF ItemsEnd
  <2>2. 0 \in db' /\ First \subseteq db' /\ ItemsOf(created) \subseteq Units
    <3>1. CASE created = 0
      BY <1>2, <1>4, <3>1, FirstChunk
    <3>2. CASE created # 0
      BY <1>2, <1>4, <3>2, FirstChunk DEF IInv, Together
    <3>3. QED
      BY <3>1, <3>2
  <2>3. old = {}
    <3>1. SUFFICES ASSUME old # {} PROVE FALSE
      OBVIOUS
    <3>2. 0 \in db /\ created = 0
      BY <1>2, <3>1 DEF IInv, Leftovers
    <3>3. 0 \in ItemsOf(created)
      BY <1>2, <3>2, FirstChunk
    <3>4. QED
      BY <1>4, <3>2, <3>3 DEF Creatable
  <2>4. pc' \in {"creating", "fatal"}
    BY <1>2, <1>4
  <2>5. Types'
    BY <1>1, <1>4, <2>1, <2>2, <2>4 DEF IInv, Types, PCs, CreateItems
  <2>6. Together'
    BY <1>1, <2>2 DEF IInv, Together, CreateItems
  <2>7. Leftovers' /\ Stored'
    BY <1>1, <2>3, <2>4 DEF IInv, Leftovers, Stored, CreateItems
  <2>8. Pooled' /\ NothingLost'
    BY <1>1, <1>2, <2>4 DEF IInv, Pooled, NothingLost, CreateItems
  <2>9. QED
    BY <2>5, <2>6, <2>7, <2>8 DEF IInv
<1>5. QED
  BY <1>3, <1>4 DEF CreateItems

\* The probe of item 0 speaks for its chunk.
LEMMA ProbeStep == IInv /\ Probe => IInv'
<1> SUFFICES ASSUME IInv, Probe PROVE IInv'
  OBVIOUS
<1> USE DEF pool, server
<1>1. CASE pc' = "fatal"
  BY <1>1, EndStep DEF Probe
<1>2. CASE 0 \in live /\ pc' = "cutting"
  <2>1. /\ flags' = flags /\ NUnits' = NUnits /\ Units' = Units /\ Workers' = Workers
        /\ IsZabbix' = IsZabbix /\ First' = First /\ Owed' = Owed
    BY LineKept DEF Probe
  <2>2. Types'
    BY <1>2, <2>1 DEF IInv, Types, PCs, Probe
  <2>3. Together' /\ Leftovers' /\ Stored'
    BY <1>2, <2>1 DEF IInv, Together, Leftovers, Stored, Probe
  <2>4. Pooled' /\ NothingLost'
    BY <1>2, <2>1 DEF IInv, Pooled, NothingLost, Probe
  <2>5. QED
    BY <2>2, <2>3, <2>4 DEF IInv
<1>3. QED
  BY <1>1, <1>2 DEF Probe

\* The cache never loses an item while the stack is up.
LEMMA RefreshCacheStep == IInv /\ RefreshCache => IInv'
<1> SUFFICES ASSUME IInv, RefreshCache PROVE IInv'
  OBVIOUS
<1> USE DEF pool
<1>1. /\ flags' = flags /\ NUnits' = NUnits /\ Units' = Units /\ Workers' = Workers
      /\ IsZabbix' = IsZabbix /\ First' = First /\ Owed' = Owed
  BY LineKept DEF RefreshCache
<1>2. Types'
  BY <1>1 DEF IInv, Types, RefreshCache
<1>3. Together'
  BY <1>1 DEF IInv, Together, RefreshCache
<1>4. Leftovers'
  BY <1>1 DEF IInv, Types, Leftovers, RefreshCache
<1>5. Pooled' /\ NothingLost' /\ Stored'
  BY <1>1 DEF IInv, Pooled, NothingLost, Stored, RefreshCache
<1>6. QED
  BY <1>2, <1>3, <1>4, <1>5 DEF IInv

-----------------------------------------------------------------------------
(* The steps of the pool.                                                  *)

\* A batch goes into the channel.
LEMMA CutStep == IInv /\ Cut => IInv'
<1> SUFFICES ASSUME IInv, Cut PROVE IInv'
  OBVIOUS
<1> USE DEF server
<1> DEFINE x == UnitsFrom(next, UnitsPerBatch)
<1>1. /\ flags' = flags /\ NUnits' = NUnits /\ Units' = Units /\ Workers' = Workers
      /\ IsZabbix' = IsZabbix /\ First' = First /\ Owed' = Owed
  BY LineKept DEF Cut
<1>2. /\ flags \in Flags /\ next \in Nat /\ pc = "cutting" /\ pc' = pc
      /\ jobs \in Seq(SUBSET Units) /\ x \in SUBSET Units
  BY DEF IInv, Types, Cut, UnitsFrom
<1>3. UnitsPerBatch \in Nat \ {0} /\ NUnits \in Nat /\ Units = 0 .. NUnits - 1
      /\ Owed \subseteq Units
  BY <1>2, FlagFacts, FirstChunk
<1>4. /\ jobs' = Append(jobs, x) /\ next' = next + UnitsPerBatch /\ phase' = phase
      /\ batch' = batch /\ stored' = stored /\ failed' = failed
  BY DEF Cut
<1>5. \A u \in Units : u < next' => u < next \/ u \in x
  BY <1>2, <1>3, <1>4 DEF UnitsFrom
<1> HIDE DEF x
<1>6. /\ jobs' \in Seq(SUBSET Units) /\ Len(jobs) + 1 \in 1 .. Len(jobs')
      /\ jobs'[Len(jobs) + 1] = x
      /\ \A i \in 1 .. Len(jobs) : i \in 1 .. Len(jobs') /\ jobs'[i] = jobs[i]
  BY <1>2, <1>4, BatchAppended
<1>7. Types'
  <2>1. next' \in Nat
    BY <1>2, <1>3, <1>4
  <2>2. QED
    BY <1>1, <1>6, <2>1 DEF IInv, Types, Cut
<1>8. Together' /\ Leftovers' /\ Stored'
  BY <1>1, <1>2 DEF IInv, Together, Leftovers, Stored, Cut
<1>9. Pooled'
  BY <1>1, <1>2, <1>4 DEF IInv, Pooled
<1>10. NothingLost'
  <2>1. CASE failed \/ \E w \in Workers : phase[w] = "refused"
    BY <1>1, <1>4, <2>1 DEF NothingLost
  <2>2. ASSUME ~failed, ~\E w \in Workers : phase[w] = "refused", NEW u \in Owed, u < next'
        PROVE  \/ u \in stored'
               \/ \E i \in 1 .. Len(jobs') : u \in jobs'[i]
               \/ \E w \in Workers : phase'[w] = "pushing" /\ u \in batch'[w]
    <3>1. CASE u \in x
      BY <1>6, <3>1
    <3>2. CASE u < next
      <4>1. \/ u \in stored
            \/ \E i \in 1 .. Len(jobs) : u \in jobs[i]
            \/ \E w \in Workers : phase[w] = "pushing" /\ u \in batch[w]
        BY <2>2, <3>2 DEF IInv, NothingLost
      <4>2. QED
        BY <1>4, <1>6, <4>1
    <3>3. QED
      BY <1>3, <1>5, <2>2, <3>1, <3>2
  <2>3. QED
    BY <1>1, <2>1, <2>2 DEF NothingLost
<1>11. QED
  BY <1>7, <1>8, <1>9, <1>10 DEF IInv

\* The channel is closed when every unit has been cut.
LEMMA CloseStep == IInv /\ Close => IInv'
<1> SUFFICES ASSUME IInv, Close PROVE IInv'
  OBVIOUS
<1> USE DEF pool, server
<1>1. /\ flags' = flags /\ NUnits' = NUnits /\ Units' = Units /\ Workers' = Workers
      /\ IsZabbix' = IsZabbix /\ First' = First /\ Owed' = Owed
  BY LineKept DEF Close
<1>2. Types'
  BY <1>1 DEF IInv, Types, PCs, Close
<1>3. Together' /\ Leftovers' /\ Stored'
  BY <1>1 DEF IInv, Together, Leftovers, Stored, Close
<1>4. Pooled' /\ NothingLost'
  BY <1>1 DEF IInv, Pooled, NothingLost, Close
<1>5. QED
  BY <1>2, <1>3, <1>4 DEF IInv

\* What a step of a goroutine leaves alone, and what that leaves true.
Outside == <<flags, pc, created, next, db, live, refreshed, old>>

\* A goroutine's step changes neither the plan of the run nor how its writes hang together.
LEMMA OutsideKept ==
  ASSUME IInv, UNCHANGED Outside
  PROVE  /\ NUnits' = NUnits /\ Units' = Units /\ Workers' = Workers
         /\ IsZabbix' = IsZabbix /\ First' = First /\ Owed' = Owed /\ Together'
<1>1. /\ flags' = flags /\ NUnits' = NUnits /\ Units' = Units /\ Workers' = Workers
      /\ IsZabbix' = IsZabbix /\ First' = First /\ Owed' = Owed
  BY LineKept DEF Outside
<1>2. QED
  BY <1>1 DEF IInv, Together, Outside

\* A goroutine takes a batch.
LEMMA TakeStep ==
  ASSUME IInv, NEW w \in Workers, Take(w)
  PROVE  IInv'
<1> USE DEF server
<1>1. /\ phase[w] = "idle" /\ jobs # <<>> /\ UNCHANGED Outside
      /\ batch' = [batch EXCEPT ![w] = Head(jobs)] /\ jobs' = Tail(jobs)
      /\ phase' = [phase EXCEPT ![w] = "pushing"] /\ stored' = stored /\ failed' = failed
  BY DEF Take, Outside
<1>2. /\ NUnits' = NUnits /\ Units' = Units /\ Workers' = Workers
      /\ IsZabbix' = IsZabbix /\ First' = First /\ Owed' = Owed /\ Together'
  BY <1>1, OutsideKept
<1>3. /\ jobs \in Seq(SUBSET Units) /\ batch \in [Workers -> SUBSET Units]
      /\ phase \in [Workers -> {"idle", "pushing", "accepted", "refused", "gone"}]
  BY DEF IInv, Types
<1>4. /\ Head(jobs) \in SUBSET Units /\ jobs' \in Seq(SUBSET Units)
      /\ \A i \in 1 .. Len(jobs) :
           jobs[i] = Head(jobs) \/ (i - 1 \in 1 .. Len(jobs') /\ jobs'[i - 1] = jobs[i])
  BY <1>1, <1>3, BatchTaken
<1>5. /\ phase'[w] = "pushing" /\ batch'[w] = Head(jobs)
      /\ \A v \in Workers : v # w => phase'[v] = phase[v] /\ batch'[v] = batch[v]
  BY <1>1, <1>3
<1>6. Types'
  BY <1>1, <1>2, <1>3, <1>4 DEF IInv, Types, Outside
<1>7. Leftovers' /\ Stored'
  BY <1>1, <1>2 DEF IInv, Leftovers, Stored, Outside
<1>8. Pooled'
  <2>1. pc \in {"cutting", "waiting"}
    BY <1>1 DEF IInv, Pooled
  <2>2. \A v \in Workers : phase'[v] # "gone"
    BY <1>1, <1>5 DEF IInv, Pooled
  <2>3. QED
    BY <1>1, <1>2, <2>1, <2>2 DEF IInv, Pooled, Outside
<1>9. NothingLost'
  <2>1. CASE failed \/ \E v \in Workers : phase[v] = "refused"
    BY <1>1, <1>2, <1>5, <2>1 DEF NothingLost
  <2>2. ASSUME ~failed, ~\E v \in Workers : phase[v] = "refused", NEW u \in Owed, u < next
        PROVE  \/ u \in stored'
               \/ \E i \in 1 .. Len(jobs') : u \in jobs'[i]
               \/ \E v \in Workers : phase'[v] = "pushing" /\ u \in batch'[v]
    <3>1. \/ u \in stored
          \/ \E i \in 1 .. Len(jobs) : u \in jobs[i]
          \/ \E v \in Workers : phase[v] = "pushing" /\ u \in batch[v]
      BY <2>2 DEF IInv, NothingLost
    <3>2. CASE u \in stored
      BY <1>1, <3>2
    <3>3. ASSUME NEW i \in 1 .. Len(jobs), u \in jobs[i]
          PROVE  \/ \E j \in 1 .. Len(jobs') : u \in jobs'[j]
                 \/ \E v \in Workers : phase'[v] = "pushing" /\ u \in batch'[v]
      BY <1>4, <1>5, <3>3
    <3>4. ASSUME NEW v \in Workers, phase[v] = "pushing", u \in batch[v]
          PROVE  phase'[v] = "pushing" /\ u \in batch'[v]
      BY <1>1, <1>5, <3>4
    <3>5. QED
      BY <3>1, <3>2, <3>3, <3>4
  <2>3. QED
    BY <1>1, <1>2, <2>1, <2>2 DEF NothingLost, Outside
<1>10. QED
  BY <1>2, <1>6, <1>7, <1>8, <1>9 DEF IInv

\* What a request that is accepted must have stored, and what any may store.
LEMMA PushedStep ==
  ASSUME IInv, NEW w \in Workers, NEW kept \in SUBSET batch[w],
         NEW answers \in SUBSET {"accepted", "refused"}, Pushed(w, kept, answers),
         IsZabbix => kept \subseteq live,
         "accepted" \in answers => \A u \in batch[w] \cap Owed : u \in kept
  PROVE  IInv'
<1> PICK a \in answers : phase' = [phase EXCEPT ![w] = a]
  BY DEF Pushed
<1>1. /\ phase[w] = "pushing" /\ stored' = stored \cup kept /\ UNCHANGED Outside
      /\ jobs' = jobs /\ batch' = batch /\ failed' = failed
      /\ phase' = [phase EXCEPT ![w] = a]
  BY DEF Pushed, Outside
<1>2. /\ NUnits' = NUnits /\ Units' = Units /\ Workers' = Workers
      /\ IsZabbix' = IsZabbix /\ First' = First /\ Owed' = Owed /\ Together'
  BY <1>1, OutsideKept
<1>3. /\ batch \in [Workers -> SUBSET Units]
      /\ phase \in [Workers -> {"idle", "pushing", "accepted", "refused", "gone"}]
      /\ a \in {"accepted", "refused"}
  BY DEF IInv, Types
<1>4. phase'[w] = a /\ \A v \in Workers : v # w => phase'[v] = phase[v]
  BY <1>1, <1>3
<1>5. pc \in {"cutting", "waiting"}
  BY <1>1 DEF IInv, Pooled
<1>6. Types'
  <2>1. phase' \in [Workers -> {"idle", "pushing", "accepted", "refused", "gone"}]
    BY <1>1, <1>3
  <2>2. stored' \subseteq Units
    BY <1>1, <1>3 DEF IInv, Types
  <2>3. QED
    BY <1>1, <1>2, <2>1, <2>2 DEF IInv, Types, Outside
<1>7. Leftovers'
  BY <1>1, <1>2 DEF IInv, Leftovers, Outside
<1>8. Stored'
  BY <1>1, <1>2, <1>5 DEF IInv, Stored, Outside
<1>9. Pooled'
  BY <1>1, <1>2, <1>3, <1>4, <1>5 DEF IInv, Pooled, Outside
<1>10. NothingLost'
  <2>1. CASE failed \/ \E v \in Workers : phase[v] = "refused"
    BY <1>1, <1>2, <1>4, <2>1 DEF NothingLost
  <2>2. CASE a = "refused"
    BY <1>2, <1>4, <2>2 DEF NothingLost
  <2>3. ASSUME ~failed, ~\E v \in Workers : phase[v] = "refused", a = "accepted",
               NEW u \in Owed, u < next
        PROVE  \/ u \in stored'
               \/ \E i \in 1 .. Len(jobs') : u \in jobs'[i]
               \/ \E v \in Workers : phase'[v] = "pushing" /\ u \in batch'[v]
    <3>1. \/ u \in stored
          \/ \E i \in 1 .. Len(jobs) : u \in jobs[i]
          \/ \E v \in Workers : phase[v] = "pushing" /\ u \in batch[v]
      BY <2>3 DEF IInv, NothingLost
    <3>2. u \in batch[w] => u \in stored'
      BY <1>1, <2>3
    <3>3. QED
      BY <1>1, <1>4, <3>1, <3>2
  <2>4. QED
    BY <1>1, <1>2, <1>3, <2>1, <2>2, <2>3 DEF NothingLost, Outside
<1>11. QED
  BY <1>2, <1>6, <1>7, <1>8, <1>9, <1>10 DEF IInv

\* Each backend's answer says what it is relied on for.
LEMMA PushStep ==
  ASSUME IInv, NEW w \in Workers, Push(w)
  PROVE  IInv'
<1>1. CASE PushSeries(w)
  <2>1. ~IsZabbix
    BY <1>1 DEF PushSeries, IsZabbix
  <2>2. CASE Pushed(w, batch[w], {"accepted", "refused"})
    BY <2>1, <2>2, PushedStep
  <2>3. CASE Pushed(w, {}, {"refused"})
    BY <2>1, <2>3, PushedStep
  <2>4. QED
    BY <1>1, <2>2, <2>3 DEF PushSeries
<1>2. CASE PushValues(w)
  <2> DEFINE kept == batch[w] \cap live
  <2>1. IsZabbix /\ phase[w] = "pushing"
    BY <1>2 DEF PushValues, Pushed
  <2>2. Owed = First /\ First \subseteq live
    BY <2>1 DEF Owed, IInv, Pooled, Leftovers, Together
  <2>3. \A u \in batch[w] \cap Owed : u \in kept
    BY <2>2
  <2>4. CASE Pushed(w, kept, {"refused"})
    BY <2>3, <2>4, PushedStep
  <2>5. CASE Pushed(w, kept, {"accepted", "refused"})
    BY <2>3, <2>5, PushedStep
  <2>6. CASE Pushed(w, {}, {"refused"})
    BY <2>6, PushedStep
  <2>7. QED
    BY <1>2, <2>4, <2>5, <2>6 DEF PushValues
<1>3. CASE PushEntries(w)
  <2>1. ~IsZabbix
    BY <1>3 DEF PushEntries, IsZabbix, LogBackends
  <2>2. PICK kept \in SUBSET batch[w] :
          Pushed(w, kept, IF AllItemsCreated(batch[w], kept) THEN {"accepted", "refused"}
                          ELSE {"refused"})
    BY <1>3 DEF PushEntries
  <2>3. CASE kept = batch[w]
    <3>1. Pushed(w, kept, {"accepted", "refused"})
      BY <2>2, <2>3 DEF AllItemsCreated
    <3>2. QED
      BY <2>1, <2>3, <3>1, PushedStep
  <2>4. CASE kept # batch[w]
    <3>1. Pushed(w, kept, {"refused"})
      BY <2>2, <2>4 DEF AllItemsCreated
    <3>2. QED
      BY <2>1, <3>1, PushedStep
  <2>5. QED
    BY <2>3, <2>4
<1>4. CASE PushSpans(w)
  <2>1. ~IsZabbix /\ Owed = {}
    BY <1>4 DEF PushSpans, IsZabbix, Owed
  <2>2. PICK kept \in SUBSET batch[w] : Pushed(w, kept, {"accepted", "refused"})
    BY <1>4 DEF PushSpans
  <2>3. QED
    BY <2>1, <2>2, PushedStep
<1>5. QED
  BY <1>1, <1>2, <1>3, <1>4 DEF Push

\* A goroutine between two batches: nothing is pushed by it, before or after.
LEMMA TurnStep ==
  ASSUME IInv, NEW w \in Workers, phase[w] \in {"idle", "accepted", "refused"},
         NEW p \in {"idle", "gone"}, phase' = [phase EXCEPT ![w] = p],
         UNCHANGED Outside, jobs' = jobs, batch' = batch, stored' = stored,
         failed' \in BOOLEAN, failed \/ phase[w] = "refused" => failed',
         p = "gone" => pc = "waiting" /\ jobs = <<>>
  PROVE  IInv'
<1>1. /\ NUnits' = NUnits /\ Units' = Units /\ Workers' = Workers
      /\ IsZabbix' = IsZabbix /\ First' = First /\ Owed' = Owed /\ Together'
  BY OutsideKept
<1>2. phase \in [Workers -> {"idle", "pushing", "accepted", "refused", "gone"}]
  BY DEF IInv, Types
<1>3. phase'[w] = p /\ \A v \in Workers : v # w => phase'[v] = phase[v]
  BY <1>2
<1>4. Types'
  BY <1>1, <1>2 DEF IInv, Types, Outside
<1>5. Leftovers' /\ Stored'
  BY <1>1 DEF IInv, Leftovers, Stored, Outside
<1>6. Pooled'
  BY <1>1, <1>3 DEF IInv, Pooled, Outside
<1>7. NothingLost'
  <2>1. CASE failed'
    BY <2>1 DEF NothingLost
  <2>2. CASE ~failed'
    BY <1>1, <1>3, <2>2 DEF IInv, NothingLost, Outside
  <2>3. QED
    BY <2>1, <2>2
<1>8. QED
  BY <1>1, <1>4, <1>5, <1>6, <1>7 DEF IInv

\* A duration is recorded, an error is kept, or the goroutine leaves.
LEMMA BetweenBatches ==
  ASSUME IInv, NEW w \in Workers, RecordTime(w) \/ RecordError(w) \/ Leave(w)
  PROVE  IInv'
<1> USE DEF server, Outside
<1>1. failed \in BOOLEAN
  BY DEF IInv, Types
<1>2. CASE RecordTime(w)
  BY <1>1, <1>2, TurnStep DEF RecordTime
<1>3. CASE RecordError(w)
  BY <1>1, <1>3, TurnStep DEF RecordError, AfterError
<1>4. CASE Leave(w)
  BY <1>1, <1>4, TurnStep DEF Leave
<1>5. QED
  BY <1>2, <1>3, <1>4

\* When all goroutines have gone and none has failed, everything owed is stored.
LEMMA WaitStep == IInv /\ Wait => IInv'
<1> SUFFICES ASSUME IInv, Wait PROVE IInv'
  OBVIOUS
<1> USE DEF pool, server
<1>1. /\ flags' = flags /\ NUnits' = NUnits /\ Units' = Units /\ Workers' = Workers
      /\ IsZabbix' = IsZabbix /\ First' = First /\ Owed' = Owed
  BY LineKept DEF Wait
<1>2. /\ flags.workers \in Nat \ {0} /\ NUnits \in Nat \ {0} /\ Workers = 1 .. flags.workers
      /\ Units = 0 .. NUnits - 1 /\ Owed \subseteq Units
  BY FlagFacts, FirstChunk DEF IInv, Types
<1>3. pc = "waiting" /\ next >= NUnits /\ next \in Nat
  BY DEF IInv, Types, Pooled, Wait
<1>4. (\A w \in Workers : phase[w] = "gone") /\ 1 \in Workers
  BY <1>2 DEF Wait, AllGone
<1>5. jobs = <<>>
  BY <1>4 DEF IInv, Pooled
<1>6. ~failed => Owed \subseteq stored
  <2> SUFFICES ASSUME ~failed, NEW u \in Owed PROVE u \in stored
    OBVIOUS
  <2>1. u < next
    BY <1>2, <1>3
  <2>2. QED
    BY <1>4, <1>5, <2>1 DEF IInv, NothingLost
<1>7. /\ pc' \in {"fatal", "flushing", "reported"} /\ (failed => pc' = "fatal")
      /\ (pc' = "flushing" => flags.backend \in LogBackends)
      /\ (pc' = "reported" => flags.backend \notin LogBackends)
  BY DEF Wait
<1>8. Types'
  BY <1>1, <1>7 DEF IInv, Types, PCs, Wait
<1>9. Together' /\ Leftovers'
  BY <1>1, <1>3, <1>7 DEF IInv, Together, Leftovers, Wait
<1>10. Pooled'
  BY <1>1, <1>4, <1>5, <1>7 DEF Pooled, Wait
<1>11. NothingLost'
  BY <1>1 DEF IInv, NothingLost, Wait
<1>12. Stored'
  BY <1>1, <1>6, <1>7 DEF Stored, LogBackends, Wait
<1>13. QED
  BY <1>8, <1>9, <1>10, <1>11, <1>12 DEF IInv

\* A flush makes what is stored visible.
LEMMA FlushStep == IInv /\ Flush => IInv'
<1> SUFFICES ASSUME IInv, Flush PROVE IInv'
  OBVIOUS
<1> USE DEF pool
<1>1. /\ flags' = flags /\ NUnits' = NUnits /\ Units' = Units /\ Workers' = Workers
      /\ IsZabbix' = IsZabbix /\ First' = First /\ Owed' = Owed
  BY LineKept DEF Flush
<1>2. CASE pc' = "fatal" /\ UNCHANGED refreshed
  BY <1>2, EndStep DEF Flush, server
<1>3. CASE pc' = "verifying"
           /\ refreshed' = (IF flags.backend = "elasticsearch" THEN stored ELSE refreshed)
  <2>1. pc = "flushing" /\ flags.backend \in LogBackends /\ Owed \subseteq stored
    BY DEF IInv, Stored, Flush
  <2>2. flags.backend = "elasticsearch" => refreshed' = Units
    BY <1>3, <2>1 DEF IInv, Types, Owed, IsZabbix
  <2>3. Types'
    BY <1>1, <1>3 DEF IInv, Types, PCs, Flush
  <2>4. Together' /\ Leftovers'
    BY <1>1, <1>3, <2>1 DEF IInv, Together, Leftovers, Flush
  <2>5. Pooled' /\ NothingLost'
    BY <1>1, <1>3, <2>1 DEF IInv, Pooled, NothingLost, Flush
  <2>6. Stored'
    BY <1>1, <1>3, <2>1, <2>2 DEF Stored, Flush
  <2>7. QED
    BY <2>3, <2>4, <2>5, <2>6 DEF IInv
<1>4. QED
  BY <1>2, <1>3 DEF Flush

\* A query that finds something ends the run.
LEMMA VerifyStep == IInv /\ Verify => IInv'
<1> SUFFICES ASSUME IInv, Verify PROVE IInv'
  OBVIOUS
<1> USE DEF pool, server
<1>1. CASE pc' = "fatal"
  BY <1>1, EndStep DEF Verify
<1>2. CASE pc' = "reported"
  <2>1. /\ flags' = flags /\ NUnits' = NUnits /\ Units' = Units /\ Workers' = Workers
        /\ IsZabbix' = IsZabbix /\ First' = First /\ Owed' = Owed
    BY LineKept DEF Verify
  <2>2. pc = "verifying" /\ ~IsZabbix
    BY DEF IInv, Stored, IsZabbix, LogBackends, Verify
  <2>3. Types'
    BY <1>2, <2>1 DEF IInv, Types, PCs, Verify
  <2>4. Together' /\ Leftovers' /\ Stored'
    BY <1>2, <2>1, <2>2 DEF IInv, Together, Leftovers, Stored, Verify
  <2>5. Pooled' /\ NothingLost'
    BY <1>2, <2>1, <2>2 DEF IInv, Pooled, NothingLost, Verify
  <2>6. QED
    BY <2>3, <2>4, <2>5 DEF IInv
<1>3. QED
  BY <1>1, <1>2 DEF Verify

\* What a run has stored it leaves to the next one, with its items, or all is gone.
LEMMA StartStackStep == IInv /\ StartStack => IInv'
<1> SUFFICES ASSUME IInv, StartStack PROVE IInv'
  OBVIOUS
<1>1. /\ flags' = flags /\ NUnits' = NUnits /\ Units' = Units /\ Workers' = Workers
      /\ IsZabbix' = IsZabbix /\ First' = First /\ Owed' = Owed
  BY LineKept DEF StartStack
<1>2. /\ pc' = "login" /\ created' = 0 /\ next' = 0 /\ jobs' = <<>> /\ stored' = {}
      /\ refreshed' = {} /\ failed' = FALSE
      /\ phase' \in [Workers -> {"idle"}] /\ batch' \in [Workers -> SUBSET Units]
  BY DEF StartStack
<1>3. NUnits \in Nat \ {0} /\ Units = 0 .. NUnits - 1 /\ Owed \subseteq Units
  BY FlagFacts, FirstChunk DEF IInv, Types
<1>4. \/ old' = old \cup stored /\ db' = db /\ live' = live
      \/ old' = {} /\ db' = {} /\ live' = {}
  BY DEF StartStack
<1>5. Types'
  <2>1. phase' \in [Workers -> {"idle", "pushing", "accepted", "refused", "gone"}]
        /\ created' \in 0 .. NUnits /\ next' \in Nat /\ jobs' \in Seq(SUBSET Units)
    BY <1>2, <1>3
  <2>2. db' \subseteq Units /\ live' \subseteq db'
    BY <1>4 DEF IInv, Types
  <2>3. QED
    BY <1>1, <1>2, <2>1, <2>2 DEF IInv, Types, PCs
<1>6. Together'
  BY <1>1, <1>2, <1>4 DEF IInv, Together
<1>7. Leftovers'
  <2> SUFFICES ASSUME IsZabbix, old' # {} PROVE 0 \in db'
    BY <1>1, <1>2 DEF Leftovers
  <2>1. db' = db /\ (old # {} \/ stored # {})
    BY <1>4
  <2>2. db # {}
    BY <2>1 DEF IInv, Types, Leftovers
  <2>3. QED
    BY <2>1, <2>2 DEF IInv, Together
<1>8. Pooled' /\ Stored'
  BY <1>1, <1>2 DEF Pooled, Stored
<1>9. NothingLost'
  <2>1. \A u \in Owed : ~(u < next')
    BY <1>2, <1>3
  <2>2. QED
    BY <1>1, <2>1 DEF NothingLost
<1>10. QED
  BY <1>5, <1>6, <1>7, <1>8, <1>9 DEF IInv

-----------------------------------------------------------------------------
(* The theorems.                                                           *)

\* Every step keeps the invariant.
LEMMA StepIInv == IInv /\ [Next]_vars => IInv'
<1> SUFFICES ASSUME IInv, [Next]_vars PROVE IInv'
  OBVIOUS
<1>1. CASE Provision
  BY <1>1, SetupStep, LoginStep, CreateItemsStep, ProbeStep DEF Provision
<1>2. CASE Cut \/ Close \/ Wait \/ Flush \/ Verify
  BY <1>2, CutStep, CloseStep, WaitStep, FlushStep, VerifyStep
<1>3. ASSUME NEW w \in Workers, Work(w)
      PROVE  IInv'
  BY <1>3, TakeStep, PushStep, BetweenBatches DEF Work
<1>4. CASE RefreshCache
  BY <1>4, RefreshCacheStep
<1>5. CASE StartStack
  BY <1>5, StartStackStep
<1>6. CASE UNCHANGED vars
  <2> USE DEF vars, pool, server
  <2>1. /\ flags' = flags /\ NUnits' = NUnits /\ Units' = Units /\ Workers' = Workers
        /\ IsZabbix' = IsZabbix /\ First' = First /\ Owed' = Owed
    BY <1>6, LineKept
  <2>2. Types'
    BY <1>6, <2>1 DEF IInv, Types
  <2>3. Together' /\ Leftovers' /\ Stored'
    BY <1>6, <2>1 DEF IInv, Together, Leftovers, Stored
  <2>4. Pooled' /\ NothingLost'
    BY <1>6, <2>1 DEF IInv, Pooled, NothingLost
  <2>5. QED
    BY <2>2, <2>3, <2>4 DEF IInv
<1>7. QED
  BY <1>1, <1>2, <1>3, <1>4, <1>5, <1>6 DEF Next, Main

\* The invariant holds in all runs, one after the other.
LEMMA AlwaysIInv == Spec => []IInv
<1>1. Init => IInv
  BY StartIInv
<1>2. IInv /\ [Next]_vars => IInv'
  BY StepIInv
<1>3. QED
  BY <1>1, <1>2, PTL DEF Spec

\* A write of series or log entries that is reported is queryable as a whole.
THEOREM WritesQueryable == Spec => []ReportedIsQueryable
<1>1. IInv => ReportedIsQueryable
  <2> SUFFICES ASSUME IInv, pc = "reported",
                      flags.backend \in {"remotewrite", "loki", "elasticsearch"}
               PROVE  Visible = Units
    BY DEF ReportedIsQueryable
  <2>1. Owed = Units
    BY DEF Owed, IsZabbix
  <2>2. stored = Units
    BY <2>1 DEF IInv, Types, Stored
  <2>3. QED
    BY <2>2 DEF IInv, Stored, Visible
<1>2. QED
  BY <1>1, AlwaysIInv, PTL

\* A Zabbix write that is reported has the values of the first chunk of items.
THEOREM FirstItemsStored == Spec => []FirstChunkStored
<1>1. IInv => FirstChunkStored
  BY DEF IInv, Stored, FirstChunkStored, Owed, First
<1>2. QED
  BY <1>1, AlwaysIInv, PTL

\* No Zabbix run is reported on the data of another one: item.create refuses the
\* items that are there.
THEOREM RunsApart == Spec => []RunsNotMixed
<1>1. IInv => RunsNotMixed
  <2> SUFFICES ASSUME IInv, pc = "reported", IsZabbix PROVE old = {}
    BY DEF RunsNotMixed
  <2>1. created = NUnits /\ NUnits # 0
    BY FlagFacts DEF IInv, Types, Leftovers
  <2>2. QED
    BY <2>1 DEF IInv, Leftovers
<1>2. QED
  BY <1>1, AlwaysIInv, PTL

-----------------------------------------------------------------------------
(* Type correctness.                                                       *)

InHand == {w \in Workers : phase[w] \in {"pushing", "accepted"}}

Begun == {u \in BatchStarts : u < next}

Aligned == next % UnitsPerBatch = 0

\* Batches begin at the multiples of their size, and each of them is in the channel,
\* in the hands of a goroutine, has a duration or has failed.
Counted ==
  /\ Aligned
  /\ Len(jobs) <= 2 * flags.workers
  /\ \A i \in 1 .. Len(jobs) : jobs[i] # {}
  /\ durs \in Nat
  /\ durs + Len(jobs) + Cardinality(InHand) <= Cardinality(Begun)
  /\ old \subseteq Units

\* The next multiple.
LEMMA NextMultiple ==
  ASSUME NEW n \in Nat, NEW d \in Nat \ {0}, n % d = 0
  PROVE  (n + d) % d = 0
<1> DEFINE q == n \div d
           p == (n + d) \div d
           r == (n + d) % d
<1>1. q \in Int /\ n = d * q
  OBVIOUS
<1>2. p \in Int /\ r \in 0 .. d - 1 /\ n + d = d * p + r
  OBVIOUS
<1> HIDE DEF q, p, r
<1> DEFINE k == q + 1 - p
<1>3. k \in Int /\ d * k = r
  <2>1. d * (q + 1 - p) = d * q + d - d * p
    BY <1>1, <1>2
  <2>2. QED
    BY <1>1, <1>2, <2>1
<1> HIDE DEF k
<1>4. ~(k >= 1)
  <2> SUFFICES ASSUME k >= 1 PROVE d * k >= d
    BY <1>2, <1>3
  <2>1. QED
    BY <1>3
<1>5. ~(k <= -1)
  <2> SUFFICES ASSUME k <= -1 PROVE d * k <= -d
    BY <1>2, <1>3
  <2>1. QED
    BY <1>3
<1>6. k = 0
  BY <1>3, <1>4, <1>5
<1>7. QED
  BY <1>3, <1>6 DEF r

\* Goroutines and batches can be counted.
LEMMA Countable ==
  ASSUME Types
  PROVE  /\ IsFiniteSet(InHand) /\ Cardinality(InHand) \in Nat
         /\ IsFiniteSet(Begun) /\ Cardinality(Begun) \in Nat
         /\ IsFiniteSet(BatchStarts) /\ Cardinality(Begun) <= Cardinality(BatchStarts)
<1>1. /\ 0 \in Int /\ NUnits - 1 \in Int /\ 1 \in Int /\ flags.workers \in Int
      /\ Units = 0 .. NUnits - 1 /\ Workers = 1 .. flags.workers
  BY FlagFacts DEF Types
<1>2. IsFiniteSet(Units) /\ IsFiniteSet(Workers)
  BY <1>1, FS_Interval
<1>3. IsFiniteSet(InHand) /\ IsFiniteSet(BatchStarts)
  BY <1>2, FS_Subset DEF InHand, BatchStarts
<1>4. IsFiniteSet(Begun) /\ Cardinality(Begun) <= Cardinality(BatchStarts)
  BY <1>3, FS_Subset DEF Begun
<1>5. QED
  BY <1>3, <1>4, FS_CardinalityType

\* A batch has at least the unit it begins with.
LEMMA CutCounted ==
  ASSUME IInv, Counted, Cut
  PROVE  Counted'
<1> DEFINE x == UnitsFrom(next, UnitsPerBatch)
<1>1. /\ flags' = flags /\ NUnits' = NUnits /\ UnitsPerBatch' = UnitsPerBatch
      /\ Units' = Units /\ Workers' = Workers
  BY LineKept DEF Cut
<1>2. /\ jobs' = Append(jobs, x) /\ next' = next + UnitsPerBatch /\ phase' = phase
      /\ durs' = durs /\ old' = old /\ next < NUnits /\ Len(jobs) < 2 * flags.workers
  BY DEF Cut, server
<1>3. /\ next \in Nat /\ jobs \in Seq(SUBSET Units) /\ x \in SUBSET Units
      /\ UnitsPerBatch \in Nat \ {0} /\ NUnits \in Nat /\ Units = 0 .. NUnits - 1
      /\ flags.workers \in Nat \ {0}
  BY FlagFacts DEF IInv, Types, UnitsFrom
<1>4. next \in x /\ next \in BatchStarts
  BY <1>2, <1>3 DEF UnitsFrom, BatchStarts, Counted, Aligned
<1> HIDE DEF x
<1>5. /\ jobs' \in Seq(SUBSET Units) /\ Len(jobs') = Len(jobs) + 1 /\ Len(jobs) \in Nat
      /\ jobs'[Len(jobs) + 1] = x
      /\ \A i \in 1 .. Len(jobs) : jobs'[i] = jobs[i]
  BY <1>2, <1>3, BatchAppended
<1>6. Aligned'
  BY <1>1, <1>2, <1>3, NextMultiple DEF Counted, Aligned
<1>7. \A i \in 1 .. Len(jobs') : jobs'[i] # {}
  <2> SUFFICES ASSUME NEW i \in 1 .. Len(jobs') PROVE jobs'[i] # {}
    OBVIOUS
  <2>1. i \in 1 .. Len(jobs) \/ i = Len(jobs) + 1
    BY <1>5
  <2>2. QED
    BY <1>4, <1>5, <2>1 DEF Counted
<1>8. InHand' = InHand
  BY <1>1, <1>2 DEF InHand
<1>9. Cardinality(Begun') \in Nat /\ Cardinality(Begun') >= Cardinality(Begun) + 1
  <2>1. BatchStarts' = BatchStarts
    BY <1>1 DEF BatchStarts
  <2>2. Begun \cup {next} \subseteq Begun' /\ next \notin Begun
    BY <1>2, <1>3, <1>4, <2>1 DEF Begun, BatchStarts
  <2>3. Begun' \subseteq BatchStarts
    BY <2>1 DEF Begun
  <2>4. IsFiniteSet(Begun') /\ IsFiniteSet(Begun \cup {next})
    BY <2>2, <2>3, Countable, FS_Subset DEF IInv
  <2>5. Cardinality(Begun \cup {next}) = Cardinality(Begun) + 1
    BY <2>2, Countable, FS_AddElement DEF IInv
  <2>6. Cardinality(Begun \cup {next}) <= Cardinality(Begun')
    BY <2>2, <2>4, FS_Subset
  <2>7. Cardinality(Begun') \in Nat /\ Cardinality(Begun) \in Nat
    BY <2>4, Countable, FS_CardinalityType DEF IInv
  <2>8. QED
    BY <2>5, <2>6, <2>7
<1>10. durs' + Len(jobs') + Cardinality(InHand') <= Cardinality(Begun')
  <2>1. /\ Cardinality(InHand) \in Nat /\ Cardinality(Begun) \in Nat
        /\ durs \in Nat /\ durs + Len(jobs) + Cardinality(InHand) <= Cardinality(Begun)
    BY Countable DEF IInv, Counted
  <2>2. QED
    BY <1>2, <1>5, <1>8, <1>9, <2>1
<1>11. Len(jobs') <= 2 * flags'.workers
  BY <1>1, <1>2, <1>3, <1>5
<1>12. durs' \in Nat /\ old' \subseteq Units'
  BY <1>1, <1>2 DEF Counted
<1>13. QED
  BY <1>6, <1>7, <1>10, <1>11, <1>12 DEF Counted

\* A goroutine has one batch in hand, and records one duration for it.
LEMMA WorkCounted ==
  ASSUME IInv, Counted, NEW w \in Workers, Work(w)
  PROVE  Counted'
<1> USE DEF server
<1>1. flags' = flags /\ next' = next /\ old' = old
  BY DEF Work, Take, Push, PushSeries, PushValues, PushEntries, PushSpans, Pushed, RecordTime,
         RecordError, Leave
<1>2. /\ NUnits' = NUnits /\ UnitsPerBatch' = UnitsPerBatch /\ Units' = Units
      /\ Workers' = Workers /\ Begun' = Begun
  <2>1. /\ NUnits' = NUnits /\ UnitsPerBatch' = UnitsPerBatch /\ Units' = Units
        /\ Workers' = Workers
    BY <1>1, LineKept
  <2>2. QED
    BY <1>1, <2>1 DEF Begun, BatchStarts
<1>3. /\ IsFiniteSet(InHand) /\ Cardinality(InHand) \in Nat /\ Cardinality(Begun) \in Nat
      /\ jobs \in Seq(SUBSET Units) /\ Len(jobs) \in Nat /\ flags.workers \in Nat
      /\ phase \in [Workers -> {"idle", "pushing", "accepted", "refused", "gone"}]
  BY Countable, FlagFacts DEF IInv, Types
<1>4. /\ durs \in Nat /\ durs + Len(jobs) + Cardinality(InHand) <= Cardinality(Begun)
      /\ Len(jobs) <= 2 * flags.workers /\ \A i \in 1 .. Len(jobs) : jobs[i] # {}
  BY DEF Counted
<1>5. CASE Take(w)
  <2>1. InHand' = InHand \cup {w} /\ w \notin InHand /\ jobs # <<>> /\ jobs' = Tail(jobs)
        /\ durs' = durs
    BY <1>2, <1>3, <1>5 DEF Take, InHand
  <2>2. Cardinality(InHand') = Cardinality(InHand) + 1
    BY <1>3, <2>1, FS_AddElement
  <2>3. Len(jobs') = Len(jobs) - 1 /\ \A i \in 1 .. Len(jobs') : jobs'[i] = jobs[i + 1]
    BY <1>3, <2>1
  <2>4. QED
    BY <1>1, <1>2, <1>3, <1>4, <2>1, <2>2, <2>3 DEF Counted, Aligned
<1>6. CASE Push(w) \/ RecordError(w) \/ Leave(w)
  <2>1. /\ InHand' \subseteq InHand /\ jobs' = jobs /\ durs' = durs
    <3>1. jobs' = jobs /\ durs' = durs
      BY <1>6 DEF Push, PushSeries, PushValues, PushEntries, PushSpans, Pushed, RecordError, Leave
    <3>2. CASE Push(w)
      <4>1. phase[w] = "pushing" /\ \A v \in Workers : v # w => phase'[v] = phase[v]
        BY <1>3, <3>2 DEF Push, PushSeries, PushValues, PushEntries, PushSpans, Pushed
      <4>2. ASSUME NEW v \in Workers, phase'[v] \in {"pushing", "accepted"}
            PROVE  phase[v] \in {"pushing", "accepted"}
        BY <4>1, <4>2
      <4>3. QED
        BY <1>2, <3>1, <4>2 DEF InHand
    <3>3. CASE RecordError(w) \/ Leave(w)
      BY <1>2, <1>3, <3>1, <3>3 DEF RecordError, AfterError, Leave, InHand
    <3>4. QED
      BY <1>6, <3>1, <3>2, <3>3
  <2>2. Cardinality(InHand') \in Nat /\ Cardinality(InHand') <= Cardinality(InHand)
    BY <1>3, <2>1, FS_Subset, FS_CardinalityType
  <2>3. QED
    BY <1>1, <1>2, <1>3, <1>4, <2>1, <2>2 DEF Counted, Aligned
<1>7. CASE RecordTime(w)
  <2>1. InHand' = InHand \ {w} /\ w \in InHand /\ jobs' = jobs /\ durs' = durs + 1
    BY <1>2, <1>3, <1>7 DEF RecordTime, InHand
  <2>2. Cardinality(InHand') = Cardinality(InHand) - 1
    BY <1>3, <2>1, FS_RemoveElement
  <2>3. QED
    BY <1>1, <1>2, <1>3, <1>4, <2>1, <2>2 DEF Counted, Aligned
<1>8. QED
  BY <1>5, <1>6, <1>7 DEF Work

\* Nothing is counted anew by a step of main, of the server, or by a new run.
LEMMA OtherCounted ==
  ASSUME IInv, Counted, Provision \/ Close \/ Wait \/ Flush \/ Verify \/ RefreshCache
                          \/ StartStack \/ UNCHANGED vars
  PROVE  Counted'
<1>1. flags' = flags
  BY DEF Provision, Setup, Login, CreateItems, Probe, Close, Wait, Flush, Verify, RefreshCache,
         StartStack, vars
<1>2. /\ NUnits' = NUnits /\ UnitsPerBatch' = UnitsPerBatch /\ Units' = Units
      /\ Workers' = Workers
  BY <1>1, LineKept
<1>3. CASE StartStack
  <2>1. next' = 0 /\ jobs' = <<>> /\ durs' = 0 /\ InHand' = {} /\ old' \subseteq Units
    BY <1>2, <1>3 DEF StartStack, InHand, Counted, IInv, Types
  <2>2. Begun' = {} /\ UnitsPerBatch \in Nat \ {0} /\ flags.workers \in Nat
    BY <1>2, <2>1, FlagFacts DEF Begun, BatchStarts, IInv, Types
  <2>3. QED
    BY <1>1, <1>2, <2>1, <2>2, FS_EmptySet DEF Counted, Aligned
<1>4. CASE Provision \/ Close \/ Wait \/ Flush \/ Verify \/ RefreshCache \/ UNCHANGED vars
  <2>1. next' = next /\ jobs' = jobs /\ durs' = durs /\ phase' = phase /\ old' = old
    BY <1>4 DEF Provision, Setup, Login, CreateItems, Probe, Close, Wait, Flush, Verify,
                RefreshCache, vars, pool, server
  <2>2. Begun' = Begun /\ InHand' = InHand
    BY <1>2, <2>1 DEF Begun, BatchStarts, InHand
  <2>3. QED
    BY <1>1, <1>2, <2>1, <2>2 DEF Counted, Aligned
<1>5. QED
  BY <1>3, <1>4

\* Every variable keeps its type, and no more durations are recorded than there are
\* batches.
THEOREM IngestTypeOK == Spec => []TypeOK
<1>1. Init => IInv /\ Counted
  <2> SUFFICES ASSUME Init PROVE Counted
    BY StartIInv
  <2>1. next = 0 /\ jobs = <<>> /\ durs = 0 /\ InHand = {} /\ old \subseteq Units
    BY DEF Init, InHand
  <2>2. Begun = {} /\ UnitsPerBatch \in Nat \ {0} /\ flags.workers \in Nat
    BY <2>1, FlagFacts DEF Begun, BatchStarts, Init, Units
  <2>3. QED
    BY <2>1, <2>2, FS_EmptySet DEF Counted, Aligned
<1>2. IInv /\ Counted /\ [Next]_vars => IInv' /\ Counted'
  <2> SUFFICES ASSUME IInv, Counted, [Next]_vars PROVE Counted'
    BY StepIInv
  <2>1. QED
    BY CutCounted, WorkCounted, OtherCounted DEF Next, Main
<1>3. IInv /\ Counted => TypeOK
  <2> SUFFICES ASSUME IInv, Counted PROVE TypeOK
    OBVIOUS
  <2>1. durs \in 0 .. Cardinality(BatchStarts)
    <3>1. /\ Cardinality(InHand) \in Nat /\ Len(jobs) \in Nat
          /\ Cardinality(Begun) \in Nat /\ Cardinality(Begun) <= Cardinality(BatchStarts)
          /\ Cardinality(BatchStarts) \in Nat
      BY Countable, FS_CardinalityType DEF IInv, Types
    <3>2. durs \in Nat /\ durs + Len(jobs) + Cardinality(InHand) <= Cardinality(Begun)
      BY DEF Counted
    <3>3. QED
      BY <3>1, <3>2
  <2>2. \A i \in DOMAIN jobs : jobs[i] \subseteq Units /\ jobs[i] # {}
    BY DEF IInv, Types, Counted
  <2>3. QED
    BY <2>1, <2>2 DEF IInv, Types, Counted, TypeOK
<1>4. QED
  BY <1>1, <1>2, <1>3, PTL DEF Spec

=============================================================================
