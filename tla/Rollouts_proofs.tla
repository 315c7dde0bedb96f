-------------------------- MODULE Rollouts_proofs ---------------------------
(***************************************************************************)
(* Theorems about Rollouts, for every set of valid command lines: any      *)
(* number of rounds, replicas and names of instances.                      *)
(*                                                                         *)
(* The argument is Hoare's.  Between two steps of a script there is a      *)
(* label, and Triple says which label may follow which step; Outline gives *)
(* every script its labels, round by round (LeadsTimes), so that the proof *)
(* follows the shape of the scripts and not their length.  Holds gives     *)
(* each label an assertion about the cluster, which the orchestrator       *)
(* cannot make false (HoldsEnv) and which every step of the program makes  *)
(* true of the next label (SchedulerMove, PlainMove, GitOpsMove).          *)
(***************************************************************************)
EXTENDS Rollouts, FiniteSetTheorems, SequenceTheorems, TLAPS

\* What is known before a step of a script.
Known(what)   == <<what, 0>>
Growing(n)    == <<"growing", n>>
Full(n)       == <<"full", n>>

SchedulerTriple(f, p, s, q) ==
  /\ s.onError \in {"exit", "final"}
  /\ \/ s.do = "delete" /\ p \in {Known("calm"), Known("shrunk")} /\ q = Known("deleted")
     \/ s.do = "gone" /\ p = Known("deleted") /\ q = Known("clean")
     \/ s.do = "create" /\ s.n = 1 /\ p = Known("clean") /\ q = Growing(1)
     \/ s.do = "ready" /\ s.n > 0 /\ p = Growing(s.n) /\ q = Full(s.n)
     \/ s.do = "update" /\ s.n = f.replicas /\ p = Full(1) /\ q = Growing(f.replicas)
     \/ s.do = "pick" /\ p = Full(f.replicas) /\ q = Known("picked")
     \/ s.do = "kill" /\ p = Known("picked") /\ q = Known("recovering")
     \/ s.do = "recovered" /\ p = Known("recovering") /\ q = Known("recovered")
     \/ s.do = "update" /\ s.n = 1 /\ p = Known("recovered") /\ q = Known("shrinking")
     \/ s.do = "ready" /\ s.n = 1 /\ p = Known("shrinking") /\ q = Known("shrunk")

\* loadgen-k8s and loadgen-mesh
PlainTriple(f, p, s, q) ==
  /\ s.onError \in {"exit", "final", "ignore"}
  /\ s.onError = "ignore" => s.do \in {"delete", "gone"}
  /\ \/ s.do = "namespace" /\ q = p /\ (p = Known("any") \/ p = Full(f.replicas))
     \/ s.do = "delete" /\ q = Known("deleted")
     \/ s.do = "gone" /\ p = Known("deleted") /\ q = Known("clean")
     \/ s.do = "create" /\ s.n > 0 /\ p = Known("clean") /\ q = Growing(s.n)
     \/ s.do = "ensure" /\ s.n > 0 /\ p = Full(f.replicas) /\ q = p
     \/ s.do = "update" /\ s.n > 0 /\ p[1] = "full" /\ p[2] <= s.n /\ q = Growing(s.n)
     \/ s.do = "update" /\ s.n = 1 /\ p[1] = "full" /\ p[2] > 1 /\ q = Known("shrinking")
     \/ s.do = "ready" /\ s.n > 0 /\ p = Growing(s.n) /\ q = Full(s.n)
     \/ s.do = "ready" /\ s.n > 0 /\ s.n <= f.replicas /\ p = Full(f.replicas) /\ q = p
     \/ s.do = "ready" /\ s.n = 1 /\ p = Known("shrinking") /\ q = Known("shrunk")

GitOpsTriple(f, p, s, q) ==
  /\ s.onError = "exit"
  /\ \/ s.do \in {"namespace", "push", "elsewhere"} /\ p = Known("any") /\ q = p
     \/ s.do = "ready" /\ s.n = (IF f.workload = "deployment" THEN 1 ELSE 0) /\ q = Known("there")
     \/ s.do = "delete" /\ p = Known("there") /\ q = Known("any")

Triple(f, p, s, q) ==
  \/ f.tool = "scheduler" /\ SchedulerTriple(f, p, s, q)
  \/ f.tool = "gitops" /\ GitOpsTriple(f, p, s, q)
  \/ f.tool \in {"k8s", "mesh"} /\ PlainTriple(f, p, s, q)

-----------------------------------------------------------------------------
(* The outline of a script.                                                *)

Step == [do : {"delete", "gone", "create", "ready", "update", "pick", "kill", "recovered",
               "namespace", "ensure", "push", "elsewhere", "deleteNamespace"},
         n : Nat, onError : {"ignore", "skip", "final", "exit"}]

\* l says what is known before each step of s, and after the last one.
Outlines(l, f, s, a, b) ==
  /\ l[1] = a /\ l[Len(s) + 1] = b
  /\ \A i \in 1 .. Len(s) : Triple(f, l[i], s[i], l[i + 1])

Leads(f, s, a, b) == s \in Seq(Step) /\ \E l : Outlines(l, f, s, a, b)

\* One step.
LEMMA LeadsOne ==
  ASSUME NEW f, NEW a, NEW b, NEW x \in Step, Triple(f, a, x, b)
  PROVE  Leads(f, <<x>>, a, b)
<1> DEFINE s == <<x>>
           l == [i \in 1 .. 2 |-> IF i = 1 THEN a ELSE b]
<1>1. s \in Seq(Step) /\ Len(s) = 1 /\ s[1] = x
  OBVIOUS
<1>2. l[1] = a /\ l[2] = b
  OBVIOUS
<1> HIDE DEF s, l
<1>3. Outlines(l, f, s, a, b)
  BY <1>1, <1>2 DEF Outlines
<1>4. QED
  BY <1>1, <1>3 DEF Leads, s

\* One script after the other.
LEMMA LeadsBoth ==
  ASSUME NEW f, NEW a, NEW b, NEW c, NEW s, NEW t, Leads(f, s, a, b), Leads(f, t, b, c)
  PROVE  Leads(f, s \o t, a, c)
<1> DEFINE m == Len(s)
           n == Len(t)
           u == s \o t
<1>1. s \in Seq(Step) /\ t \in Seq(Step)
  BY DEF Leads
<1>2. PICK la : Outlines(la, f, s, a, b)
  BY DEF Leads
<1>3. PICK lb : Outlines(lb, f, t, b, c)
  BY DEF Leads
<1> DEFINE l == [i \in 1 .. m + n + 1 |-> IF i <= m THEN la[i] ELSE lb[i - m]]
<1>4. /\ u \in Seq(Step) /\ Len(u) = m + n /\ m \in Nat /\ n \in Nat
      /\ \A i \in 1 .. m + n : u[i] = IF i <= m THEN s[i] ELSE t[i - m]
  BY <1>1, ConcatProperties
<1>5. \A i \in 1 .. m + n + 1 : l[i] = IF i <= m THEN la[i] ELSE lb[i - m]
  OBVIOUS
<1>6. /\ la[1] = a /\ la[m + 1] = b /\ lb[1] = b /\ lb[n + 1] = c
      /\ \A i \in 1 .. m : Triple(f, la[i], s[i], la[i + 1])
      /\ \A i \in 1 .. n : Triple(f, lb[i], t[i], lb[i + 1])
  BY <1>2, <1>3 DEF Outlines
<1> HIDE DEF m, n, u, l
<1>7. l[1] = a
  <2>1. CASE m = 0
    BY <2>1, <1>4, <1>5, <1>6
  <2>2. CASE m > 0
    BY <2>2, <1>4, <1>5, <1>6
  <2>3. QED
    BY <2>1, <2>2, <1>4
<1>8. l[m + n + 1] = c
  BY <1>4, <1>5, <1>6
<1>9. ASSUME NEW i \in 1 .. m + n PROVE Triple(f, l[i], u[i], l[i + 1])
  <2>1. CASE i < m
    <3>1. i \in 1 .. m /\ l[i] = la[i] /\ l[i + 1] = la[i + 1] /\ u[i] = s[i]
      BY <2>1, <1>4, <1>5
    <3>2. QED
      BY <3>1, <1>6
  <2>2. CASE i = m
    <3>1. i \in 1 .. m /\ l[i] = la[i] /\ l[i + 1] = la[i + 1] /\ u[i] = s[i]
      BY <2>2, <1>4, <1>5, <1>6
    <3>2. QED
      BY <3>1, <1>6
  <2>3. CASE i > m
    <3> DEFINE j == i - m
    <3>1. j \in 1 .. n /\ l[i] = lb[j] /\ l[i + 1] = lb[j + 1] /\ u[i] = t[j]
      BY <2>3, <1>4, <1>5
    <3> HIDE DEF j
    <3>2. QED
      BY <3>1, <1>6
  <2>4. QED
    BY <2>1, <2>2, <2>3, <1>4
<1>10. Outlines(l, f, u, a, c)
  BY <1>4, <1>7, <1>8, <1>9 DEF Outlines
<1>11. QED
  BY <1>4, <1>10 DEF Leads, u

\* Counting modulo d.
LEMMA ModStep ==
  ASSUME NEW k \in Nat, NEW d \in Nat \ {0}
  PROVE  /\ k % d \in 0 .. d - 1
         /\ k < d => k % d = k
         /\ (k + 1) % d = IF k % d = d - 1 THEN 0 ELSE (k % d) + 1
<1> DEFINE q == k \div d
           r == k % d
           e == k + 1
           p == e \div d
           t == e % d
<1>1. q \in Nat /\ r \in 0 .. d - 1 /\ k = d * q + r
  OBVIOUS
<1>2. p \in Nat /\ t \in 0 .. d - 1 /\ e = d * p + t /\ e = k + 1
  OBVIOUS
<1> HIDE DEF q, r, p, t, e
<1>3. k < d => r = k
  <2>1. CASE q = 0
    BY <2>1, <1>1
  <2>2. CASE q >= 1
    <3>1. d * q >= d
      BY <2>2, <1>1
    <3>2. QED
      BY <3>1, <1>1
  <2>3. QED
    BY <2>1, <2>2, <1>1
<1>4. d * p - d * q = d * (p - q)
  BY <1>1, <1>2
<1>5. d * (p - q) = (r + 1) - t
  <2> DEFINE x == d * p
             y == d * q
  <2>1. x \in Int /\ y \in Int /\ k = y + r /\ e = x + t /\ e = k + 1
    BY <1>1, <1>2
  <2>2. d * (p - q) = x - y
    BY <1>4
  <2> HIDE DEF x, y
  <2>3. QED
    BY <2>1, <2>2, <1>1, <1>2
<1>6. t = IF r = d - 1 THEN 0 ELSE r + 1
  <2>1. CASE p - q >= 2
    <3>1. d * (p - q) >= 2 * d
      BY <2>1, <1>1, <1>2
    <3>2. QED
      BY <3>1, <1>1, <1>2, <1>5
  <2>2. CASE p - q = 1
    <3>1. d * (p - q) = d
      BY <2>2, <1>1, <1>2
    <3>2. QED
      BY <3>1, <1>1, <1>2, <1>5
  <2>3. CASE p - q = 0
    <3>1. d * (p - q) = 0
      BY <2>3, <1>1, <1>2
    <3>2. QED
      BY <3>1, <1>1, <1>2, <1>5
  <2>4. CASE p - q <= -1
    <3>1. d * (p - q) <= -d
      BY <2>4, <1>1, <1>2
    <3>2. QED
      BY <3>1, <1>1, <1>2, <1>5
  <2>5. QED
    BY <2>1, <2>2, <2>3, <2>4, <1>1, <1>2
<1>7. QED
  BY <1>1, <1>3, <1>6 DEF r, t, e

\* Multiplication distributes.
LEMMA Distributes ==
  ASSUME NEW x \in Int, NEW y \in Int, NEW d \in Int
  PROVE  d * (x - y) = d * x - d * y /\ d * x = x * d
OBVIOUS

\* A multiple of d is 0 modulo d.
LEMMA ModMultiple ==
  ASSUME NEW n \in Nat, NEW d \in Nat \ {0}
  PROVE  n * d \in Nat /\ (n * d) % d = 0
<1> DEFINE k == n * d
<1>0. k \in Nat
  OBVIOUS
<1>1. d * n = k
  BY Distributes
<1> HIDE DEF k
<1> DEFINE q == k \div d
           r == k % d
<1>2. q \in Nat /\ r \in 0 .. d - 1 /\ k = d * q + r
  BY <1>0
<1> HIDE DEF q, r
<1>3. d * (n - q) = d * n - d * q
  BY <1>2, Distributes
<1> DEFINE y == d * q
<1>4. y \in Int /\ d * (n - q) = k - y /\ k = y + r
  BY <1>1, <1>2, <1>3
<1> HIDE DEF y
<1>5. d * (n - q) = r
  BY <1>0, <1>2, <1>4
<1>6. r = 0
  <2>1. CASE n - q >= 1
    <3>1. d * (n - q) >= d
      BY <2>1, <1>2
    <3>2. QED
      BY <3>1, <1>2, <1>5
  <2>2. CASE n - q = 0
    BY <2>2, <1>2, <1>5
  <2>3. CASE n - q <= -1
    <3>1. d * (n - q) <= -d
      BY <2>3, <1>2
    <3>2. QED
      BY <3>1, <1>2, <1>5
  <2>4. QED
    BY <2>1, <2>2, <2>3, <1>2
<1>7. QED
  BY <1>0, <1>6 DEF k, r

\* The same script again and again: its first round may begin with something else.
LEMMA LeadsTimes ==
  ASSUME NEW f, NEW a, NEW b, NEW s, NEW n \in Nat, n > 0 \/ a = b,
         Len(s) > 0, Leads(f, s, a, b), Leads(f, s, b, b)
  PROVE  Leads(f, Times(n, s), a, b)
<1> DEFINE L == Len(s)
           M == n * L
           T == Times(n, s)
           At == [i \in Nat \ {0} |-> ((i - 1) % L) + 1]
<1>1. s \in Seq(Step) /\ L \in Nat \ {0}
  BY DEF Leads
<1>2. M \in Nat /\ M % L = 0
  BY <1>1, ModMultiple
<1>3. PICK la : Outlines(la, f, s, a, b)
  BY DEF Leads
<1>4. PICK lb : Outlines(lb, f, s, b, b)
  BY DEF Leads
<1>5. /\ la[1] = a /\ la[L + 1] = b /\ lb[1] = b /\ lb[L + 1] = b
      /\ \A i \in 1 .. L : Triple(f, la[i], s[i], la[i + 1])
      /\ \A i \in 1 .. L : Triple(f, lb[i], s[i], lb[i + 1])
  BY <1>3, <1>4 DEF Outlines
<1> DEFINE l == [i \in 1 .. M + 1 |-> IF i <= L THEN la[i] ELSE lb[At[i]]]
<1>6. T = [i \in 1 .. M |-> s[At[i]]]
  <2>1. \A i \in 1 .. M : At[i] = ((i - 1) % L) + 1
    BY <1>2
  <2>2. QED
    BY <2>1 DEF Times
<1>7. \A i \in Nat \ {0} : /\ At[i] \in 1 .. L
                           /\ i <= L => At[i] = i
                           /\ At[i + 1] = IF At[i] = L THEN 1 ELSE At[i] + 1
  <2> TAKE i \in Nat \ {0}
  <2> DEFINE k == i - 1
  <2>1. k \in Nat /\ k + 1 = i
    OBVIOUS
  <2>2. /\ k % L \in 0 .. L - 1
        /\ k < L => k % L = k
        /\ (k + 1) % L = IF k % L = L - 1 THEN 0 ELSE (k % L) + 1
    BY <1>1, <2>1, ModStep
  <2>3. At[i] = (k % L) + 1 /\ At[i + 1] = ((k + 1) % L) + 1
    <3>1. i + 1 \in Nat \ {0} /\ (i + 1) - 1 = k + 1
      OBVIOUS
    <3>2. QED
      BY <3>1
  <2> HIDE DEF At, k, L
  <2>4. QED
    BY <1>1, <2>1, <2>2, <2>3
<1>8. At[M + 1] = 1
  <2>1. M + 1 \in Nat \ {0} /\ (M + 1) - 1 = M
    BY <1>2
  <2>2. QED
    BY <2>1, <1>2
<1>9. n = 0 => M = 0
  BY <1>1
<1>10. n > 0 => M >= L
  <2>1. CASE n > 0
    BY <2>1, <1>1
  <2>2. QED
    BY <2>1
<1> HIDE DEF L, M, At, T
<1>11. /\ T \in Seq(Step) /\ Len(T) = M
       /\ \A i \in 1 .. M : T[i] = s[At[i]]
  <2>1. \A i \in 1 .. M : s[At[i]] \in Step
    <3>1. \A j \in 1 .. L : s[j] \in Step
      BY <1>1, ElementOfSeq DEF L
    <3>2. \A i \in 1 .. M : i \in Nat \ {0}
      BY <1>2
    <3>3. \A i \in 1 .. M : At[i] \in 1 .. L
      BY <3>2, <1>7
    <3>4. QED
      BY <3>1, <3>3
  <2>2. QED
    BY <1>2, <1>6, <2>1
<1>12. \A i \in 1 .. M + 1 : l[i] = IF i <= L THEN la[i] ELSE lb[At[i]]
  OBVIOUS
<1> HIDE DEF l
<1>13. l[1] = a
  BY <1>1, <1>2, <1>5, <1>12
<1>14. l[M + 1] = b
  <2>1. CASE n = 0
    BY <2>1, <1>1, <1>5, <1>9, <1>12
  <2>2. CASE n > 0
    BY <2>2, <1>1, <1>2, <1>5, <1>8, <1>10, <1>12
  <2>3. QED
    BY <2>1, <2>2
<1>15. ASSUME NEW i \in 1 .. M PROVE Triple(f, l[i], T[i], l[i + 1])
  <2>1. i \in Nat \ {0} /\ i + 1 \in 1 .. M + 1 /\ i \in 1 .. M + 1 /\ L \in Nat \ {0}
    BY <1>1, <1>2
  <2> DEFINE j == At[i]
             k == At[i + 1]
  <2>2. /\ j \in 1 .. L /\ (i <= L => j = i)
        /\ k = IF j = L THEN 1 ELSE j + 1
    <3>1. /\ At[i] \in 1 .. L
          /\ i <= L => At[i] = i
          /\ At[i + 1] = IF At[i] = L THEN 1 ELSE At[i] + 1
      BY <2>1, <1>7
    <3>2. QED
      BY <3>1
  <2>3. /\ l[i] = IF i <= L THEN la[i] ELSE lb[j]
        /\ l[i + 1] = IF i + 1 <= L THEN la[i + 1] ELSE lb[k]
        /\ T[i] = s[j]
    BY <2>1, <1>11, <1>12
  <2>4. lb[k] = lb[j + 1]
    <3> HIDE DEF j, k
    <3>1. QED
      BY <2>1, <2>2, <1>5
  <2> HIDE DEF j, k
  <2>5. CASE i < L
    <3>1. i \in 1 .. L /\ l[i] = la[i] /\ l[i + 1] = la[i + 1] /\ T[i] = s[i]
      BY <2>5, <2>1, <2>2, <2>3
    <3>2. QED
      BY <3>1, <1>5
  <2>6. CASE i = L
    <3>1. i \in 1 .. L /\ l[i] = la[i] /\ T[i] = s[i] /\ k = 1
      BY <2>6, <2>1, <2>2, <2>3
    <3>2. l[i + 1] = la[i + 1]
      BY <3>1, <2>6, <2>1, <2>3, <1>5
    <3>3. QED
      BY <3>1, <3>2, <1>5
  <2>7. CASE i > L
    <3>1. l[i] = lb[j] /\ l[i + 1] = lb[j + 1]
      BY <2>7, <2>1, <2>3, <2>4
    <3>2. QED
      BY <3>1, <2>2, <2>3, <1>5
  <2>8. QED
    BY <2>5, <2>6, <2>7, <2>1
<1>16. Outlines(l, f, T, a, b)
  BY <1>11, <1>13, <1>14, <1>15 DEF Outlines
<1>17. QED
  BY <1>11, <1>16 DEF Leads, T

-----------------------------------------------------------------------------
(* The outlines of the four tools.                                         *)

\* Two and three steps.
LEMMA LeadsTwo ==
  ASSUME NEW f, NEW a, NEW b, NEW c, NEW x \in Step, NEW y \in Step,
         Triple(f, a, x, b), Triple(f, b, y, c)
  PROVE  Leads(f, <<x, y>>, a, c)
<1>1. Leads(f, <<x>> \o <<y>>, a, c)
  BY LeadsOne, LeadsBoth
<1>2. <<x>> \o <<y>> = <<x, y>>
  <2> DEFINE s == <<x>>
             t == <<y>>
             u == <<x, y>>
  <2>1. /\ s \in Seq(Step) /\ Len(s) = 1 /\ s[1] = x
        /\ t \in Seq(Step) /\ Len(t) = 1 /\ t[1] = y
        /\ u \in Seq(Step) /\ Len(u) = 2 /\ u[1] = x /\ u[2] = y
    OBVIOUS
  <2> HIDE DEF s, t, u
  <2> DEFINE w == s \o t
  <2>2. /\ w \in Seq(Step) /\ Len(w) = Len(s) + Len(t)
        /\ \A i \in 1 .. Len(s) + Len(t) : w[i] = IF i <= Len(s) THEN s[i] ELSE t[i - Len(s)]
    BY <2>1, ConcatProperties
  <2> HIDE DEF w
  <2>3. Len(w) = 2 /\ w[1] = x /\ w[2] = y
    BY <2>1, <2>2
  <2>4. \A i \in 1 .. 2 : w[i] = u[i]
    BY <2>1, <2>3
  <2>5. w = u
    BY <2>1, <2>2, <2>4, SeqEqual
  <2>6. QED
    BY <2>5 DEF w, s, t, u
<1>3. QED
  BY <1>1, <1>2

\* Three steps.
LEMMA LeadsThree ==
  ASSUME NEW f, NEW a, NEW b, NEW c, NEW d, NEW x \in Step, NEW y \in Step, NEW z \in Step,
         Triple(f, a, x, b), Triple(f, b, y, c), Triple(f, c, z, d)
  PROVE  Leads(f, <<x, y, z>>, a, d)
<1>1. Leads(f, <<x, y>>, a, c)
  BY LeadsTwo
<1>2. Leads(f, <<z>>, c, d)
  BY LeadsOne
<1>3. Leads(f, <<x, y>> \o <<z>>, a, d)
  BY <1>1, <1>2, LeadsBoth
<1>4. <<x, y>> \o <<z>> = <<x, y, z>>
  <2> DEFINE s == <<x, y>>
             t == <<z>>
             u == <<x, y, z>>
  <2>1. /\ s \in Seq(Step) /\ Len(s) = 2 /\ s[1] = x /\ s[2] = y
        /\ t \in Seq(Step) /\ Len(t) = 1 /\ t[1] = z
        /\ u \in Seq(Step) /\ Len(u) = 3 /\ u[1] = x /\ u[2] = y /\ u[3] = z
    OBVIOUS
  <2> HIDE DEF s, t, u
  <2> DEFINE w == s \o t
  <2>2. /\ w \in Seq(Step) /\ Len(w) = Len(s) + Len(t)
        /\ \A i \in 1 .. Len(s) + Len(t) : w[i] = IF i <= Len(s) THEN s[i] ELSE t[i - Len(s)]
    BY <2>1, ConcatProperties
  <2> HIDE DEF w
  <2>3. Len(w) = 3 /\ w[1] = x /\ w[2] = y /\ w[3] = z
    BY <2>1, <2>2
  <2>4. \A i \in 1 .. 3 : w[i] = u[i]
    BY <2>1, <2>3
  <2>5. w = u
    BY <2>1, <2>2, <2>4, SeqEqual
  <2>6. QED
    BY <2>5 DEF w, s, t, u
<1>5. QED
  BY <1>3, <1>4

\* What a valid command line says.
LEMMA FlagFacts ==
  ASSUME NEW f \in Flags
  PROVE  /\ f.tool \in {"scheduler", "k8s", "mesh", "gitops"}
         /\ f.platform \in Platforms
         /\ f.rounds \in Nat /\ f.rounds >= 1
         /\ f.replicas \in Nat /\ f.replicas >= 1
         /\ f.tool = "scheduler" => f.replicas >= 2 /\ f.namespace = "active"
         /\ f.tool # "scheduler" => f.platform = "kubernetes"
         /\ f.tool = "gitops" => f.namespace # "terminating"
         /\ f.namespace \in {"absent", "active", "terminating"}
         /\ f.left \in BOOLEAN /\ f.keep \in BOOLEAN
         /\ f.workload \in {"deployment", "configmap"}
<1>1. f \in FlagType /\ ValidFlags(f)
  BY FlagsAssumption
<1>2. f.replicas >= (IF f.tool = "scheduler" THEN 2 ELSE 1)
  BY <1>1 DEF ValidFlags
<1>3. QED
  BY <1>1, <1>2 DEF FlagType, ValidFlags

\* A step is what it was made of.
LEMMA DoFacts ==
  ASSUME NEW w, NEW n, NEW e
  PROVE  Do(w, n, e).do = w /\ Do(w, n, e).n = n /\ Do(w, n, e).onError = e
BY DEF Do

\* The cleanup of loadgen-scheduler and loadgen-k8s.
LEMMA CleanupOutline ==
  ASSUME NEW f, NEW a, NEW e,
         \/ f.tool = "scheduler" /\ e \in {"exit", "final"} /\ a \in {Known("calm"), Known("shrunk")}
         \/ f.tool \in {"k8s", "mesh"} /\ e \in {"exit", "final", "ignore"}
  PROVE  Leads(f, Cleanup(e), a, Known("clean"))
<1> DEFINE x == Do("delete", 0, e)
           y == Do("gone", 0, e)
<1>1. x \in Step /\ y \in Step
  BY DEF Do, Step
<1>2. x.do = "delete" /\ x.onError = e /\ y.do = "gone" /\ y.onError = e
  BY DoFacts
<1>3. Cleanup(e) = <<x, y>>
  BY DEF Cleanup
<1> HIDE DEF x, y
<1>4. Triple(f, a, x, Known("deleted")) /\ Triple(f, Known("deleted"), y, Known("clean"))
  BY <1>2 DEF Triple, SchedulerTriple, PlainTriple
<1>5. QED
  BY <1>1, <1>3, <1>4, LeadsTwo

\* A round of loadgen-scheduler.
LEMMA RoundOutline ==
  ASSUME NEW f \in Flags, f.tool = "scheduler"
  PROVE  Leads(f, SchedulerRound(f), Known("clean"), Known("shrunk"))
<1> DEFINE n == f.replicas
           c == Do("create", 1, "final")
           r == Do("ready", 1, "final")
           u == Do("update", n, "final")
           w == Do("ready", n, "final")
           p == Do("pick", 0, "final")
           k == Do("kill", 0, "final")
           v == Do("recovered", 0, "final")
           d == Do("update", 1, "final")
<1>1. n \in Nat /\ n >= 2
  BY FlagFacts
<1>2. /\ c \in Step /\ r \in Step /\ u \in Step /\ w \in Step /\ d \in Step
      /\ p \in Step /\ k \in Step /\ v \in Step
  BY <1>1 DEF Do, Step
<1>3. /\ c.do = "create" /\ c.n = 1 /\ c.onError = "final"
      /\ r.do = "ready" /\ r.n = 1 /\ r.onError = "final"
      /\ u.do = "update" /\ u.n = n /\ u.onError = "final"
      /\ w.do = "ready" /\ w.n = n /\ w.onError = "final"
      /\ p.do = "pick" /\ p.onError = "final"
      /\ k.do = "kill" /\ k.onError = "final"
      /\ v.do = "recovered" /\ v.onError = "final"
      /\ d.do = "update" /\ d.n = 1 /\ d.onError = "final"
  BY DoFacts
<1>4. /\ Rollout("create", 1, "final") = <<c, r>>
      /\ Rollout("update", n, "final") = <<u, w>>
      /\ Recover = <<p, k, v>>
      /\ Rollout("update", 1, "final") = <<d, r>>
  BY DEF Rollout, Recover
<1> HIDE DEF c, r, u, w, p, k, v, d, n
<1>5. Leads(f, <<c, r>>, Known("clean"), Full(1))
  <2>1. Triple(f, Known("clean"), c, Growing(1)) /\ Triple(f, Growing(1), r, Full(1))
    BY <1>3 DEF Triple, SchedulerTriple
  <2>2. QED
    BY <1>2, <2>1, LeadsTwo
<1>6. Leads(f, <<u, w>>, Full(1), Full(n))
  <2>1. Triple(f, Full(1), u, Growing(n)) /\ Triple(f, Growing(n), w, Full(n))
    BY <1>1, <1>3 DEF Triple, SchedulerTriple, n
  <2>2. QED
    BY <1>2, <2>1, LeadsTwo
<1>7. Leads(f, <<p, k, v>>, Full(n), Known("recovered"))
  <2>1. /\ Triple(f, Full(n), p, Known("picked"))
        /\ Triple(f, Known("picked"), k, Known("recovering"))
        /\ Triple(f, Known("recovering"), v, Known("recovered"))
    BY <1>3 DEF Triple, SchedulerTriple, n
  <2>2. QED
    BY <1>2, <2>1, LeadsThree
<1>8. Leads(f, <<d, r>>, Known("recovered"), Known("shrunk"))
  <2>1. /\ Triple(f, Known("recovered"), d, Known("shrinking"))
        /\ Triple(f, Known("shrinking"), r, Known("shrunk"))
    BY <1>3 DEF Triple, SchedulerTriple
  <2>2. QED
    BY <1>2, <2>1, LeadsTwo
<1>9. SchedulerRound(f) = ((<<c, r>> \o <<u, w>>) \o <<p, k, v>>) \o <<d, r>>
  BY <1>4 DEF SchedulerRound, n
<1>10. QED
  BY <1>5, <1>6, <1>7, <1>8, <1>9, LeadsBoth

\* The benchmark of loadgen-scheduler.
LEMMA SchedulerOutline ==
  ASSUME NEW f \in Flags, f.tool = "scheduler"
  PROVE  Leads(f, SchedulerMain(f), Known("calm"), Known("shrunk"))
<1> DEFINE R == SchedulerRound(f)
           C == Cleanup("final") \o R
           n == f.rounds - 1
<1>1. Leads(f, R, Known("clean"), Known("shrunk"))
  BY RoundOutline
<1>2. Leads(f, Cleanup("exit"), Known("calm"), Known("clean"))
  BY CleanupOutline
<1>3. Leads(f, Cleanup("final"), Known("shrunk"), Known("clean"))
  BY CleanupOutline
<1>4. Leads(f, C, Known("shrunk"), Known("shrunk"))
  BY <1>1, <1>3, LeadsBoth
<1>5. Len(C) > 0
  <2>1. Cleanup("final") \in Seq(Step) /\ R \in Seq(Step)
    BY <1>1, <1>3 DEF Leads
  <2>2. Len(Cleanup("final")) = 2 /\ Len(R) \in Nat
    BY <2>1 DEF Cleanup
  <2>3. QED
    BY <2>1, <2>2, ConcatProperties
<1>6. n \in Nat
  BY FlagFacts
<1>7. SchedulerMain(f) = (Cleanup("exit") \o R) \o Times(n, C)
  BY DEF SchedulerMain
<1> HIDE DEF R, C, n
<1>8. Leads(f, Times(n, C), Known("shrunk"), Known("shrunk"))
  BY <1>4, <1>5, <1>6, LeadsTimes
<1>9. QED
  BY <1>1, <1>2, <1>7, <1>8, LeadsBoth

\* A round of loadgen-k8s's deploy begins with a cleanup, whatever there was.
LEMMA DeployOutline ==
  ASSUME NEW f, NEW a, f.tool = "k8s"
  PROVE  Leads(f, DeployRound, a, Full(1)) /\ Len(DeployRound) > 0
<1> DEFINE x == Do("delete", 0, "ignore")
           y == Do("gone", 0, "final")
           c == Do("create", 1, "final")
           r == Do("ready", 1, "final")
<1>1. x \in Step /\ y \in Step /\ c \in Step /\ r \in Step
  BY DEF Do, Step
<1>2. /\ x.do = "delete" /\ x.onError = "ignore" /\ y.do = "gone" /\ y.onError = "final"
      /\ c.do = "create" /\ c.n = 1 /\ c.onError = "final"
      /\ r.do = "ready" /\ r.n = 1 /\ r.onError = "final"
  BY DoFacts
<1>3. DeployRound = <<x, y>> \o <<c, r>>
  BY DEF DeployRound, Rollout
<1> HIDE DEF x, y, c, r
<1>4. Triple(f, a, x, Known("deleted")) /\ Triple(f, Known("deleted"), y, Known("clean"))
  BY <1>2 DEF Triple, PlainTriple
<1>5. Triple(f, Known("clean"), c, Growing(1)) /\ Triple(f, Growing(1), r, Full(1))
  BY <1>2 DEF Triple, PlainTriple
<1>6. Leads(f, <<x, y>>, a, Known("clean")) /\ Leads(f, <<c, r>>, Known("clean"), Full(1))
  BY <1>1, <1>4, <1>5, LeadsTwo
<1>7. Len(<<x, y>>) = 2 /\ Len(<<c, r>>) = 2 /\ <<x, y>> \in Seq(Step) /\ <<c, r>> \in Seq(Step)
  BY <1>1
<1>8. QED
  BY <1>3, <1>6, <1>7, LeadsBoth, ConcatProperties

\* What loadgen-k8s scales to, one after the other, ends with one instance.
Scaled(f) == IF f.replicas = 1 THEN Full(1) ELSE Known("shrunk")

ScaleTail(f) ==
  [i \in 1 .. 2 * Len(ScaleSteps(f)) |->
     Do(IF i % 2 = 1 THEN "update" ELSE "ready", ScaleSteps(f)[(i + 1) \div 2], "final")]

\* The updates of a scale round and their waits.
LEMMA TailOutline ==
  ASSUME NEW f \in Flags, f.tool = "k8s"
  PROVE  Leads(f, ScaleTail(f), Full(1), Scaled(f))
<1> DEFINE n == f.replicas
           s == ScaleTail(f)
           u(m) == Do("update", m, "final")
           r(m) == Do("ready", m, "final")
<1>1. n \in Nat /\ n >= 1 /\ FirstStep \in Nat /\ FirstStep >= 1
  BY FlagFacts, FirstStepAssumption
<1>2. ASSUME NEW m \in Nat, m >= 1
      PROVE  /\ u(m) \in Step /\ u(m).do = "update" /\ u(m).n = m /\ u(m).onError = "final"
             /\ r(m) \in Step /\ r(m).do = "ready" /\ r(m).n = m /\ r(m).onError = "final"
  BY <1>2 DEF Do, Step
<1> HIDE DEF u, r
<1>3. ASSUME NEW m \in Nat, NEW k \in Nat, 1 <= m, m <= k
      PROVE  Leads(f, <<u(k), r(k)>>, Full(m), Full(k))
  <2>1. Full(m)[1] = "full" /\ Full(m)[2] = m
    BY DEF Full
  <2>2. k >= 1
    BY <1>3
  <2>3. PlainTriple(f, Full(m), u(k), Growing(k))
    BY <1>2, <1>3, <2>1, <2>2 DEF PlainTriple
  <2>4. PlainTriple(f, Growing(k), r(k), Full(k))
    BY <1>2, <2>2 DEF PlainTriple
  <2>5. QED
    BY <1>2, <2>2, <2>3, <2>4, LeadsTwo DEF Triple
<1>4. Leads(f, <<u(1), r(1)>>, Full(n), Scaled(f))
  <2>1. CASE n = 1
    BY <2>1, <1>3 DEF Scaled
  <2>2. CASE n > 1
    <3>1. Full(n)[1] = "full" /\ Full(n)[2] = n /\ Scaled(f) = Known("shrunk")
      BY <2>2 DEF Full, Scaled
    <3>2. PlainTriple(f, Full(n), u(1), Known("shrinking"))
      BY <1>2, <2>2, <3>1 DEF PlainTriple
    <3>3. PlainTriple(f, Known("shrinking"), r(1), Known("shrunk"))
      BY <1>2 DEF PlainTriple
    <3>4. QED
      BY <1>2, <3>1, <3>2, <3>3, LeadsTwo DEF Triple
  <2>3. QED
    BY <1>1, <2>1, <2>2
<1>5. CASE n <= FirstStep
  <2>1. ScaleSteps(f) = <<n, 1>>
    BY <1>5 DEF ScaleSteps
  <2>2. s = [i \in 1 .. 4 |-> Do(IF i % 2 = 1 THEN "update" ELSE "ready", <<n, 1>>[(i + 1) \div 2], "final")]
    BY <2>1 DEF ScaleTail
  <2>3. s \in Seq(Step) /\ Len(s) = 4 /\ s[1] = u(n) /\ s[2] = r(n) /\ s[3] = u(1) /\ s[4] = r(1)
    <3>1. s[1] = u(n) /\ s[2] = r(n) /\ s[3] = u(1) /\ s[4] = r(1)
      BY <2>2 DEF u, r
    <3>2. \A i \in 1 .. 4 : s[i] \in Step
      BY <1>1, <1>2, <3>1
    <3>3. QED
      BY <2>2, <3>1, <3>2
  <2> HIDE DEF s
  <2>4. s = <<u(n), r(n)>> \o <<u(1), r(1)>>
    <3> DEFINE x == <<u(n), r(n)>>
               y == <<u(1), r(1)>>
    <3>1. /\ x \in Seq(Step) /\ Len(x) = 2 /\ x[1] = u(n) /\ x[2] = r(n)
          /\ y \in Seq(Step) /\ Len(y) = 2 /\ y[1] = u(1) /\ y[2] = r(1)
      BY <1>1, <1>2
    <3> HIDE DEF x, y
    <3> DEFINE w == x \o y
    <3>2. /\ w \in Seq(Step) /\ Len(w) = Len(x) + Len(y)
          /\ \A i \in 1 .. Len(x) + Len(y) : w[i] = IF i <= Len(x) THEN x[i] ELSE y[i - Len(x)]
      BY <3>1, ConcatProperties
    <3> HIDE DEF w
    <3>3. Len(w) = 4 /\ w[1] = u(n) /\ w[2] = r(n) /\ w[3] = u(1) /\ w[4] = r(1)
      BY <3>1, <3>2
    <3>4. \A i \in 1 .. 4 : w[i] = s[i]
      BY <2>3, <3>3
    <3>5. w = s
      BY <2>3, <3>2, <3>3, <3>4, SeqEqual
    <3>6. QED
      BY <3>5 DEF w, x, y
  <2>5. Leads(f, <<u(n), r(n)>>, Full(1), Full(n))
    BY <1>1, <1>3
  <2>6. QED
    BY <1>4, <2>4, <2>5, LeadsBoth DEF s
<1>6. CASE n > FirstStep
  <2> DEFINE m == FirstStep
  <2>1. ScaleSteps(f) = <<m, n, 1>>
    BY <1>1, <1>6 DEF ScaleSteps
  <2>2. s = [i \in 1 .. 6 |-> Do(IF i % 2 = 1 THEN "update" ELSE "ready", <<m, n, 1>>[(i + 1) \div 2], "final")]
    BY <2>1 DEF ScaleTail
  <2>3. /\ s \in Seq(Step) /\ Len(s) = 6
        /\ s[1] = u(m) /\ s[2] = r(m) /\ s[3] = u(n) /\ s[4] = r(n) /\ s[5] = u(1) /\ s[6] = r(1)
    <3>1. s[1] = u(m) /\ s[2] = r(m) /\ s[3] = u(n) /\ s[4] = r(n) /\ s[5] = u(1) /\ s[6] = r(1)
      BY <2>2 DEF u, r
    <3>2. \A i \in 1 .. 6 : s[i] \in Step
      <4>1. u(m) \in Step /\ r(m) \in Step /\ u(n) \in Step /\ r(n) \in Step
        BY <1>1, <1>2
      <4>2. u(1) \in Step /\ r(1) \in Step
        BY <1>2
      <4>3. /\ s[1] \in Step /\ s[2] \in Step /\ s[3] \in Step
            /\ s[4] \in Step /\ s[5] \in Step /\ s[6] \in Step
        BY <3>1, <4>1, <4>2
      <4> HIDE DEF s
      <4>4. QED
        BY <4>3
    <3>3. QED
      BY <2>2, <3>1, <3>2
  <2> HIDE DEF s, m
  <2>4. s = (<<u(m), r(m)>> \o <<u(n), r(n)>>) \o <<u(1), r(1)>>
    <3> DEFINE x == <<u(m), r(m)>>
               y == <<u(n), r(n)>>
               z == <<u(1), r(1)>>
    <3>1. /\ x \in Seq(Step) /\ Len(x) = 2 /\ x[1] = u(m) /\ x[2] = r(m)
          /\ y \in Seq(Step) /\ Len(y) = 2 /\ y[1] = u(n) /\ y[2] = r(n)
          /\ z \in Seq(Step) /\ Len(z) = 2 /\ z[1] = u(1) /\ z[2] = r(1)
      BY <1>1, <1>2 DEF m
    <3> HIDE DEF x, y, z
    <3> DEFINE v == x \o y
               w == v \o z
    <3>2. /\ v \in Seq(Step) /\ Len(v) = Len(x) + Len(y)
          /\ \A i \in 1 .. Len(x) + Len(y) : v[i] = IF i <= Len(x) THEN x[i] ELSE y[i - Len(x)]
      BY <3>1, ConcatProperties
    <3> HIDE DEF v
    <3>3. Len(v) = 4 /\ v[1] = u(m) /\ v[2] = r(m) /\ v[3] = u(n) /\ v[4] = r(n)
      BY <3>1, <3>2
    <3>4. /\ w \in Seq(Step) /\ Len(w) = Len(v) + Len(z)
          /\ \A i \in 1 .. Len(v) + Len(z) : w[i] = IF i <= Len(v) THEN v[i] ELSE z[i - Len(v)]
      <4>1. v \in Seq(Step) /\ z \in Seq(Step)
        BY <3>1, <3>2
      <4>2. QED
        BY <4>1, ConcatProperties
    <3> HIDE DEF w
    <3>5. /\ Len(w) = 6 /\ w[1] = u(m) /\ w[2] = r(m) /\ w[3] = u(n) /\ w[4] = r(n)
          /\ w[5] = u(1) /\ w[6] = r(1)
      BY <3>1, <3>3, <3>4
    <3>6. \A i \in 1 .. 6 : w[i] = s[i]
      BY <2>3, <3>5
    <3>7. w = s
      BY <2>3, <3>4, <3>5, <3>6, SeqEqual
    <3>8. QED
      BY <3>7 DEF v, w, x, y, z
  <2>5. Leads(f, <<u(m), r(m)>>, Full(1), Full(m))
    BY <1>1, <1>3 DEF m
  <2>6. Leads(f, <<u(n), r(n)>>, Full(m), Full(n))
    BY <1>1, <1>3, <1>6 DEF m
  <2>7. QED
    BY <1>4, <2>4, <2>5, <2>6, LeadsBoth DEF s
<1>7. QED
  BY <1>1, <1>5, <1>6

\* A round of loadgen-k8s's scale.
LEMMA ScaleOutline ==
  ASSUME NEW f \in Flags, NEW a, f.tool = "k8s"
  PROVE  Leads(f, ScaleRound(f), a, Scaled(f)) /\ Len(ScaleRound(f)) > 0
<1> DEFINE x == Cleanup("ignore")
           y == <<Do("create", 1, "final"), Do("ready", 1, "final")>>
           z == ScaleTail(f)
<1>1. Leads(f, x, a, Known("clean"))
  BY CleanupOutline
<1>2. Leads(f, y, Known("clean"), Full(1))
  <2> DEFINE c == Do("create", 1, "final")
             r == Do("ready", 1, "final")
  <2>1. c \in Step /\ r \in Step
    BY DEF Do, Step
  <2>2. /\ c.do = "create" /\ c.n = 1 /\ c.onError = "final"
        /\ r.do = "ready" /\ r.n = 1 /\ r.onError = "final"
    BY DoFacts
  <2> HIDE DEF c, r
  <2>3. Triple(f, Known("clean"), c, Growing(1)) /\ Triple(f, Growing(1), r, Full(1))
    BY <2>2 DEF Triple, PlainTriple
  <2>4. Leads(f, <<c, r>>, Known("clean"), Full(1))
    BY <2>1, <2>3, LeadsTwo
  <2>5. QED
    BY <2>4 DEF c, r
<1>3. Leads(f, z, Full(1), Scaled(f))
  BY TailOutline
<1>4. ScaleRound(f) = (x \o y) \o z
  BY DEF ScaleRound, Rollout, ScaleTail
<1>5. Len(x) = 2
  BY DEF Cleanup
<1> HIDE DEF x, y, z
<1>6. Leads(f, ScaleRound(f), a, Scaled(f))
  BY <1>1, <1>2, <1>3, <1>4, LeadsBoth
<1>7. x \in Seq(Step) /\ y \in Seq(Step) /\ z \in Seq(Step)
  BY <1>1, <1>2, <1>3 DEF Leads
<1>8. x \o y \in Seq(Step) /\ Len(x \o y) = Len(x) + Len(y)
  BY <1>7, ConcatProperties
<1>9. Len(ScaleRound(f)) = (Len(x) + Len(y)) + Len(z)
  BY <1>4, <1>7, <1>8, ConcatProperties
<1>10. Len(ScaleRound(f)) > 0
  BY <1>5, <1>7, <1>9
<1>11. QED
  BY <1>6, <1>10

\* loadgen-k8s.
LEMMA K8sOutline ==
  ASSUME NEW f \in Flags, f.tool = "k8s"
  PROVE  Leads(f, K8sMain(f), Known("any"), Known("clean"))
<1> DEFINE m == <<Do("namespace", 0, "exit")>>
           d == Times(f.rounds, DeployRound)
           c == Cleanup("ignore")
           s == Times(f.rounds, ScaleRound(f))
<1>1. Leads(f, m, Known("any"), Known("any"))
  <2> DEFINE x == Do("namespace", 0, "exit")
  <2>1. x \in Step /\ x.do = "namespace" /\ x.onError = "exit"
    BY DEF Do, Step
  <2> HIDE DEF x
  <2>2. Triple(f, Known("any"), x, Known("any"))
    BY <2>1 DEF Triple, PlainTriple
  <2>3. Leads(f, <<x>>, Known("any"), Known("any"))
    BY <2>1, <2>2, LeadsOne
  <2>4. QED
    BY <2>3 DEF x
<1>2. f.rounds \in Nat /\ f.rounds > 0
  BY FlagFacts
<1>3. Leads(f, d, Known("any"), Full(1))
  BY <1>2, DeployOutline, LeadsTimes
<1>4. Leads(f, c, Full(1), Known("clean")) /\ Leads(f, c, Scaled(f), Known("clean"))
  BY CleanupOutline
<1>5. Leads(f, s, Known("clean"), Scaled(f))
  BY <1>2, ScaleOutline, LeadsTimes
<1>6. K8sMain(f) = (((m \o d) \o c) \o s) \o c
  BY DEF K8sMain
<1> HIDE DEF m, d, c, s
<1>7. Leads(f, m \o d, Known("any"), Full(1))
  BY <1>1, <1>3, LeadsBoth
<1>8. Leads(f, (m \o d) \o c, Known("any"), Known("clean"))
  BY <1>4, <1>7, LeadsBoth
<1>9. Leads(f, ((m \o d) \o c) \o s, Known("any"), Scaled(f))
  BY <1>5, <1>8, LeadsBoth
<1>10. QED
  BY <1>4, <1>6, <1>9, LeadsBoth

\* loadgen-mesh.
LEMMA MeshOutline ==
  ASSUME NEW f \in Flags, f.tool = "mesh"
  PROVE  Leads(f, MeshMain(f), Known("any"), Full(f.replicas))
<1> DEFINE n == f.replicas
           m == Do("namespace", 0, "exit")
           x == Do("delete", 0, "ignore")
           y == Do("gone", 0, "exit")
           c == Do("create", n, "exit")
           r == Do("ready", n, "exit")
           e == Do("ensure", 1, "exit")
           w == Do("ready", 1, "exit")
           R == InjectRound(f)
<1>1. n \in Nat /\ n >= 1 /\ f.rounds \in Nat /\ f.rounds > 0
  BY FlagFacts
<1>2. /\ m \in Step /\ x \in Step /\ y \in Step /\ c \in Step /\ r \in Step
      /\ e \in Step /\ w \in Step
  BY <1>1 DEF Do, Step
<1>3. /\ m.do = "namespace" /\ m.onError = "exit"
      /\ x.do = "delete" /\ x.onError = "ignore"
      /\ y.do = "gone" /\ y.onError = "exit"
      /\ c.do = "create" /\ c.n = n /\ c.onError = "exit"
      /\ r.do = "ready" /\ r.n = n /\ r.onError = "exit"
      /\ e.do = "ensure" /\ e.n = 1 /\ e.onError = "exit"
      /\ w.do = "ready" /\ w.n = 1 /\ w.onError = "exit"
  BY DoFacts
<1>4. R = <<x, y>> \o <<c, r>>
  BY DEF InjectRound, Rollout
<1>5. MeshMain(f) = ((<<m>> \o Times(f.rounds, R)) \o <<m>>) \o <<e, w>>
  BY DEF MeshMain, Rollout
<1> HIDE DEF m, x, y, c, r, e, w, R
<1>6. ASSUME NEW a PROVE Leads(f, R, a, Full(n))
  <2>1. Triple(f, a, x, Known("deleted")) /\ Triple(f, Known("deleted"), y, Known("clean"))
    BY <1>3 DEF Triple, PlainTriple
  <2>2. Triple(f, Known("clean"), c, Growing(n)) /\ Triple(f, Growing(n), r, Full(n))
    BY <1>1, <1>3 DEF Triple, PlainTriple
  <2>3. Leads(f, <<x, y>>, a, Known("clean")) /\ Leads(f, <<c, r>>, Known("clean"), Full(n))
    BY <1>2, <2>1, <2>2, LeadsTwo
  <2>4. QED
    BY <1>4, <2>3, LeadsBoth
<1>7. Len(R) > 0
  <2>1. Len(<<x, y>>) = 2 /\ Len(<<c, r>>) = 2 /\ <<x, y>> \in Seq(Step) /\ <<c, r>> \in Seq(Step)
    BY <1>2
  <2>2. QED
    BY <1>4, <2>1, ConcatProperties
<1>8. Leads(f, Times(f.rounds, R), Known("any"), Full(n))
  BY <1>1, <1>6, <1>7, LeadsTimes
<1>9. Leads(f, <<m>>, Known("any"), Known("any")) /\ Leads(f, <<m>>, Full(n), Full(n))
  <2>1. Triple(f, Known("any"), m, Known("any")) /\ Triple(f, Full(n), m, Full(n))
    BY <1>3 DEF Triple, PlainTriple
  <2>2. QED
    BY <1>2, <2>1, LeadsOne
<1>10. Leads(f, <<e, w>>, Full(n), Full(n))
  <2>1. Triple(f, Full(n), e, Full(n)) /\ Triple(f, Full(n), w, Full(n))
    BY <1>1, <1>3 DEF Triple, PlainTriple
  <2>2. QED
    BY <1>2, <2>1, LeadsTwo
<1>11. QED
  BY <1>5, <1>8, <1>9, <1>10, LeadsBoth

\* loadgen-gitops.
LEMMA GitOpsOutline ==
  ASSUME NEW f \in Flags, f.tool = "gitops"
  PROVE  Leads(f, GitOpsMain(f), Known("any"), Known("there"))
<1> DEFINE m == Do("namespace", 0, "exit")
           p == Do("push", 0, "exit")
           e == Do("elsewhere", 0, "exit")
           b == IF f.name = "anchor" THEN p ELSE e
           d == Do("delete", 0, "exit")
           w == Await(f)
           s == Setup(f)
           k == IF f.workload = "deployment" THEN 1 ELSE 0
<1>1. k \in Nat /\ f.rounds \in Nat /\ f.rounds > 0
  BY FlagFacts
<1>2. m \in Step /\ p \in Step /\ e \in Step /\ d \in Step /\ w \in Step
  BY <1>1 DEF Do, Step, Await
<1>3. /\ m.do = "namespace" /\ m.onError = "exit"
      /\ p.do = "push" /\ p.onError = "exit"
      /\ e.do = "elsewhere" /\ e.onError = "exit"
      /\ d.do = "delete" /\ d.onError = "exit"
      /\ w.do = "ready" /\ w.onError = "exit" /\ w.n = k
  BY DoFacts DEF Await
<1>4. s = <<m, b>>
  BY DEF Setup
<1>5. ReconcileRound(f) = <<w, d, w>> /\ PushedName(f) = <<p, e, w>>
  BY DEF ReconcileRound, PushedName
<1>6. GitOpsMain(f) =
        ((s \o s) \o <<e>>)
          \o (IF f.name = "anchor" THEN Times(f.rounds, ReconcileRound(f)) ELSE PushedName(f))
  BY DEF GitOpsMain
<1> HIDE DEF m, p, e, d, w, s
<1>7. /\ Triple(f, Known("any"), m, Known("any"))
      /\ Triple(f, Known("any"), p, Known("any"))
      /\ Triple(f, Known("any"), e, Known("any"))
      /\ Triple(f, Known("there"), d, Known("any"))
  BY <1>3 DEF Triple, GitOpsTriple
<1>8. \A a : Triple(f, a, w, Known("there"))
  BY <1>3 DEF Triple, GitOpsTriple
<1>9. b \in Step /\ Triple(f, Known("any"), b, Known("any"))
  BY <1>2, <1>7
<1> HIDE DEF b, k
<1>10. Leads(f, s, Known("any"), Known("any"))
  BY <1>2, <1>4, <1>7, <1>9, LeadsTwo
<1>11. Leads(f, <<e>>, Known("any"), Known("any"))
  BY <1>2, <1>7, LeadsOne
<1>12. Leads(f, (s \o s) \o <<e>>, Known("any"), Known("any"))
  BY <1>10, <1>11, LeadsBoth
<1>13. ASSUME NEW a PROVE Leads(f, ReconcileRound(f), a, Known("there"))
  BY <1>2, <1>5, <1>7, <1>8, LeadsThree
<1>14. Leads(f, PushedName(f), Known("any"), Known("there"))
  BY <1>2, <1>5, <1>7, <1>8, LeadsThree
<1>15. Len(ReconcileRound(f)) > 0
  BY <1>5
<1>16. Leads(f, Times(f.rounds, ReconcileRound(f)), Known("any"), Known("there"))
  BY <1>1, <1>13, <1>15, LeadsTimes
<1>17. QED
  BY <1>6, <1>12, <1>14, <1>16, LeadsBoth

\* The last cleanup.
LEMMA FinalFacts ==
  ASSUME NEW f \in Flags
  PROVE  /\ Final(f) \in Seq(Step)
         /\ f.tool = "scheduler" /\ ~f.keep =>
              Final(f) = <<Do("delete", 0, "skip"), Do("gone", 0, "ignore")>>
         /\ f.tool = "k8s" /\ ~f.keep => Final(f) = <<Do("deleteNamespace", 0, "ignore")>>
         /\ f.tool \in {"mesh", "gitops"} \/ f.keep => Final(f) = <<>>
<1>1. /\ f.tool = "scheduler" => Final(f) = SchedulerFinal(f)
      /\ f.tool = "k8s" => Final(f) = K8sFinal(f)
      /\ f.tool \in {"mesh", "gitops"} => Final(f) = <<>>
  BY DEF Final
<1>2. f.tool \in {"scheduler", "k8s", "mesh", "gitops"}
  BY FlagFacts
<1>3. /\ Do("delete", 0, "skip") \in Step /\ Do("gone", 0, "ignore") \in Step
      /\ Do("deleteNamespace", 0, "ignore") \in Step
  BY DEF Do, Step
<1>4. /\ <<Do("delete", 0, "skip"), Do("gone", 0, "ignore")>> \in Seq(Step)
      /\ <<Do("deleteNamespace", 0, "ignore")>> \in Seq(Step)
      /\ <<>> \in Seq(Step)
  <2> DEFINE x == Do("delete", 0, "skip")
             y == Do("gone", 0, "ignore")
             z == Do("deleteNamespace", 0, "ignore")
  <2>1. x \in Step /\ y \in Step /\ z \in Step
    BY <1>3
  <2> HIDE DEF x, y, z
  <2>2. <<x, y>> \in Seq(Step) /\ <<z>> \in Seq(Step)
    BY <2>1
  <2>3. <<>> \in Seq(Step)
    BY EmptySeq
  <2>4. QED
    BY <2>2, <2>3 DEF x, y, z
<1>5. QED
  BY <1>1, <1>2, <1>4 DEF SchedulerFinal, K8sFinal

Beginning(f) == IF f.tool = "scheduler" THEN Known("calm") ELSE Known("any")

\* Every script has an outline.
LEMMA MainOutline ==
  ASSUME NEW f \in Flags
  PROVE  \E b : Leads(f, Main(f), Beginning(f), b)
<1>1. /\ f.tool = "scheduler" => Main(f) = SchedulerMain(f)
      /\ f.tool = "k8s" => Main(f) = K8sMain(f)
      /\ f.tool = "mesh" => Main(f) = MeshMain(f)
      /\ f.tool = "gitops" => Main(f) = GitOpsMain(f)
  BY DEF Main
<1>2. f.tool \in {"scheduler", "k8s", "mesh", "gitops"}
  BY FlagFacts
<1>3. CASE f.tool = "scheduler"
  BY <1>1, <1>3, SchedulerOutline DEF Beginning
<1>4. CASE f.tool = "k8s"
  BY <1>1, <1>4, K8sOutline DEF Beginning
<1>5. CASE f.tool = "mesh"
  BY <1>1, <1>5, MeshOutline DEF Beginning
<1>6. CASE f.tool = "gitops"
  BY <1>1, <1>6, GitOpsOutline DEF Beginning
<1>7. QED
  BY <1>2, <1>3, <1>4, <1>5, <1>6

Outline(f) == CHOOSE l : \E b : Outlines(l, f, Main(f), Beginning(f), b)

\* What is known at the program's place in its script.
Here == Outline(flags)[at]

\* The outline of the script that is run, and what comes after it.
LEMMA ScriptFacts ==
  ASSUME NEW f \in Flags
  PROVE  /\ MainEnd[f] \in Nat /\ Len(Scripts[f]) \in Nat /\ Scripts[f] \in Seq(Step)
         /\ Len(Scripts[f]) = MainEnd[f] + Len(Final(f))
         /\ Outline(f)[1] = Beginning(f)
         /\ \A i \in 1 .. MainEnd[f] : Triple(f, Outline(f)[i], Scripts[f][i], Outline(f)[i + 1])
         /\ \A i \in 1 .. Len(Final(f)) : Scripts[f][MainEnd[f] + i] = Final(f)[i]
<1> DEFINE m == Main(f)
           e == Final(f)
           l == Outline(f)
           s == Scripts[f]
<1>1. PICK b : Leads(f, m, Beginning(f), b)
  BY MainOutline
<1>2. m \in Seq(Step) /\ \E k : Outlines(k, f, m, Beginning(f), b)
  BY <1>1 DEF Leads
<1>3. \E c : Outlines(l, f, m, Beginning(f), c)
  BY <1>2 DEF Outline
<1>4. e \in Seq(Step)
  BY FinalFacts
<1>5. s = m \o e /\ MainEnd[f] = Len(m)
  BY DEF Scripts, MainEnd
<1>6. /\ l[1] = Beginning(f)
      /\ \A i \in 1 .. Len(m) : Triple(f, l[i], m[i], l[i + 1])
  BY <1>3 DEF Outlines
<1> HIDE DEF m, e, l, s
<1>7. /\ s \in Seq(Step) /\ Len(s) = Len(m) + Len(e)
      /\ \A i \in 1 .. Len(m) + Len(e) : s[i] = IF i <= Len(m) THEN m[i] ELSE e[i - Len(m)]
  BY <1>2, <1>4, <1>5, ConcatProperties
<1>8. Len(m) \in Nat /\ Len(e) \in Nat
  BY <1>2, <1>4
<1>9. \A i \in 1 .. Len(m) : s[i] = m[i]
  BY <1>7, <1>8
<1>10. \A i \in 1 .. Len(e) : s[Len(m) + i] = e[i]
  <2> TAKE i \in 1 .. Len(e)
  <2>1. Len(m) + i \in 1 .. Len(m) + Len(e) /\ ~(Len(m) + i <= Len(m)) /\ (Len(m) + i) - Len(m) = i
    BY <1>8
  <2>2. QED
    BY <1>7, <2>1
<1>11. \A i \in 1 .. Len(m) : Triple(f, l[i], s[i], l[i + 1])
  BY <1>6, <1>9
<1>12. /\ MainEnd[f] \in Nat /\ Len(s) \in Nat /\ s \in Seq(Step)
       /\ Len(s) = MainEnd[f] + Len(e)
       /\ l[1] = Beginning(f)
       /\ \A i \in 1 .. MainEnd[f] : Triple(f, l[i], s[i], l[i + 1])
       /\ \A i \in 1 .. Len(e) : s[MainEnd[f] + i] = e[i]
  BY <1>5, <1>6, <1>7, <1>8, <1>10, <1>11
<1>13. QED
  BY <1>12 DEF e, l, s

-----------------------------------------------------------------------------
(* The assertions.                                                         *)

OnK8s  == platform = "kubernetes"
Unhurt == {"absent", "pending", "running"}

\* The waits that count what they list do not look whose it is.
NoStrangers ==
  IsScheduler /\ platform # "swarm" => \A i \in Ids : state[i] # "absent" => Current(i)

Wanted(n) ==
  /\ job.exists /\ ~job.going /\ job.want = n
  /\ namespace = "active"
  /\ NoStrangers

\* Instances are added only, and both copies of their number are behind it.
IsGrowing(n) ==
  /\ Wanted(n)
  /\ IsScheduler => replicas = n
  /\ \A i \in Ids : Current(i) => state[i] \in Unhurt
  /\ Cardinality(Active) <= n
  /\ OnK8s =>
       /\ Cardinality(Active) <= replicaSet.want /\ replicaSet.want <= n
       /\ status.updated <= replicaSet.replicas /\ replicaSet.replicas <= Cardinality(Active)
       /\ status.ready <= replicaSet.ready /\ replicaSet.ready <= Cardinality(Serving)

IsFull(n) ==
  /\ IsGrowing(n)
  /\ Cardinality(Serving) >= n
  /\ OnK8s => replicaSet.replicas >= n

IsPicked(r) == IsFull(r) /\ victim \in Serving

\* One instance is gone or going, and the ReplicaSet can have missed only that one.
IsRecovering(r) ==
  /\ Wanted(r) /\ replicas = r
  /\ victim \in Ids /\ killed = victim
  /\ \A i \in Ids : Current(i) /\ i # victim => state[i] \in Unhurt
  /\ state[victim] \in {"absent", "condemned", "dead"}
  /\ Cardinality(Active) <= r
  /\ OnK8s => /\ Cardinality(Active) >= r - 1
              /\ replicaSet.want = r
              /\ replicaSet.replicas >= r - 1

IsRecovered(r) ==
  /\ Wanted(r)
  /\ Active = Serving /\ Cardinality(Active) = r
  /\ victim \notin Serving /\ killed = victim
  /\ OnK8s => replicaSet.want = r /\ replicaSet.replicas >= r - 1

\* A status that says 1 has been taken after the scale-down: with three replicas or
\* more it cannot be one of the recovery before.
Telling(r) ==
  IsScheduler /\ OnK8s /\ r > 2 =>
    /\ replicaSet.replicas <= 1 => Cardinality(Active) = 1
    /\ status.gen >= job.gen /\ status.updated <= 1 => Cardinality(Active) = 1

IsShrinking(r) ==
  /\ Wanted(1)
  /\ Active = Serving /\ Cardinality(Active) >= 1
  /\ OnK8s => replicaSet.want >= 1 /\ Cardinality(Active) >= replicaSet.want
  /\ Telling(r)

IsShrunk(r) ==
  /\ IsShrinking(r)
  /\ IsScheduler => Cardinality(Active) = 1 \/ (OnK8s /\ r = 2)

IsEmpty ==
  /\ flags.tool # "gitops" /\ ~job.exists
  /\ \A i \in Ids : state[i] = "absent"

IsDeleted ==
  /\ flags.tool # "gitops"
  /\ ~job.exists \/ job.going
  /\ IsScheduler /\ platform # "swarm" => \A i \in Ids : state[i] # "pending"

IsClean ==
  /\ IsDeleted
  /\ Counted = {}
  /\ ~IsScheduler => Listed = {}

IsThere ==
  /\ flags.tool = "gitops" /\ job.exists
  /\ flags.workload = "deployment" => Cardinality(Serving) >= 1

Holds(p, r) ==
  /\ p[1] = "calm"       => IsEmpty \/ IsShrinking(r)
  /\ p[1] = "deleted"    => (errors = {} => IsDeleted)
  /\ p[1] = "clean"      => (errors = {} => IsClean)
  /\ p[1] = "growing"    => IsGrowing(p[2])
  /\ p[1] = "full"       => IsFull(p[2])
  /\ p[1] = "picked"     => IsPicked(r)
  /\ p[1] = "recovering" => IsRecovering(r)
  /\ p[1] = "recovered"  => IsRecovered(r)
  /\ p[1] = "shrinking"  => IsShrinking(r)
  /\ p[1] = "shrunk"     => IsShrunk(r)
  /\ p[1] = "there"      => Leftover \/ IsThere

\* What is true at any place.
Basics ==
  /\ platform = flags.platform
  /\ \A i \in Ids : /\ owner[i] <= job.id
                    /\ platform # "nomad" => state[i] # "condemned"
                    /\ platform # "swarm" => state[i] # "dead"
  /\ status.gen <= job.gen
  /\ job.going => IsScheduler /\ OnK8s
  /\ manifest # "none" => flags.tool = "gitops"
  /\ IsScheduler => namespace = "active"
  /\ flags.tool = "gitops" => namespace # "terminating"
  /\ "ignored" \in errors => flags.tool \in {"k8s", "mesh"}

\* Whatever has gone wrong so far was ignored.
Healthy == at <= MainEnd[flags] + 1 /\ errors \subseteq {"ignored"}

\* A Deployment that the controller makes from the repository only grows.
Applied ==
  flags.tool = "gitops" /\ flags.workload = "deployment" /\ job.exists => IsGrowing(1)

Numbered ==
  flags.tool = "gitops" /\ ~Leftover /\ Healthy =>
    job.id = Deletions + (IF flags.left THEN 1 ELSE 2) - (IF job.exists THEN 0 ELSE 1)

\* The last cleanup.
Ended ==
  at > MainEnd[flags] + 1 /\ ~flags.keep /\ errors \subseteq {"ignored", "bench"} =>
    /\ IsScheduler => ~job.exists \/ job.going
    /\ flags.tool = "k8s" => namespace # "active"

Outlined == Healthy => \A p, r : p = Here /\ r = flags.replicas => Holds(p, r)

IInv == TypeOK /\ Basics /\ Outlined /\ Applied /\ Numbered /\ Ended

-----------------------------------------------------------------------------
(* The instances.                                                          *)

\* The parts of the types that the steps below use.
LEMMA Parts ==
  ASSUME TypeOK
  PROVE  /\ job.id \in Nat /\ job.want \in Nat /\ job.gen \in Nat
         /\ job.exists \in BOOLEAN /\ job.going \in BOOLEAN
         /\ replicaSet.want \in Nat
         /\ replicaSet.replicas \in Nat /\ replicaSet.ready \in Nat
         /\ status.gen \in Nat /\ status.ready \in Nat /\ status.updated \in Nat
         /\ status.unavailable \in Nat
         /\ state \in [Ids -> InstanceStates] /\ owner \in [Ids -> Nat]
         /\ \A i \in Ids : state[i] \in InstanceStates /\ owner[i] \in Nat
         /\ flags \in Flags
BY DEF TypeOK, ClusterTypeOK

\* Sets of instances are finite.
LEMMA Counting ==
  /\ IsFiniteSet(Ids)
  /\ Cardinality(Active) \in Nat /\ Cardinality(Serving) \in Nat
  /\ Serving \subseteq Active /\ Active \subseteq Ids
  /\ IsFiniteSet(Active) /\ IsFiniteSet(Serving)
  /\ Cardinality(Serving) <= Cardinality(Active)
  /\ Cardinality(Active) <= MaxInstances
  /\ Cardinality(Serving) = Cardinality(Active) => Serving = Active
<1>1. 1 \in Int /\ MaxInstances \in Int /\ MaxInstances >= 1
  BY MaxInstancesAssumption
<1>2. IsFiniteSet(Ids) /\ Cardinality(Ids) = MaxInstances
  BY <1>1, FS_Interval DEF Ids
<1>3. Serving \subseteq Active /\ Active \subseteq Ids
  BY DEF Serving, Active
<1>4. IsFiniteSet(Active) /\ Cardinality(Active) <= MaxInstances
  BY <1>2, <1>3, FS_Subset
<1>5. IsFiniteSet(Serving) /\ Cardinality(Serving) <= Cardinality(Active)
      /\ (Cardinality(Active) = Cardinality(Serving) => Active = Serving)
  BY <1>3, <1>4, FS_Subset
<1>6. QED
  BY <1>2, <1>3, <1>4, <1>5, FS_CardinalityType

\* The same in the next state.
LEMMA CountingNext ==
  /\ (Cardinality(Active) \in Nat)' /\ (Cardinality(Serving) \in Nat)'
  /\ (Serving \subseteq Active)' /\ (Active \subseteq Ids)'
  /\ (Cardinality(Serving) <= Cardinality(Active))'
  /\ (Cardinality(Active) <= MaxInstances)'
BY Counting, PTL

\* What depends on job, states and owners only.
LEMMA SameSets ==
  ASSUME UNCHANGED <<job, state, owner>>
  PROVE  /\ Active' = Active /\ Serving' = Serving
         /\ \A i \in Ids : Current(i)' = Current(i)
BY DEF Active, Serving, Current

\* A new instance.
LEMMA SpawnSets ==
  ASSUME TypeOK, NEW i \in Ids, Spawn(i)
  PROVE  /\ Active' = Active \union {i} /\ i \notin Active /\ Serving' = Serving
         /\ Cardinality(Active)' = Cardinality(Active) + 1
         /\ \A j \in Ids : j # i => state'[j] = state[j] /\ Current(j)' = Current(j)
         /\ state'[i] = "pending" /\ Current(i)'
<1>1. /\ state' = [state EXCEPT ![i] = "pending"] /\ owner' = [owner EXCEPT ![i] = job.id]
      /\ job' = job /\ job.exists /\ state[i] = "absent"
  BY DEF Spawn
<1>2. /\ \A j \in Ids : j # i => state'[j] = state[j] /\ owner'[j] = owner[j]
      /\ state'[i] = "pending" /\ owner'[i] = job.id
  BY <1>1, Parts
<1>3. /\ Active' = Active \union {i} /\ i \notin Active /\ Serving' = Serving
      /\ \A j \in Ids : j # i => Current(j)' = Current(j)
      /\ Current(i)'
  BY <1>1, <1>2 DEF Active, Serving, Current
<1>4. Cardinality(Active \union {i}) = Cardinality(Active) + 1
  BY <1>3, Counting, FS_AddElement
<1>5. QED
  BY <1>2, <1>3, <1>4

\* An instance becomes healthy.
LEMMA StartSets ==
  ASSUME TypeOK, NEW i \in Ids, Start(i)
  PROVE  /\ Active' = Active /\ Serving \subseteq Serving'
         /\ Cardinality(Serving) <= Cardinality(Serving)'
         /\ ~Current(i) => Serving' = Serving
         /\ \A j \in Ids : j # i => state'[j] = state[j]
         /\ \A j \in Ids : Current(j)' = Current(j)
         /\ state[i] = "pending" /\ state'[i] = "running"
<1>1. state' = [state EXCEPT ![i] = "running"] /\ owner' = owner /\ job' = job /\ state[i] = "pending"
  BY DEF Start, Become
<1>2. /\ \A j \in Ids : j # i => state'[j] = state[j]
      /\ state'[i] = "running"
  BY <1>1, Parts
<1>3. /\ Active' = Active /\ Serving \subseteq Serving' /\ (~Current(i) => Serving' = Serving)
      /\ \A j \in Ids : Current(j)' = Current(j)
  BY <1>1, <1>2 DEF Active, Serving, Current
<1>4. Serving' \subseteq Active
  BY <1>3, CountingNext
<1>5. IsFiniteSet(Serving')
  BY <1>4, Counting, FS_Subset
<1>6. Cardinality(Serving) <= Cardinality(Serving')
  BY <1>3, <1>5, FS_Subset
<1>7. QED
  BY <1>1, <1>2, <1>3, <1>6

\* An instance ends, of its own or after a kill.
LEMMA EndSets ==
  ASSUME TypeOK, NEW i \in Ids, Retire(i) \/ Notice(i)
  PROVE  /\ \A j \in Ids : j # i => state'[j] = state[j]
         /\ \A j \in Ids : Current(j)' = Current(j)
         /\ state'[i] = "absent" /\ state[i] # "absent"
         /\ ~Current(i) => Active' = Active /\ Serving' = Serving
         /\ Current(i) => /\ Active' = Active \ {i} /\ i \in Active /\ Serving' = Serving \ {i}
                          /\ Cardinality(Active)' = Cardinality(Active) - 1
<1>1. state' = [state EXCEPT ![i] = "absent"] /\ owner' = owner /\ job' = job /\ state[i] # "absent"
  BY DEF Retire, Notice, Become
<1>2. /\ \A j \in Ids : j # i => state'[j] = state[j]
      /\ state'[i] = "absent"
  BY <1>1, Parts
<1>3. /\ \A j \in Ids : Current(j)' = Current(j)
      /\ ~Current(i) => Active' = Active /\ Serving' = Serving
      /\ Current(i) => Active' = Active \ {i} /\ i \in Active /\ Serving' = Serving \ {i}
  BY <1>1, <1>2 DEF Active, Serving, Current
<1>4. i \in Active => Cardinality(Active \ {i}) = Cardinality(Active) - 1
  BY Counting, FS_RemoveElement
<1>5. QED
  BY <1>1, <1>2, <1>3, <1>4

-----------------------------------------------------------------------------
(* The environment.                                                        *)

\* The orchestrator and the controller leave the program alone.
LEMMA Apart ==
  ASSUME Environment
  PROVE  /\ flags' = flags /\ at' = at /\ replicas' = replicas /\ victim' = victim
         /\ errors' = errors /\ platform' = platform /\ killed' = killed
         /\ IsScheduler' = IsScheduler /\ OnK8s' = OnK8s /\ Here' = Here
<1>1. flags' = flags /\ at' = at /\ replicas' = replicas /\ victim' = victim /\ errors' = errors
  BY DEF Environment, client
<1>2. platform' = platform /\ killed' = killed
  <2>1. CASE Orchestrate
    BY <2>1 DEF Orchestrate, Spawn, Start, Retire, Notice, Become, FinishDelete, SyncReplicaSet,
                SyncDeployment, NamespaceGone
  <2>2. CASE Fetch
    BY <2>2 DEF Fetch, cluster
  <2>3. CASE Reapply
    BY <2>3 DEF Reapply, CreateJob
  <2>4. QED
    BY <2>1, <2>2, <2>3 DEF Environment
<1>3. QED
  BY <1>1, <1>2 DEF IsScheduler, OnK8s, Here

\* While the workload is wanted, what can happen is few things.
LEMMA WantedSteps ==
  ASSUME TypeOK, Basics, NEW n, Wanted(n), Environment
  PROVE  /\ job' = job /\ namespace' = namespace
         /\ \/ \E i \in Ids : Spawn(i) \/ Start(i) \/ Retire(i) \/ Notice(i)
            \/ SyncReplicaSet
            \/ SyncDeployment
            \/ UNCHANGED cluster
<1>1. job.exists /\ ~job.going /\ namespace = "active"
  BY DEF Wanted
<1>2. ~FinishDelete /\ ~NamespaceGone /\ ~Reapply
  BY <1>1 DEF FinishDelete, NamespaceGone, Reapply
<1>3. \/ \E i \in Ids : Spawn(i) \/ Start(i) \/ Retire(i) \/ Notice(i)
      \/ SyncReplicaSet
      \/ SyncDeployment
      \/ Fetch
  BY <1>2 DEF Environment, Orchestrate
<1>4. CASE \E i \in Ids : Spawn(i) \/ Start(i) \/ Retire(i) \/ Notice(i)
  BY <1>4 DEF Spawn, Start, Retire, Notice, Become
<1>5. CASE SyncReplicaSet
  BY <1>5 DEF SyncReplicaSet
<1>6. CASE SyncDeployment
  BY <1>6 DEF SyncDeployment
<1>7. CASE Fetch
  BY <1>7 DEF Fetch, cluster
<1>8. QED
  BY <1>3, <1>4, <1>5, <1>6, <1>7

\* And it goes on being wanted.
LEMMA WantedEnv ==
  ASSUME TypeOK, Basics, NEW n, Wanted(n), Environment
  PROVE  Wanted(n)'
<1>1. job' = job /\ namespace' = namespace
  BY WantedSteps
<1>2. job.exists /\ ~job.going /\ job.want = n /\ namespace = "active" /\ NoStrangers
  BY DEF Wanted
<1>3. ASSUME IsScheduler, platform # "swarm", NEW i \in Ids, state'[i] # "absent"
      PROVE  Current(i)'
  <2>1. state[i] # "absent" => Current(i)
    BY <1>2, <1>3 DEF NoStrangers
  <2>2. CASE \E j \in Ids : Spawn(j)
    <3>1. PICK j \in Ids : Spawn(j)
      BY <2>2
    <3>2. /\ \A k \in Ids : k # j => state'[k] = state[k] /\ Current(k)' = Current(k)
          /\ Current(j)'
      BY <3>1, SpawnSets
    <3>3. CASE i = j
      BY <3>2, <3>3
    <3>4. CASE i # j
      <4>1. state'[i] = state[i] /\ Current(i)' = Current(i)
        BY <3>2, <3>4
      <4>2. QED
        BY <4>1, <2>1, <1>3
    <3>5. QED
      BY <3>3, <3>4
  <2>3. CASE \E j \in Ids : Start(j)
    <3>1. PICK j \in Ids : Start(j)
      BY <2>3
    <3>2. /\ \A k \in Ids : k # j => state'[k] = state[k]
          /\ \A k \in Ids : Current(k)' = Current(k)
          /\ state[j] = "pending"
      BY <3>1, StartSets
    <3>3. state[i] # "absent" /\ Current(i)' = Current(i)
      BY <3>2, <1>3
    <3>4. QED
      BY <3>3, <2>1
  <2>4. CASE \E j \in Ids : Retire(j) \/ Notice(j)
    <3>1. PICK j \in Ids : Retire(j) \/ Notice(j)
      BY <2>4
    <3>2. /\ \A k \in Ids : k # j => state'[k] = state[k]
          /\ \A k \in Ids : Current(k)' = Current(k)
          /\ state'[j] = "absent"
      BY <3>1, EndSets
    <3>3. state[i] # "absent" /\ Current(i)' = Current(i)
      BY <3>2, <1>3
    <3>4. QED
      BY <3>3, <2>1
  <2>5. CASE SyncReplicaSet \/ SyncDeployment \/ UNCHANGED cluster
    <3>1. state' = state /\ owner' = owner
      BY <2>5 DEF SyncReplicaSet, SyncDeployment, cluster, instances
    <3>2. Current(i)' = Current(i)
      BY <3>1, <1>1 DEF Current
    <3>3. QED
      BY <3>1, <3>2, <2>1, <1>3
  <2>6. QED
    BY <2>2, <2>3, <2>4, <2>5, WantedSteps
<1>4. NoStrangers'
  <2>1. platform' = platform /\ IsScheduler' = IsScheduler
    BY Apart
  <2>2. QED
    BY <1>3, <2>1 DEF NoStrangers
<1>5. QED
  BY <1>1, <1>2, <1>4 DEF Wanted

\* What the controllers of Kubernetes read and write.
LEMMA SyncFacts ==
  ASSUME SyncReplicaSet \/ SyncDeployment \/ UNCHANGED cluster, TypeOK
  PROVE  /\ job' = job /\ state' = state /\ Active' = Active /\ Serving' = Serving
         /\ \A i \in Ids : Current(i)' = Current(i)
         /\ \/ /\ OnK8s /\ status' = status /\ replicaSet'.want = replicaSet.want
               /\ replicaSet'.replicas = Cardinality(Active)
               /\ replicaSet'.ready = Cardinality(Serving)
            \/ /\ OnK8s /\ replicaSet'.want = job.want
               /\ replicaSet'.replicas = replicaSet.replicas
               /\ replicaSet'.ready = replicaSet.ready
               /\ status'.gen = job.gen /\ status'.ready = replicaSet.ready
               /\ status'.updated = replicaSet.replicas
            \/ replicaSet' = replicaSet /\ status' = status
<1>1. job' = job /\ state' = state /\ owner' = owner
  BY DEF SyncReplicaSet, SyncDeployment, cluster, instances
<1>2. replicaSet \in [want : Nat, replicas : 0 .. MaxInstances, ready : 0 .. MaxInstances]
  BY DEF TypeOK, ClusterTypeOK
<1>3. CASE SyncReplicaSet
  BY <1>1, <1>2, <1>3, SameSets DEF SyncReplicaSet, OnK8s
<1>4. CASE SyncDeployment
  BY <1>1, <1>2, <1>4, SameSets DEF SyncDeployment, OnK8s
<1>5. CASE UNCHANGED cluster
  BY <1>1, <1>5, SameSets DEF cluster
<1>6. QED
  BY <1>3, <1>4, <1>5

\* Kinds of environment steps in which the instances of a wanted workload only grow.
Calm(n) ==
  /\ \A i \in Ids : Current(i) => state[i] \in Unhurt
  /\ Cardinality(Active) <= n
  /\ OnK8s => Cardinality(Active) <= replicaSet.want /\ replicaSet.want <= n

\* A calm workload stays calm: instances are added, and the copies of their number
\* follow.
LEMMA CalmEnv ==
  ASSUME TypeOK, Basics, NEW n \in Nat, Wanted(n), Calm(n), Environment
  PROVE  /\ Calm(n)'
         /\ Serving \subseteq Serving' /\ Cardinality(Serving) <= Cardinality(Serving)'
         /\ Cardinality(Active) <= Cardinality(Active)'
         /\ \/ replicaSet' = replicaSet /\ status' = status
            \/ SyncReplicaSet
            \/ SyncDeployment
<1>1. job' = job /\ OnK8s' = OnK8s
  BY WantedSteps, Apart
<1>2. Target <= n /\ Cardinality(Active) <= Target /\ Target \in Nat
  BY Parts DEF Target, Calm, Wanted, OnK8s
<1>3. job.want = n /\ job.exists /\ ~job.going
  BY DEF Wanted
<1>4. Cardinality(Active) \in Nat /\ Cardinality(Serving) \in Nat
  BY Counting
<1>5. CASE \E i \in Ids : Spawn(i)
  <2>1. PICK i \in Ids : Spawn(i)
    BY <1>5
  <2>2. replicaSet' = replicaSet /\ status' = status /\ Cardinality(Active) < Target
    BY <2>1 DEF Spawn
  <2>3. /\ Serving' = Serving /\ Cardinality(Active)' = Cardinality(Active) + 1
        /\ \A j \in Ids : j # i => state'[j] = state[j] /\ Current(j)' = Current(j)
        /\ state'[i] = "pending"
    BY <2>1, SpawnSets
  <2>4. \A j \in Ids : Current(j)' => state'[j] \in Unhurt
    BY <2>3 DEF Calm, Unhurt
  <2>5. Cardinality(Active)' <= Target
    BY <1>2, <1>4, <2>2, <2>3
  <2>6. OnK8s => Target = replicaSet.want
    BY DEF Target, OnK8s
  <2>7. Cardinality(Active)' <= n
    BY <1>2, <1>4, <2>3, <2>5
  <2>8. Calm(n)'
    BY <1>1, <2>2, <2>4, <2>5, <2>6, <2>7 DEF Calm
  <2>9. QED
    BY <1>4, <2>2, <2>3, <2>8
<1>6. CASE \E i \in Ids : Start(i)
  <2>1. PICK i \in Ids : Start(i)
    BY <1>6
  <2>2. replicaSet' = replicaSet /\ status' = status
    BY <2>1 DEF Start, Become
  <2>3. /\ Active' = Active /\ Serving \subseteq Serving'
        /\ Cardinality(Serving) <= Cardinality(Serving)'
        /\ \A j \in Ids : j # i => state'[j] = state[j]
        /\ \A j \in Ids : Current(j)' = Current(j)
        /\ state'[i] = "running"
    BY <2>1, StartSets
  <2>4. \A j \in Ids : Current(j)' => state'[j] \in Unhurt
    BY <2>3 DEF Calm, Unhurt
  <2>5. QED
    BY <1>1, <1>4, <2>2, <2>3, <2>4 DEF Calm
<1>7. CASE \E i \in Ids : Retire(i) \/ Notice(i)
  <2>1. PICK i \in Ids : Retire(i) \/ Notice(i)
    BY <1>7
  <2>2. replicaSet' = replicaSet /\ status' = status
    BY <2>1 DEF Retire, Notice, Become
  <2>3. ~Current(i)
    <3>1. CASE Retire(i)
      BY <3>1, <1>2, <1>3, <1>4 DEF Retire, Unwanted
    <3>2. CASE Notice(i)
      BY <3>2 DEF Notice, Become, Calm, Unhurt
    <3>3. QED
      BY <2>1, <3>1, <3>2
  <2>4. /\ Active' = Active /\ Serving' = Serving
        /\ \A j \in Ids : j # i => state'[j] = state[j]
        /\ \A j \in Ids : Current(j)' = Current(j)
    BY <2>1, <2>3, EndSets
  <2>5. \A j \in Ids : Current(j)' => state'[j] \in Unhurt
    BY <2>3, <2>4 DEF Calm
  <2>6. QED
    BY <1>1, <1>4, <2>2, <2>4, <2>5 DEF Calm
<1>8. CASE SyncReplicaSet \/ SyncDeployment \/ UNCHANGED cluster
  <2>1. /\ state' = state /\ Active' = Active /\ Serving' = Serving
        /\ \A i \in Ids : Current(i)' = Current(i)
        /\ OnK8s => replicaSet'.want = replicaSet.want \/ replicaSet'.want = n
    BY <1>3, <1>8, SyncFacts
  <2>2. Calm(n)'
    BY <1>1, <2>1, <1>4, Parts DEF Calm
  <2>3. UNCHANGED cluster => replicaSet' = replicaSet /\ status' = status
    BY DEF cluster
  <2>4. QED
    BY <1>4, <1>8, <2>1, <2>2, <2>3
<1>9. QED
  BY <1>5, <1>6, <1>7, <1>8, WantedSteps

\* A workload that grows goes on growing, and does not lose what serves.
LEMMA GrowingEnv ==
  ASSUME TypeOK, Basics, NEW n \in Nat, IsGrowing(n), Environment
  PROVE  /\ IsGrowing(n)'
         /\ Serving \subseteq Serving' /\ Cardinality(Serving) <= Cardinality(Serving)'
         /\ OnK8s => \/ replicaSet'.replicas = replicaSet.replicas
                     \/ replicaSet'.replicas >= Cardinality(Serving)
<1>1. Wanted(n) /\ Calm(n)
  BY DEF IsGrowing, Calm
<1>2. /\ Calm(n)' /\ Wanted(n)'
      /\ Serving \subseteq Serving' /\ Cardinality(Serving) <= Cardinality(Serving)'
      /\ Cardinality(Active) <= Cardinality(Active)'
      /\ \/ replicaSet' = replicaSet /\ status' = status
         \/ SyncReplicaSet
         \/ SyncDeployment
  BY <1>1, CalmEnv, WantedEnv
<1>3. OnK8s' = OnK8s /\ IsScheduler' = IsScheduler /\ replicas' = replicas
  BY Apart
<1>4. /\ Cardinality(Active) \in Nat /\ Cardinality(Serving) \in Nat
      /\ Cardinality(Active)' \in Nat /\ Cardinality(Serving)' \in Nat
      /\ Cardinality(Serving) <= Cardinality(Active)
  BY Counting, CountingNext
<1>5. OnK8s => /\ status.updated <= replicaSet.replicas
               /\ replicaSet.replicas <= Cardinality(Active)
               /\ status.ready <= replicaSet.ready /\ replicaSet.ready <= Cardinality(Serving)
  BY DEF IsGrowing
<1>6. OnK8s => /\ status'.updated <= replicaSet'.replicas
               /\ replicaSet'.replicas <= Cardinality(Active)'
               /\ status'.ready <= replicaSet'.ready /\ replicaSet'.ready <= Cardinality(Serving)'
               /\ \/ replicaSet'.replicas = replicaSet.replicas
                  \/ replicaSet'.replicas >= Cardinality(Serving)
  <2>1. CASE replicaSet' = replicaSet /\ status' = status
    BY <1>2, <1>4, <1>5, <2>1, Parts
  <2>2. CASE SyncReplicaSet \/ SyncDeployment
    <3>1. /\ Active' = Active /\ Serving' = Serving
          /\ OnK8s =>
              \/ /\ status' = status
                 /\ replicaSet'.replicas = Cardinality(Active)
                 /\ replicaSet'.ready = Cardinality(Serving)
              \/ /\ replicaSet'.replicas = replicaSet.replicas
                 /\ replicaSet'.ready = replicaSet.ready
                 /\ status'.ready = replicaSet.ready
                 /\ status'.updated = replicaSet.replicas
              \/ replicaSet' = replicaSet /\ status' = status
      BY <2>2, SyncFacts
    <3>2. QED
      BY <1>4, <1>5, <3>1, Parts
  <2>3. QED
    BY <1>2, <2>1, <2>2
<1>7. IsGrowing(n)'
  BY <1>2, <1>3, <1>6 DEF IsGrowing, Calm
<1>8. QED
  BY <1>2, <1>6, <1>7

\* Full stays full.
LEMMA FullEnv ==
  ASSUME TypeOK, Basics, NEW n \in Nat, IsFull(n), Environment
  PROVE  IsFull(n)'
<1>1. /\ IsGrowing(n) /\ Cardinality(Serving) >= n /\ (OnK8s => replicaSet.replicas >= n)
  BY DEF IsFull
<1>2. /\ IsGrowing(n)' /\ Cardinality(Serving) <= Cardinality(Serving)'
      /\ OnK8s => \/ replicaSet'.replicas = replicaSet.replicas
                  \/ replicaSet'.replicas >= Cardinality(Serving)
  BY <1>1, GrowingEnv
<1>3. Cardinality(Serving) \in Nat /\ Cardinality(Serving)' \in Nat /\ OnK8s' = OnK8s
  BY Counting, CountingNext, Apart
<1>4. OnK8s => replicaSet'.replicas >= n
  BY <1>1, <1>2, <1>3, CountingNext DEF IsGrowing
<1>5. QED
  BY <1>1, <1>2, <1>3, <1>4 DEF IsFull

\* The chosen victim goes on serving until it is killed.
LEMMA PickedEnv ==
  ASSUME TypeOK, Basics, NEW r \in Nat, IsPicked(r), Environment
  PROVE  IsPicked(r)'
<1>1. IsFull(r) /\ victim \in Serving /\ IsGrowing(r)
  BY DEF IsPicked, IsFull
<1>2. IsFull(r)' /\ Serving \subseteq Serving' /\ victim' = victim
  BY <1>1, FullEnv, GrowingEnv, Apart
<1>3. QED
  BY <1>1, <1>2 DEF IsPicked

\* While the victim is being replaced, only the victim's place is empty.
LEMMA RecoveringEnv ==
  ASSUME TypeOK, Basics, NEW r \in Nat, IsRecovering(r), Environment
  PROVE  IsRecovering(r)'
<1>1. /\ Wanted(r) /\ replicas = r /\ victim \in Ids /\ killed = victim
      /\ \A i \in Ids : Current(i) /\ i # victim => state[i] \in Unhurt
      /\ state[victim] \in {"absent", "condemned", "dead"}
      /\ Cardinality(Active) <= r
      /\ OnK8s => /\ Cardinality(Active) >= r - 1
                  /\ replicaSet.want = r
                  /\ replicaSet.replicas >= r - 1
  BY DEF IsRecovering
<1>2. /\ Wanted(r)' /\ OnK8s' = OnK8s /\ replicas' = replicas /\ victim' = victim
      /\ killed' = killed /\ job' = job
  BY <1>1, WantedEnv, Apart, WantedSteps
<1>3. Target = r
  BY <1>1 DEF Target, OnK8s, Wanted
<1>4. job.want = r /\ job.exists /\ ~job.going
  BY <1>1 DEF Wanted
<1>5. Cardinality(Active) \in Nat
  BY Counting
<1>6. \A i \in Ids : OnK8s => state[i] # "condemned" /\ state[i] # "dead"
  BY DEF Basics, OnK8s
<1>7. /\ \A i \in Ids : Current(i)' /\ i # victim => state'[i] \in Unhurt
      /\ state'[victim] \in {"absent", "condemned", "dead"}
      /\ Cardinality(Active)' <= r
      /\ OnK8s => /\ Cardinality(Active)' >= r - 1
                  /\ replicaSet'.want = r
                  /\ replicaSet'.replicas >= r - 1
  <2>1. CASE \E i \in Ids : Spawn(i)
    <3>1. PICK i \in Ids : Spawn(i)
      BY <2>1
    <3>2. replicaSet' = replicaSet /\ Cardinality(Active) < Target /\ i # killed
      BY <3>1 DEF Spawn
    <3>3. /\ Cardinality(Active)' = Cardinality(Active) + 1
          /\ \A j \in Ids : j # i => state'[j] = state[j] /\ Current(j)' = Current(j)
          /\ state'[i] = "pending"
      BY <3>1, SpawnSets
    <3>4. \A j \in Ids : Current(j)' /\ j # victim => state'[j] \in Unhurt
      BY <1>1, <3>3 DEF Unhurt
    <3>5. state'[victim] = state[victim]
      BY <1>1, <3>2, <3>3
    <3>6. Cardinality(Active)' <= r /\ (OnK8s => Cardinality(Active)' >= r - 1)
      BY <1>1, <1>3, <1>5, <3>2, <3>3
    <3>7. QED
      BY <1>1, <3>2, <3>4, <3>5, <3>6
  <2>2. CASE \E i \in Ids : Start(i)
    <3>1. PICK i \in Ids : Start(i)
      BY <2>2
    <3>2. replicaSet' = replicaSet
      BY <3>1 DEF Start, Become
    <3>3. /\ Active' = Active
          /\ \A j \in Ids : j # i => state'[j] = state[j]
          /\ \A j \in Ids : Current(j)' = Current(j)
          /\ state[i] = "pending" /\ state'[i] = "running"
      BY <3>1, StartSets
    <3>4. \A j \in Ids : Current(j)' /\ j # victim => state'[j] \in Unhurt
      BY <1>1, <3>3 DEF Unhurt
    <3>5. state'[victim] = state[victim]
      BY <1>1, <3>3
    <3>6. QED
      BY <1>1, <3>2, <3>3, <3>4, <3>5
  <2>3. CASE \E i \in Ids : Retire(i) \/ Notice(i)
    <3>1. PICK i \in Ids : Retire(i) \/ Notice(i)
      BY <2>3
    <3>2. replicaSet' = replicaSet
      BY <3>1 DEF Retire, Notice, Become
    <3>3. ~Current(i) \/ (i = victim /\ ~OnK8s)
      <4>1. CASE Retire(i)
        BY <4>1, <1>1, <1>3, <1>4, <1>5 DEF Retire, Unwanted
      <4>2. CASE Notice(i)
        BY <4>2, <1>1, <1>6 DEF Notice, Become, Unhurt
      <4>3. QED
        BY <3>1, <4>1, <4>2
    <3>4. /\ \A j \in Ids : j # i => state'[j] = state[j]
          /\ \A j \in Ids : Current(j)' = Current(j)
          /\ state'[i] = "absent"
          /\ ~Current(i) => Active' = Active
          /\ Current(i) => Cardinality(Active)' = Cardinality(Active) - 1
      BY <3>1, EndSets
    <3>5. \A j \in Ids : Current(j)' /\ j # victim => state'[j] \in Unhurt
      BY <1>1, <3>4 DEF Unhurt
    <3>6. state'[victim] \in {"absent", "condemned", "dead"}
      BY <1>1, <3>4
    <3>7. CASE ~Current(i)
      BY <3>7, <1>1, <3>2, <3>4, <3>5, <3>6
    <3>8. CASE Current(i)
      <4>1. ~OnK8s /\ Cardinality(Active)' <= r
        BY <3>3, <3>4, <3>8, <1>1, <1>5
      <4>2. QED
        BY <4>1, <3>5, <3>6
    <3>9. QED
      BY <3>7, <3>8
  <2>4. CASE SyncReplicaSet \/ SyncDeployment \/ UNCHANGED cluster
    <3>1. /\ state' = state /\ Active' = Active
          /\ \A i \in Ids : Current(i)' = Current(i)
          /\ OnK8s => /\ replicaSet'.want = replicaSet.want \/ replicaSet'.want = r
                      /\ \/ replicaSet'.replicas = Cardinality(Active)
                         \/ replicaSet'.replicas = replicaSet.replicas
      BY <1>4, <2>4, SyncFacts
    <3>2. QED
      BY <1>1, <3>1
  <2>5. QED
    BY <1>1, <2>1, <2>2, <2>3, <2>4, WantedSteps
<1>8. QED
  BY <1>1, <1>2, <1>7 DEF IsRecovering

\* Nothing spawns, starts or ends of a workload that serves as a whole and is not too
\* large; of one that is too large, instances end.
LEMMA ServingEnv ==
  ASSUME TypeOK, Basics, NEW n, Wanted(n), Active = Serving,
         Cardinality(Active) >= Target, Target \in Nat, Environment
  PROVE  /\ Active' = Serving'
         /\ \/ Active' = Active
            \/ /\ replicaSet' = replicaSet /\ status' = status
               /\ Cardinality(Active)' = Cardinality(Active) - 1 /\ Active' \subseteq Active
               /\ Cardinality(Active)' >= Target
<1>1. job.exists /\ ~job.going /\ Cardinality(Active) \in Nat
  BY Counting DEF Wanted
<1>2. CASE \E i \in Ids : Spawn(i)
  <2>1. PICK i \in Ids : Spawn(i)
    BY <1>2
  <2>2. QED
    BY <1>1, <2>1 DEF Spawn
<1>3. CASE \E i \in Ids : Start(i)
  <2>1. PICK i \in Ids : Start(i)
    BY <1>3
  <2>2. state[i] = "pending" /\ Active' = Active /\ (~Current(i) => Serving' = Serving)
    BY <2>1, StartSets
  <2>3. ~Current(i)
    BY <2>2 DEF Active, Serving
  <2>4. QED
    BY <2>2, <2>3
<1>4. CASE \E i \in Ids : Retire(i) \/ Notice(i)
  <2>1. PICK i \in Ids : Retire(i) \/ Notice(i)
    BY <1>4
  <2>2. replicaSet' = replicaSet /\ status' = status
    BY <2>1 DEF Retire, Notice, Become
  <2>3. /\ ~Current(i) => Active' = Active /\ Serving' = Serving
        /\ Current(i) => /\ Active' = Active \ {i} /\ i \in Active /\ Serving' = Serving \ {i}
                         /\ Cardinality(Active)' = Cardinality(Active) - 1
    BY <2>1, EndSets
  <2>4. Current(i) => Cardinality(Active) > Target
    <3>1. CASE Retire(i)
      BY <3>1, <1>1 DEF Retire, Unwanted
    <3>2. CASE Notice(i)
      <4>1. state[i] \in {"condemned", "dead"}
        BY <3>2 DEF Notice, Become
      <4>2. QED
        BY <4>1 DEF Active, Serving
    <3>3. QED
      BY <2>1, <3>1, <3>2
  <2>5. QED
    BY <1>1, <2>2, <2>3, <2>4
<1>5. CASE SyncReplicaSet \/ SyncDeployment \/ UNCHANGED cluster
  BY <1>5, SyncFacts
<1>6. QED
  BY <1>2, <1>3, <1>4, <1>5, WantedSteps

\* A workload that has recovered stays as it is.
LEMMA RecoveredEnv ==
  ASSUME TypeOK, Basics, NEW r \in Nat, IsRecovered(r), Environment
  PROVE  IsRecovered(r)'
<1>1. /\ Wanted(r) /\ Active = Serving /\ Cardinality(Active) = r
      /\ victim \notin Serving /\ killed = victim
      /\ OnK8s => replicaSet.want = r /\ replicaSet.replicas >= r - 1
  BY DEF IsRecovered
<1>2. /\ Wanted(r)' /\ OnK8s' = OnK8s /\ victim' = victim /\ killed' = killed
  BY <1>1, WantedEnv, Apart
<1>3. Target = r /\ job.want = r
  BY <1>1 DEF Target, OnK8s, Wanted
<1>4. /\ Active' = Serving'
      /\ Active' = Active \/ Cardinality(Active)' = Cardinality(Active) - 1
      /\ Active' = Active \/ Cardinality(Active)' >= r
  BY <1>1, <1>3, ServingEnv
<1>5. Active' = Active
  BY <1>1, <1>4
<1>6. OnK8s => replicaSet'.want = r /\ replicaSet'.replicas >= r - 1
  <2>1. CASE \E i \in Ids : Spawn(i) \/ Start(i) \/ Retire(i) \/ Notice(i)
    <3>1. replicaSet' = replicaSet
      BY <2>1 DEF Spawn, Start, Retire, Notice, Become
    <3>2. QED
      BY <1>1, <3>1
  <2>2. CASE SyncReplicaSet \/ SyncDeployment \/ UNCHANGED cluster
    <3>1. OnK8s => /\ replicaSet'.want = replicaSet.want \/ replicaSet'.want = r
                   /\ \/ replicaSet'.replicas = Cardinality(Active)
                      \/ replicaSet'.replicas = replicaSet.replicas
      BY <1>3, <2>2, SyncFacts
    <3>2. QED
      BY <1>1, <3>1
  <2>3. QED
    BY <1>1, <2>1, <2>2, WantedSteps
<1>7. QED
  BY <1>1, <1>2, <1>4, <1>5, <1>6 DEF IsRecovered

\* A workload that is scaled down to one never loses the last one, and the copies of
\* its number follow it.
LEMMA ShrinkingEnv ==
  ASSUME TypeOK, Basics, NEW r \in Nat, IsShrinking(r), Environment
  PROVE  /\ IsShrinking(r)'
         /\ Cardinality(Active) = 1 => Cardinality(Active)' = 1
<1>1. /\ Wanted(1) /\ Active = Serving /\ Cardinality(Active) >= 1
      /\ OnK8s => replicaSet.want >= 1 /\ Cardinality(Active) >= replicaSet.want
      /\ Telling(r)
  BY DEF IsShrinking
<1>2. /\ Wanted(1)' /\ OnK8s' = OnK8s /\ IsScheduler' = IsScheduler /\ job' = job
      /\ job.want = 1
  BY <1>1, WantedEnv, Apart, WantedSteps DEF Wanted
<1>3. Cardinality(Active) >= Target /\ Target \in Nat /\ Target >= 1
  BY <1>1, <1>2, Parts DEF Target, OnK8s
<1>4. /\ Active' = Serving'
      /\ \/ Active' = Active
         \/ /\ replicaSet' = replicaSet /\ status' = status
            /\ Cardinality(Active)' = Cardinality(Active) - 1
            /\ Cardinality(Active)' >= Target
  BY <1>1, <1>3, ServingEnv
<1>5. Cardinality(Active) \in Nat /\ Cardinality(Active)' \in Nat
  BY Counting, CountingNext
<1>6. Cardinality(Active)' >= 1 /\ (Cardinality(Active) = 1 => Cardinality(Active)' = 1)
  BY <1>1, <1>3, <1>4, <1>5
<1>7. CASE Active' = Active /\ ~(replicaSet' = replicaSet /\ status' = status)
  <2>1. SyncReplicaSet \/ SyncDeployment
    <3>1. CASE \E i \in Ids : Spawn(i) \/ Start(i) \/ Retire(i) \/ Notice(i)
      BY <3>1, <1>7 DEF Spawn, Start, Retire, Notice, Become
    <3>2. QED
      BY <3>1, <1>1, <1>7, WantedSteps DEF cluster
  <2>2. \/ /\ OnK8s /\ status' = status /\ replicaSet'.want = replicaSet.want
           /\ replicaSet'.replicas = Cardinality(Active)
        \/ /\ OnK8s /\ replicaSet'.want = 1
           /\ replicaSet'.replicas = replicaSet.replicas
           /\ status'.updated = replicaSet.replicas
    BY <1>2, <1>7, <2>1, SyncFacts
  <2>3. OnK8s => replicaSet'.want >= 1 /\ Cardinality(Active)' >= replicaSet'.want
    BY <1>1, <1>7, <2>2
  <2>4. Telling(r)'
    <3>1. ASSUME IsScheduler, OnK8s, r > 2, replicaSet'.replicas <= 1
          PROVE  Cardinality(Active) = 1
      BY <3>1, <1>1, <1>5, <2>2 DEF Telling
    <3>2. ASSUME IsScheduler, OnK8s, r > 2, status'.gen >= job.gen, status'.updated <= 1
          PROVE  Cardinality(Active) = 1
      BY <3>2, <1>1, <2>2 DEF Telling
    <3>3. QED
      BY <1>2, <1>7, <3>1, <3>2 DEF Telling
  <2>5. QED
    BY <1>2, <1>4, <1>6, <2>3, <2>4 DEF IsShrinking
<1>8. CASE replicaSet' = replicaSet /\ status' = status
  <2>1. Telling(r)'
    BY <1>1, <1>2, <1>6, <1>8 DEF Telling
  <2>2. OnK8s => replicaSet'.want >= 1 /\ Cardinality(Active)' >= replicaSet'.want
    <3>1. OnK8s => Target = replicaSet.want
      BY DEF Target, OnK8s
    <3>2. QED
      BY <1>1, <1>4, <1>8, <3>1
  <2>3. QED
    BY <1>2, <1>4, <1>6, <2>1, <2>2 DEF IsShrinking
<1>9. QED
  BY <1>4, <1>7, <1>8

\* So does one that has been scaled down.
LEMMA ShrunkEnv ==
  ASSUME TypeOK, Basics, NEW r \in Nat, IsShrunk(r), Environment
  PROVE  IsShrunk(r)'
<1>1. IsShrinking(r) /\ (IsScheduler => Cardinality(Active) = 1 \/ (OnK8s /\ r = 2))
  BY DEF IsShrunk
<1>2. IsShrinking(r)' /\ (Cardinality(Active) = 1 => Cardinality(Active)' = 1)
  BY <1>1, ShrinkingEnv
<1>3. OnK8s' = OnK8s /\ IsScheduler' = IsScheduler
  BY Apart
<1>4. QED
  BY <1>1, <1>2, <1>3 DEF IsShrunk

\* What the environment does with a workload that is deleted: it adds nothing.
LEMMA DeletedSteps ==
  ASSUME TypeOK, Basics, flags.tool # "gitops", ~job.exists \/ job.going, Environment
  PROVE  /\ ~job'.exists \/ job'.going
         /\ ~job.exists => ~job'.exists
         /\ \A i \in Ids : \/ state'[i] = state[i]
                           \/ state[i] = "pending" /\ state'[i] = "running"
                           \/ state'[i] = "absent"
<1>1. ~Reapply
  BY DEF Basics, Reapply
<1>2. CASE \E i \in Ids : Spawn(i)
  BY <1>2 DEF Spawn
<1>3. CASE \E i \in Ids : Start(i)
  <2>1. PICK i \in Ids : Start(i)
    BY <1>3
  <2>2. /\ \A j \in Ids : j # i => state'[j] = state[j]
        /\ state[i] = "pending" /\ state'[i] = "running"
    BY <2>1, StartSets
  <2>3. job' = job
    BY <2>1 DEF Start, Become
  <2>4. QED
    BY <2>2, <2>3
<1>4. CASE \E i \in Ids : Retire(i) \/ Notice(i)
  <2>1. PICK i \in Ids : Retire(i) \/ Notice(i)
    BY <1>4
  <2>2. /\ \A j \in Ids : j # i => state'[j] = state[j]
        /\ state'[i] = "absent"
    BY <2>1, EndSets
  <2>3. job' = job
    BY <2>1 DEF Retire, Notice, Become
  <2>4. QED
    BY <2>2, <2>3
<1>5. CASE FinishDelete
  <2>1. job' = [job EXCEPT !.exists = FALSE] /\ state' = state
    BY <1>5 DEF FinishDelete, instances
  <2>2. ~job'.exists
    BY <2>1 DEF TypeOK, ClusterTypeOK
  <2>3. QED
    BY <2>1, <2>2
<1>6. CASE SyncReplicaSet \/ SyncDeployment
  BY <1>6 DEF SyncReplicaSet, SyncDeployment, instances
<1>7. CASE NamespaceGone
  <2>1. job' = [job EXCEPT !.exists = FALSE] /\ state' = [i \in Ids |-> "absent"]
    BY <1>7 DEF NamespaceGone
  <2>2. ~job'.exists
    BY <2>1 DEF TypeOK, ClusterTypeOK
  <2>3. QED
    BY <2>1, <2>2
<1>8. CASE Fetch
  BY <1>8 DEF Fetch, cluster, instances
<1>9. QED
  BY <1>1, <1>2, <1>3, <1>4, <1>5, <1>6, <1>7, <1>8 DEF Environment, Orchestrate

\* Nothing comes of nothing.
LEMMA EmptyEnv ==
  ASSUME TypeOK, Basics, IsEmpty, Environment
  PROVE  IsEmpty'
<1>1. flags.tool # "gitops" /\ ~job.exists /\ \A i \in Ids : state[i] = "absent"
  BY DEF IsEmpty
<1>2. ~job'.exists /\ \A i \in Ids : state'[i] = "absent"
  BY <1>1, DeletedSteps
<1>3. QED
  BY <1>1, <1>2, Apart DEF IsEmpty

\* What has been deleted stays deleted.
LEMMA DeletedEnv ==
  ASSUME TypeOK, Basics, IsDeleted, Environment
  PROVE  IsDeleted'
<1>1. /\ flags.tool # "gitops" /\ (~job.exists \/ job.going)
      /\ IsScheduler /\ platform # "swarm" => \A i \in Ids : state[i] # "pending"
  BY DEF IsDeleted
<1>2. /\ ~job'.exists \/ job'.going
      /\ \A i \in Ids : \/ state'[i] = state[i]
                        \/ state[i] = "pending" /\ state'[i] = "running"
                        \/ state'[i] = "absent"
  BY <1>1, DeletedSteps
<1>3. IsScheduler /\ platform # "swarm" => \A i \in Ids : state'[i] # "pending"
  BY <1>1, <1>2
<1>4. QED
  BY <1>1, <1>2, <1>3, Apart DEF IsDeleted

\* What has been found to be gone stays gone.
LEMMA CleanEnv ==
  ASSUME TypeOK, Basics, IsClean, Environment
  PROVE  IsClean'
<1>1. /\ IsDeleted /\ Counted = {} /\ (~IsScheduler => Listed = {})
      /\ flags.tool # "gitops" /\ (~job.exists \/ job.going)
      /\ IsScheduler /\ platform # "swarm" => \A i \in Ids : state[i] # "pending"
  BY DEF IsClean, IsDeleted
<1>2. /\ ~job'.exists \/ job'.going
      /\ ~job.exists => ~job'.exists
      /\ \A i \in Ids : \/ state'[i] = state[i]
                        \/ state[i] = "pending" /\ state'[i] = "running"
                        \/ state'[i] = "absent"
  BY <1>1, DeletedSteps
<1>3. platform' = platform /\ IsScheduler' = IsScheduler /\ IsDeleted'
  BY <1>1, Apart, DeletedEnv
<1>4. platform \in {"kubernetes", "nomad", "swarm"}
  BY DEF TypeOK, ClusterTypeOK, Platforms
<1>5. ~IsScheduler => platform = "kubernetes"
  BY FlagFacts DEF TypeOK, Basics, IsScheduler
<1>6. CASE platform = "kubernetes" /\ IsScheduler
  <2>1. \A i \in Ids : state[i] # "running"
    BY <1>1, <1>6 DEF Counted, Listed
  <2>2. \A i \in Ids : state'[i] # "running"
    BY <1>1, <1>2, <1>6, <2>1
  <2>3. Counted' = {}
    BY <1>3, <1>6, <2>2 DEF Counted, Listed
  <2>4. QED
    BY <1>3, <1>6, <2>3 DEF IsClean
<1>7. CASE platform = "kubernetes" /\ ~IsScheduler
  <2>1. \A i \in Ids : state[i] \notin {"pending", "running"}
    BY <1>1, <1>7 DEF Listed
  <2>2. \A i \in Ids : state'[i] \notin {"pending", "running"}
    BY <1>2, <2>1
  <2>3. Listed' = {}
    BY <1>3, <1>7, <2>2 DEF Listed
  <2>4. Counted' = {}
    BY <1>3, <1>7, <2>3 DEF Counted
  <2>5. QED
    BY <1>3, <2>3, <2>4 DEF IsClean
<1>8. CASE platform = "nomad"
  <2>1. IsScheduler
    BY <1>5, <1>8
  <2>2. \A i \in Ids : state[i] \notin {"running", "condemned", "pending"}
    BY <1>1, <1>8, <2>1 DEF Counted, Listed
  <2>3. \A i \in Ids : state'[i] \notin {"running", "condemned"}
    BY <1>2, <2>2
  <2>4. Counted' = {}
    BY <1>3, <1>8, <2>3 DEF Counted, Listed
  <2>5. QED
    BY <1>3, <2>1, <2>4 DEF IsClean
<1>9. CASE platform = "swarm"
  <2>1. IsScheduler
    BY <1>5, <1>9
  <2>2. ~job'.exists
    BY <1>1, <1>2, <1>9 DEF Basics, OnK8s
  <2>3. Counted' = {}
    BY <1>3, <1>9, <2>2 DEF Counted, Listed, Current
  <2>4. QED
    BY <1>3, <2>1, <2>3 DEF IsClean
<1>10. QED
  BY <1>4, <1>6, <1>7, <1>8, <1>9

\* A resource of loadgen-gitops does not go away by itself.
LEMMA ThereEnv ==
  ASSUME TypeOK, Basics, Applied, IsThere, Environment
  PROVE  IsThere'
<1>1. /\ flags.tool = "gitops" /\ job.exists
      /\ flags.workload = "deployment" => Cardinality(Serving) >= 1
  BY DEF IsThere
<1>2. ~FinishDelete /\ ~NamespaceGone /\ ~Reapply
  BY <1>1 DEF Basics, FinishDelete, NamespaceGone, Reapply, IsScheduler
<1>3. job' = job
  <2>1. CASE \E i \in Ids : Spawn(i) \/ Start(i) \/ Retire(i) \/ Notice(i)
    BY <2>1 DEF Spawn, Start, Retire, Notice, Become
  <2>2. CASE SyncReplicaSet \/ SyncDeployment
    BY <2>2 DEF SyncReplicaSet, SyncDeployment
  <2>3. CASE Fetch
    BY <2>3 DEF Fetch, cluster
  <2>4. QED
    BY <1>2, <2>1, <2>2, <2>3 DEF Environment, Orchestrate
<1>4. flags.workload = "deployment" => Cardinality(Serving)' >= 1
  <2>1. CASE flags.workload = "deployment"
    <3>1. IsGrowing(1)
      BY <1>1, <2>1 DEF Applied
    <3>2. 1 \in Nat
      OBVIOUS
    <3>3. Cardinality(Serving) <= Cardinality(Serving)'
      BY <3>1, <3>2, GrowingEnv
    <3>4. QED
      BY <1>1, <2>1, <3>3, Counting, CountingNext
  <2>2. QED
    BY <2>1
<1>5. QED
  BY <1>1, <1>3, <1>4, Apart DEF IsThere

\* Whatever is known at a place stays true while the program is there.
LEMMA HoldsEnv ==
  ASSUME TypeOK, Basics, Applied, Environment, NEW p, NEW r \in Nat, Holds(p, r)
  PROVE  Holds(p, r)'
<1>1. ASSUME NEW n, Wanted(n) PROVE n \in Nat
  BY <1>1, Parts DEF Wanted
<1>2. p[1] = "calm" => (IsEmpty \/ IsShrinking(r))'
  BY EmptyEnv, ShrinkingEnv DEF Holds
<1>3. p[1] = "deleted" => (errors' = {} => IsDeleted')
  BY Apart, DeletedEnv DEF Holds
<1>4. p[1] = "clean" => (errors' = {} => IsClean')
  BY Apart, CleanEnv DEF Holds
<1>5. p[1] = "growing" => IsGrowing(p[2])'
  <2>1. CASE p[1] = "growing"
    <3>1. IsGrowing(p[2])
      BY <2>1 DEF Holds
    <3>2. p[2] \in Nat
      BY <3>1, <1>1 DEF IsGrowing
    <3>3. QED
      BY <3>1, <3>2, GrowingEnv
  <2>2. QED
    BY <2>1
<1>6. p[1] = "full" => IsFull(p[2])'
  <2>1. CASE p[1] = "full"
    <3>1. IsFull(p[2])
      BY <2>1 DEF Holds
    <3>2. p[2] \in Nat
      BY <3>1, <1>1 DEF IsGrowing, IsFull
    <3>3. QED
      BY <3>1, <3>2, FullEnv
  <2>2. QED
    BY <2>1
<1>7. p[1] = "picked" => IsPicked(r)'
  BY PickedEnv DEF Holds
<1>8. p[1] = "recovering" => IsRecovering(r)'
  BY RecoveringEnv DEF Holds
<1>9. p[1] = "recovered" => IsRecovered(r)'
  BY RecoveredEnv DEF Holds
<1>10. p[1] = "shrinking" => IsShrinking(r)'
  BY ShrinkingEnv DEF Holds
<1>11. p[1] = "shrunk" => IsShrunk(r)'
  BY ShrunkEnv DEF Holds
<1>12. p[1] = "there" => Leftover' \/ IsThere'
  BY Apart, ThereEnv DEF Holds, Leftover
<1>13. QED
  BY <1>2, <1>3, <1>4, <1>5, <1>6, <1>7, <1>8, <1>9, <1>10, <1>11, <1>12 DEF Holds

\* The state of the cluster stays well typed in its own time.
LEMMA ClusterTypes ==
  ASSUME TypeOK, Orchestrate
  PROVE  ClusterTypeOK'
<1>1. /\ platform \in Platforms
      /\ namespace \in {"absent", "active", "terminating"}
      /\ job \in [id : Nat, exists : BOOLEAN, going : BOOLEAN, want : Nat, gen : Nat]
      /\ state \in [Ids -> InstanceStates]
      /\ owner \in [Ids -> Nat]
      /\ killed \in 0 .. MaxInstances
      /\ replicaSet \in [want : Nat, replicas : 0 .. MaxInstances, ready : 0 .. MaxInstances]
      /\ status \in [gen : Nat, ready : 0 .. MaxInstances, updated : 0 .. MaxInstances,
                     unavailable : Nat]
  BY DEF TypeOK, ClusterTypeOK
<1>2. "absent" \in InstanceStates /\ "pending" \in InstanceStates /\ "running" \in InstanceStates
  BY DEF InstanceStates
<1>3. CASE \E i \in Ids : Spawn(i)
  BY <1>1, <1>2, <1>3 DEF Spawn, ClusterTypeOK
<1>4. CASE \E i \in Ids : Start(i) \/ Retire(i) \/ Notice(i)
  <2>1. PICK i \in Ids : Start(i) \/ Retire(i) \/ Notice(i)
    BY <1>4
  <2>2. \/ state' = [state EXCEPT ![i] = "running"]
        \/ state' = [state EXCEPT ![i] = "absent"]
    BY <2>1 DEF Start, Retire, Notice, Become
  <2>3. state' \in [Ids -> InstanceStates]
    BY <1>1, <1>2, <2>2
  <2>4. UNCHANGED <<platform, namespace, job, owner, killed, replicaSet, status>>
    BY <2>1 DEF Start, Retire, Notice, Become
  <2>5. QED
    BY <1>1, <2>3, <2>4 DEF ClusterTypeOK
<1>5. CASE FinishDelete
  BY <1>1, <1>5 DEF FinishDelete, ClusterTypeOK, instances
<1>6. CASE SyncReplicaSet
  <2>1. Cardinality(Active) \in 0 .. MaxInstances /\ Cardinality(Serving) \in 0 .. MaxInstances
    BY Counting, MaxInstancesAssumption
  <2>2. QED
    BY <1>1, <1>6, <2>1 DEF SyncReplicaSet, ClusterTypeOK, instances
<1>7. CASE SyncDeployment
  <2>1. (IF job.want > replicaSet.ready THEN job.want - replicaSet.ready ELSE 0) \in Nat
    BY Parts
  <2>2. QED
    BY <1>1, <1>7, <2>1 DEF SyncDeployment, ClusterTypeOK, instances
<1>8. CASE NamespaceGone
  BY <1>1, <1>2, <1>8 DEF NamespaceGone, ClusterTypeOK
<1>9. QED
  BY <1>3, <1>4, <1>5, <1>6, <1>7, <1>8 DEF Orchestrate

\* A new incarnation of the workload.
LEMMA CreateFacts ==
  ASSUME TypeOK, NEW n \in Nat, CreateJob(n)
  PROVE  /\ ClusterTypeOK'
         /\ job'.id = job.id + 1 /\ job'.exists /\ ~job'.going /\ job'.want = n /\ job'.gen = 1
         /\ state' = state /\ owner' = owner /\ status'.gen = 0
         /\ platform' = platform /\ namespace' = namespace
         /\ (\A i \in Ids : owner[i] <= job.id) =>
              /\ \A i \in Ids : ~Current(i)'
              /\ Active' = {} /\ Serving' = {}
              /\ Cardinality(Active)' = 0 /\ Cardinality(Serving)' = 0
              /\ status'.updated = 0 /\ status'.ready = 0
              /\ replicaSet'.want = 0 /\ replicaSet'.replicas = 0 /\ replicaSet'.ready = 0
<1>1. /\ job' = [id |-> job.id + 1, exists |-> TRUE, going |-> FALSE, want |-> n, gen |-> 1]
      /\ replicaSet' = NoReplicaSet /\ status' = NoStatus
      /\ state' = state /\ owner' = owner /\ platform' = platform /\ namespace' = namespace
      /\ killed' = killed
  BY DEF CreateJob, instances
<1>2. ClusterTypeOK'
  <2>1. 0 \in 0 .. MaxInstances
    BY MaxInstancesAssumption
  <2>2. replicaSet' \in [want : Nat, replicas : 0 .. MaxInstances, ready : 0 .. MaxInstances]
    BY <1>1, <2>1 DEF NoReplicaSet
  <2>3. status' \in [gen : Nat, ready : 0 .. MaxInstances, updated : 0 .. MaxInstances,
                     unavailable : Nat]
    BY <1>1, <2>1 DEF NoStatus
  <2>4. job' \in [id : Nat, exists : BOOLEAN, going : BOOLEAN, want : Nat, gen : Nat]
    BY <1>1, Parts
  <2>5. /\ platform' \in Platforms /\ namespace' \in {"absent", "active", "terminating"}
        /\ state' \in [Ids -> InstanceStates] /\ owner' \in [Ids -> Nat]
        /\ killed' \in 0 .. MaxInstances
    BY <1>1 DEF TypeOK, ClusterTypeOK
  <2>6. QED
    BY <2>2, <2>3, <2>4, <2>5 DEF ClusterTypeOK
<1>3. ASSUME \A i \in Ids : owner[i] <= job.id
      PROVE  /\ \A i \in Ids : ~Current(i)'
             /\ Active' = {} /\ Serving' = {}
  <2>1. \A i \in Ids : owner'[i] # job'.id
    BY <1>1, <1>3, Parts
  <2>2. QED
    BY <2>1 DEF Current, Active, Serving
<1>4. QED
  BY <1>1, <1>2, <1>3, FS_EmptySet DEF NoReplicaSet, NoStatus

\* A new workload grows from nothing.
LEMMA CreateGrows ==
  ASSUME TypeOK, Basics, NEW n \in Nat, CreateJob(n), namespace = "active",
         IsScheduler' = IsScheduler,
         IsScheduler /\ platform # "swarm" => \A i \in Ids : state[i] = "absent",
         IsScheduler => replicas' = n
  PROVE  IsGrowing(n)'
<1>1. \A i \in Ids : owner[i] <= job.id
  BY DEF Basics
<1>2. /\ job'.exists /\ ~job'.going /\ job'.want = n
      /\ state' = state /\ platform' = platform /\ namespace' = namespace
      /\ \A i \in Ids : ~Current(i)'
      /\ Cardinality(Active)' = 0 /\ Cardinality(Serving)' = 0
      /\ status'.updated = 0 /\ status'.ready = 0
      /\ replicaSet'.want = 0 /\ replicaSet'.replicas = 0 /\ replicaSet'.ready = 0
  BY <1>1, CreateFacts
<1>3. NoStrangers'
  BY <1>2 DEF NoStrangers
<1>4. Wanted(n)'
  BY <1>2, <1>3 DEF Wanted
<1>5. QED
  BY <1>2, <1>4 DEF IsGrowing

\* A flag's number of replicas.
LEMMA ReplicasNat == TypeOK => flags.replicas \in Nat
BY FlagFacts DEF TypeOK

\* Only the controller of loadgen-gitops acts besides the orchestrator.
LEMMA ManifestSteps ==
  ASSUME Environment
  PROVE  /\ manifest' = manifest \/ (manifest = "pushed" /\ manifest' = "fetched")
         /\ \/ Orchestrate
            \/ UNCHANGED cluster
            \/ /\ Reapply /\ manifest = "fetched" /\ ~job.exists /\ namespace = "active"
               /\ CreateJob(IF flags.workload = "deployment" THEN 1 ELSE 0)
BY DEF Environment, Fetch, Reapply

\* Types hold whatever happens in the cluster.
LEMMA TypeEnv ==
  ASSUME TypeOK, Environment
  PROVE  TypeOK'
<1>1. /\ flags' = flags /\ at' = at /\ replicas' = replicas /\ victim' = victim
      /\ errors' = errors
  BY Apart
<1>2. manifest' \in {"none", "pushed", "fetched"}
  BY ManifestSteps DEF TypeOK
<1>3. ClusterTypeOK'
  <2>1. CASE Orchestrate
    BY <2>1, ClusterTypes
  <2>2. CASE UNCHANGED cluster
    BY <2>2 DEF TypeOK, ClusterTypeOK, cluster, instances
  <2>3. CASE CreateJob(IF flags.workload = "deployment" THEN 1 ELSE 0)
    <3>1. CreateJob(0) \/ CreateJob(1)
      BY <2>3
    <3>2. 0 \in Nat /\ 1 \in Nat
      OBVIOUS
    <3>3. QED
      BY <3>1, <3>2, CreateFacts
  <2>4. QED
    BY <2>1, <2>2, <2>3, ManifestSteps
<1>4. QED
  BY <1>1, <1>2, <1>3 DEF TypeOK, Script

\* What each step of the orchestrator can change of the workload's record.
LEMMA OrchestrateFacts ==
  ASSUME TypeOK, Basics, Orchestrate
  PROVE  /\ job'.id = job.id /\ job'.gen = job.gen /\ job'.going = job.going
         /\ job'.exists = job.exists \/ ~job'.exists
         /\ job'.exists # job.exists => job.going \/ namespace = "terminating"
         /\ namespace' = namespace \/ (namespace = "terminating" /\ namespace' = "absent")
         /\ status'.gen \in {status.gen, job.gen}
         /\ \A i \in Ids : /\ owner'[i] = owner[i] \/ owner'[i] = job.id
                           /\ \/ state'[i] = state[i]
                              \/ state'[i] \in {"absent", "pending", "running"}
<1>1. job \in [id : Nat, exists : BOOLEAN, going : BOOLEAN, want : Nat, gen : Nat]
  BY DEF TypeOK, ClusterTypeOK
<1>2. CASE \E i \in Ids : Spawn(i)
  <2>1. PICK i \in Ids : Spawn(i)
    BY <1>2
  <2>2. /\ state' = [state EXCEPT ![i] = "pending"] /\ owner' = [owner EXCEPT ![i] = job.id]
        /\ job' = job /\ namespace' = namespace /\ status' = status
    BY <2>1 DEF Spawn
  <2>3. QED
    BY <2>2, Parts
<1>3. CASE \E i \in Ids : Start(i) \/ Retire(i) \/ Notice(i)
  <2>1. PICK i \in Ids : Start(i) \/ Retire(i) \/ Notice(i)
    BY <1>3
  <2>2. /\ \/ state' = [state EXCEPT ![i] = "running"]
           \/ state' = [state EXCEPT ![i] = "absent"]
        /\ owner' = owner /\ job' = job /\ namespace' = namespace /\ status' = status
    BY <2>1 DEF Start, Retire, Notice, Become
  <2>3. QED
    BY <2>2, Parts
<1>4. CASE FinishDelete
  <2>1. /\ job' = [job EXCEPT !.exists = FALSE] /\ job.going
        /\ state' = state /\ owner' = owner /\ namespace' = namespace /\ status' = status
    BY <1>4 DEF FinishDelete, instances
  <2>2. QED
    BY <1>1, <2>1
<1>5. CASE SyncReplicaSet
  BY <1>5 DEF SyncReplicaSet, instances
<1>6. CASE SyncDeployment
  BY <1>6 DEF SyncDeployment, instances
<1>7. CASE NamespaceGone
  <2>1. /\ job' = [job EXCEPT !.exists = FALSE] /\ namespace = "terminating"
        /\ state' = [i \in Ids |-> "absent"]
        /\ owner' = owner /\ namespace' = "absent" /\ status' = status
    BY <1>7 DEF NamespaceGone
  <2>2. QED
    BY <1>1, <2>1
<1>8. QED
  BY <1>2, <1>3, <1>4, <1>5, <1>6, <1>7 DEF Orchestrate

\* And so does what is true at any place.
LEMMA BasicsEnv ==
  ASSUME TypeOK, Basics, Environment
  PROVE  Basics'
<1>1. /\ flags' = flags /\ platform' = platform /\ errors' = errors
      /\ IsScheduler' = IsScheduler /\ OnK8s' = OnK8s
  BY Apart
<1>2. manifest' # "none" => flags.tool = "gitops"
  BY ManifestSteps DEF Basics
<1>3. /\ \A i \in Ids : /\ owner'[i] <= job'.id
                        /\ platform # "nomad" => state'[i] # "condemned"
                        /\ platform # "swarm" => state'[i] # "dead"
      /\ status'.gen <= job'.gen
      /\ job'.going => IsScheduler /\ OnK8s
      /\ IsScheduler => namespace' = "active"
      /\ flags.tool = "gitops" => namespace' # "terminating"
  <2>1. CASE Orchestrate
    BY <2>1, OrchestrateFacts, Parts DEF Basics
  <2>2. CASE UNCHANGED cluster
    BY <2>2 DEF Basics, cluster, instances
  <2>3. CASE CreateJob(IF flags.workload = "deployment" THEN 1 ELSE 0)
    <3>1. CreateJob(0) \/ CreateJob(1)
      BY <2>3
    <3>2. 0 \in Nat /\ 1 \in Nat
      OBVIOUS
    <3>3. /\ job'.id = job.id + 1 /\ ~job'.going /\ job'.gen = 1
          /\ state' = state /\ owner' = owner /\ status'.gen = 0 /\ namespace' = namespace
      BY <3>1, <3>2, CreateFacts
    <3>4. QED
      BY <3>3, Parts DEF Basics
  <2>4. QED
    BY <2>1, <2>2, <2>3, ManifestSteps
<1>4. QED
  BY <1>1, <1>2, <1>3 DEF Basics

\* A Deployment that the controller has made, or makes now, grows.
LEMMA AppliedEnv ==
  ASSUME TypeOK, Basics, Applied, Environment
  PROVE  Applied'
<1>1. flags' = flags /\ IsScheduler' = IsScheduler
  BY Apart
<1>2. ASSUME flags.tool = "gitops", flags.workload = "deployment", job'.exists
      PROVE  IsGrowing(1)'
  <2>1. 1 \in Nat /\ ~IsScheduler
    BY <1>2 DEF IsScheduler
  <2>2. CASE job.exists
    <3>1. IsGrowing(1)
      BY <1>2, <2>2 DEF Applied
    <3>2. QED
      BY <2>1, <3>1, GrowingEnv
  <2>3. CASE ~job.exists
    <3>1. CreateJob(1) /\ namespace = "active"
      <4>1. CASE Orchestrate
        BY <4>1, <1>2, <2>3, OrchestrateFacts
      <4>2. CASE UNCHANGED cluster
        BY <4>2, <1>2, <2>3 DEF cluster
      <4>3. QED
        BY <4>1, <4>2, <1>2, ManifestSteps
    <3>2. QED
      BY <1>1, <2>1, <3>1, CreateGrows
  <2>4. QED
    BY <2>2, <2>3
<1>3. QED
  BY <1>1, <1>2 DEF Applied

\* The controller makes a resource anew when it is missing, and only then.
LEMMA NumberedEnv ==
  ASSUME TypeOK, Basics, Numbered, Environment
  PROVE  Numbered'
<1>1. /\ flags' = flags /\ at' = at /\ errors' = errors
      /\ Healthy' = Healthy /\ Deletions' = Deletions /\ Leftover' = Leftover
  BY Apart DEF Healthy, Deletions, Script, Leftover
<1>2. ASSUME flags.tool = "gitops"
      PROVE  \/ job'.id = job.id /\ job'.exists = job.exists
             \/ job'.id = job.id + 1 /\ job'.exists /\ ~job.exists
  <2>1. CASE Orchestrate
    BY <2>1, <1>2, OrchestrateFacts, Parts DEF Basics, IsScheduler
  <2>2. CASE UNCHANGED cluster
    BY <2>2 DEF cluster
  <2>3. CASE ~job.exists /\ CreateJob(IF flags.workload = "deployment" THEN 1 ELSE 0)
    <3>1. CreateJob(0) \/ CreateJob(1)
      BY <2>3
    <3>2. 0 \in Nat /\ 1 \in Nat
      OBVIOUS
    <3>3. job'.id = job.id + 1 /\ job'.exists
      BY <3>1, <3>2, CreateFacts
    <3>4. QED
      BY <2>3, <3>3
  <2>4. QED
    BY <2>1, <2>2, <2>3, ManifestSteps
<1>3. Deletions \in Nat
  <2>1. IsFiniteSet({i \in 1 .. at - 1 : Script[i].do = "delete"})
    <3>1. at \in Int
      BY ScriptFacts DEF TypeOK, Script
    <3>2. IsFiniteSet(1 .. at - 1)
      BY <3>1, FS_Interval
    <3>3. QED
      BY <3>2, FS_Subset
  <2>2. QED
    BY <2>1, FS_CardinalityType DEF Deletions
<1>4. CASE flags.tool = "gitops" /\ ~Leftover /\ Healthy
  <2>1. job.id = Deletions + (IF flags.left THEN 1 ELSE 2) - (IF job.exists THEN 0 ELSE 1)
    BY <1>4 DEF Numbered
  <2>2. job'.id = Deletions + (IF flags.left THEN 1 ELSE 2) - (IF job'.exists THEN 0 ELSE 1)
    BY <1>2, <1>3, <1>4, <2>1, Parts
  <2>3. QED
    BY <1>1, <2>2 DEF Numbered
<1>5. QED
  BY <1>1, <1>4 DEF Numbered

\* After the last cleanup nothing comes back.
LEMMA EndedEnv ==
  ASSUME TypeOK, Basics, Ended, Environment
  PROVE  Ended'
<1>1. flags' = flags /\ at' = at /\ errors' = errors /\ IsScheduler' = IsScheduler
  BY Apart
<1>2. IsScheduler /\ (~job.exists \/ job.going) => ~job'.exists \/ job'.going
  BY DeletedSteps DEF IsScheduler
<1>3. flags.tool = "k8s" /\ namespace # "active" => namespace' # "active"
  <2>1. CASE Orchestrate
    BY <2>1, OrchestrateFacts
  <2>2. CASE UNCHANGED cluster
    BY <2>2 DEF cluster
  <2>3. QED
    BY <2>1, <2>2, ManifestSteps
<1>4. QED
  BY <1>1, <1>2, <1>3 DEF Ended

\* No step of the environment breaks the invariant.
LEMMA EnvironmentStep ==
  ASSUME IInv, Environment
  PROVE  IInv'
<1>1. TypeOK /\ Basics /\ Outlined /\ Applied /\ Numbered /\ Ended
  BY DEF IInv
<1>2. TypeOK' /\ Basics' /\ Applied' /\ Numbered' /\ Ended'
  BY <1>1, TypeEnv, BasicsEnv, AppliedEnv, NumberedEnv, EndedEnv
<1>3. Outlined'
  <2>1. /\ flags' = flags /\ Here' = Here /\ Healthy' = Healthy
    BY Apart DEF Healthy
  <2>2. ASSUME Healthy, NEW p, NEW r, p = Here, r = flags.replicas PROVE Holds(p, r)'
    <3>1. Holds(p, r)
      BY <1>1, <2>2 DEF Outlined
    <3>2. r \in Nat
      BY <1>1, <2>2, ReplicasNat
    <3>3. QED
      BY <1>1, <3>1, <3>2, HoldsEnv
  <2>3. QED
    BY <2>1, <2>2 DEF Outlined
<1>4. QED
  BY <1>2, <1>3 DEF IInv

-----------------------------------------------------------------------------
(* The program's place in its script.                                      *)

\* What a step of a script may be, by tool.
LEMMA TripleFacts ==
  ASSUME NEW f, NEW p, NEW s, NEW q, Triple(f, p, s, q)
  PROVE  /\ s.onError # "skip" /\ s.do # "deleteNamespace"
         /\ s.onError = "ignore" => f.tool \in {"k8s", "mesh"} /\ s.do \in {"delete", "gone"}
         /\ s.do \in {"push", "elsewhere"} => f.tool = "gitops"
         /\ s.do \in {"pick", "kill", "recovered"} => f.tool = "scheduler"
         /\ f.tool = "scheduler" => SchedulerTriple(f, p, s, q) /\ s.do # "namespace"
         /\ f.tool = "scheduler" /\ s.do = "create" => s.n = 1
         /\ f.tool = "scheduler" /\ s.do = "update" => s.n = 1 \/ s.n = f.replicas
         /\ f.tool = "gitops" =>
              /\ GitOpsTriple(f, p, s, q)
              /\ s.do \in {"namespace", "push", "elsewhere", "ready", "delete"}
         /\ f.tool \in {"k8s", "mesh"} => PlainTriple(f, p, s, q)
<1>1. CASE f.tool = "scheduler" /\ SchedulerTriple(f, p, s, q)
  BY <1>1 DEF SchedulerTriple
<1>2. CASE f.tool = "gitops" /\ GitOpsTriple(f, p, s, q)
  BY <1>2 DEF GitOpsTriple
<1>3. CASE f.tool \in {"k8s", "mesh"} /\ PlainTriple(f, p, s, q)
  BY <1>3 DEF PlainTriple
<1>4. QED
  BY <1>1, <1>2, <1>3 DEF Triple

\* The steps of the last cleanup.
LEMMA FinalSteps ==
  ASSUME NEW f \in Flags
  PROVE  /\ Len(Final(f)) \in Nat
         /\ f.tool = "scheduler" /\ ~f.keep =>
              /\ Len(Final(f)) = 2 /\ Final(f)[1] = Do("delete", 0, "skip")
              /\ Final(f)[2] = Do("gone", 0, "ignore")
         /\ f.tool = "k8s" /\ ~f.keep =>
              Len(Final(f)) = 1 /\ Final(f)[1] = Do("deleteNamespace", 0, "ignore")
         /\ f.tool \in {"mesh", "gitops"} \/ f.keep => Len(Final(f)) = 0
<1> DEFINE e == Final(f)
           x == Do("delete", 0, "skip")
           y == Do("gone", 0, "ignore")
           z == Do("deleteNamespace", 0, "ignore")
<1>1. /\ e \in Seq(Step)
      /\ f.tool = "scheduler" /\ ~f.keep => e = <<x, y>>
      /\ f.tool = "k8s" /\ ~f.keep => e = <<z>>
      /\ f.tool \in {"mesh", "gitops"} \/ f.keep => e = <<>>
  BY FinalFacts
<1> HIDE DEF e, x, y, z
<1>2. Len(e) \in Nat
  BY <1>1
<1>3. e = <<x, y>> => Len(e) = 2 /\ e[1] = x /\ e[2] = y
  OBVIOUS
<1>4. e = <<z>> => Len(e) = 1 /\ e[1] = z
  OBVIOUS
<1>5. e = <<>> => Len(e) = 0
  OBVIOUS
<1>6. QED
  BY <1>1, <1>2, <1>3, <1>4, <1>5 DEF e, x, y, z

\* Before the last cleanup the outline says what a step is; the last cleanup is one or
\* two steps.
LEMMA Place ==
  ASSUME TypeOK, ~Finished
  PROVE  /\ at \in Nat /\ at >= 1 /\ at <= Len(Script) /\ Len(Script) \in Nat
         /\ MainEnd[flags] \in Nat /\ MainEnd[flags] <= Len(Script)
         /\ Script[at] \in Step
         /\ at <= MainEnd[flags] =>
              Triple(flags, Here, Script[at], Outline(flags)[at + 1])
         /\ at > MainEnd[flags] =>
              /\ ~flags.keep
              /\ \/ /\ flags.tool = "scheduler" /\ at = MainEnd[flags] + 1
                    /\ Script[at] = Do("delete", 0, "skip") /\ Len(Script) = MainEnd[flags] + 2
                 \/ /\ flags.tool = "scheduler" /\ at = MainEnd[flags] + 2
                    /\ Script[at] = Do("gone", 0, "ignore") /\ Len(Script) = MainEnd[flags] + 2
                 \/ /\ flags.tool = "k8s" /\ at = MainEnd[flags] + 1
                    /\ Script[at] = Do("deleteNamespace", 0, "ignore")
                    /\ Len(Script) = MainEnd[flags] + 1
<1> DEFINE f == flags
           m == MainEnd[f]
           e == Final(f)
           s == Scripts[f]
           x == Do("delete", 0, "skip")
           y == Do("gone", 0, "ignore")
           z == Do("deleteNamespace", 0, "ignore")
<1>1. f \in Flags /\ at \in 1 .. Len(s) + 1 /\ ~(at > Len(s))
  BY DEF TypeOK, Script, Finished
<1>2. /\ m \in Nat /\ Len(s) \in Nat /\ s \in Seq(Step) /\ Len(s) = m + Len(e)
      /\ \A i \in 1 .. m : Triple(f, Outline(f)[i], s[i], Outline(f)[i + 1])
      /\ \A i \in 1 .. Len(e) : s[m + i] = e[i]
  BY <1>1, ScriptFacts
<1>3. /\ Len(e) \in Nat
      /\ f.tool = "scheduler" /\ ~f.keep => Len(e) = 2 /\ e[1] = x /\ e[2] = y
      /\ f.tool = "k8s" /\ ~f.keep => Len(e) = 1 /\ e[1] = z
      /\ f.tool \in {"mesh", "gitops"} \/ f.keep => Len(e) = 0
  BY <1>1, FinalSteps
<1>4. f.tool \in {"scheduler", "k8s", "mesh", "gitops"} /\ f.keep \in BOOLEAN
  BY <1>1, FlagFacts
<1> HIDE DEF m, e, s, f, x, y, z
<1>5. /\ at \in Nat /\ at >= 1 /\ at <= Len(s) /\ Len(e) \in Nat /\ m <= Len(s)
  BY <1>1, <1>2, <1>3
<1>6. s[at] \in Step
  BY <1>2, <1>5, ElementOfSeq
<1>7. at <= m => Triple(f, Outline(f)[at], s[at], Outline(f)[at + 1])
  BY <1>2, <1>5
<1>8. ASSUME at > m
      PROVE  /\ ~f.keep
             /\ \/ /\ f.tool = "scheduler" /\ at = m + 1
                   /\ s[at] = x /\ Len(s) = m + 2
                \/ /\ f.tool = "scheduler" /\ at = m + 2
                   /\ s[at] = y /\ Len(s) = m + 2
                \/ /\ f.tool = "k8s" /\ at = m + 1
                   /\ s[at] = z
                   /\ Len(s) = m + 1
  <2> DEFINE i == at - m
  <2>1. i \in 1 .. Len(e) /\ at = m + i
    BY <1>2, <1>5, <1>8
  <2> HIDE DEF i
  <2>2. s[at] = e[i] /\ Len(e) # 0
    BY <1>2, <2>1
  <2>3. CASE f.tool = "scheduler"
    <3>1. /\ ~f.keep /\ Len(e) = 2
          /\ e[1] = x /\ e[2] = y
      BY <1>3, <1>4, <2>2, <2>3
    <3>2. i = 1 \/ i = 2
      BY <2>1, <3>1
    <3>3. QED
      BY <1>2, <2>1, <2>2, <2>3, <3>1, <3>2
  <2>4. CASE f.tool = "k8s"
    <3>1. ~f.keep /\ Len(e) = 1 /\ e[1] = z
      BY <1>3, <1>4, <2>2, <2>4
    <3>2. i = 1
      BY <2>1, <3>1
    <3>3. QED
      BY <1>2, <2>1, <2>2, <2>4, <3>1, <3>2
  <2>5. QED
    BY <1>3, <1>4, <2>2, <2>3, <2>4
<1>9. QED
  BY <1>2, <1>5, <1>6, <1>7, <1>8 DEF m, s, f, x, y, z, Script, Here

\* Each request and wait ends in one of the two ways.
LEMMA ClientEnds ==
  ASSUME Client
  PROVE  /\ ~Finished /\ (Succeed \/ Fail)
         /\ flags' = flags /\ platform' = platform /\ IsScheduler' = IsScheduler
         /\ OnK8s' = OnK8s
<1>1. ~Finished /\ (Succeed \/ Fail) /\ flags' = flags
  BY DEF Client, Delete, Create, Ensure, Update, Namespace, Push, Elsewhere, Wait, Deadline,
         Pick, Kill, Doing, Served, NotServed, NothingToDo
<1>2. platform' = platform
  BY DEF Client, Delete, Create, Ensure, Update, Namespace, Push, Elsewhere, Wait, Deadline,
         Pick, Kill, Served, NotServed, NothingToDo, cluster, CreateJob, UpdateJob, DeleteJob,
         KillInstance, EnsureNamespace, DeleteNamespace
<1>3. QED
  BY <1>1, <1>2 DEF IsScheduler, OnK8s

\* The step that the program is at is the one that is taken.
LEMMA ByName ==
  ASSUME Client
  PROVE  /\ Script[at].do = "delete" => Delete
         /\ Script[at].do = "create" => Create
         /\ Script[at].do = "ensure" => Ensure
         /\ Script[at].do = "update" => Update
         /\ Script[at].do = "namespace" => Namespace
         /\ Script[at].do = "deleteNamespace" => Namespace
         /\ Script[at].do \in {"push", "elsewhere"} => Push \/ Elsewhere
         /\ Script[at].do \in {"ready", "gone", "recovered"} => Wait \/ Deadline
         /\ Script[at].do = "pick" => Pick
         /\ Script[at].do = "kill" => Kill
BY DEF Client, Delete, Create, Ensure, Update, Namespace, Push, Elsewhere, Wait, Deadline,
       Pick, Kill, Doing

\* Where the program goes on, and what it remembers of it.
LEMMA Onwards ==
  ASSUME TypeOK, ~Finished, Succeed \/ Fail
  PROVE  /\ at' \in 1 .. Len(Script) + 1
         /\ errors \subseteq errors' /\ errors' \subseteq ErrorKinds
         /\ Fail /\ at > MainEnd[flags] => "final" \in errors'
         /\ Fail /\ at <= MainEnd[flags] =>
              \/ at' = MainEnd[flags] + 1 /\ "bench" \in errors'
              \/ "exit" \in errors'
              \/ /\ Script[at].onError = "ignore" /\ at' = at + 1 /\ "ignored" \in errors'
                 /\ flags.tool \in {"k8s", "mesh"} /\ Script[at].do \in {"delete", "gone"}
         /\ "ignored" \in errors' => "ignored" \in errors \/ flags.tool \in {"k8s", "mesh"}
         /\ ~Fail => at' = at + 1 /\ errors' = errors
<1>1. PICK s : s = Script[at]
  OBVIOUS
<1>2. PICK o : o = s.onError
  OBVIOUS
<1>3. PICK m, L : m = MainEnd[flags] /\ L = Len(Script)
  OBVIOUS
<1> DEFINE k == Kind(o)
           n == After(o)
<1>4. /\ at \in Nat /\ at >= 1 /\ at <= L /\ L \in Nat /\ m \in Nat /\ m <= L
      /\ s \in Step
      /\ at <= m => Triple(flags, Here, s, Outline(flags)[at + 1])
  BY <1>1, <1>3, Place
<1>5. at > m => \/ at = m + 1 /\ o = "skip" /\ L = m + 2
                \/ o = "ignore"
  <2> DEFINE x == Do("delete", 0, "skip")
             y == Do("gone", 0, "ignore")
             z == Do("deleteNamespace", 0, "ignore")
  <2>1. x.onError = "skip" /\ y.onError = "ignore" /\ z.onError = "ignore"
    BY DoFacts
  <2>2. at > m => \/ at = m + 1 /\ s = x /\ L = m + 2
                  \/ s = y \/ s = z
    BY <1>1, <1>3, Place
  <2> HIDE DEF x, y, z
  <2>3. QED
    BY <1>2, <2>1, <2>2
<1>6. o \in {"ignore", "skip", "final", "exit"}
  BY <1>2, <1>4 DEF Step
<1>7. at <= m => /\ o # "skip"
                 /\ o = "ignore" => flags.tool \in {"k8s", "mesh"} /\ s.do \in {"delete", "gone"}
  BY <1>2, <1>4, TripleFacts
<1>8. errors \subseteq ErrorKinds
  BY DEF TypeOK
<1>9. Fail => at' = n /\ errors' = errors \union {k}
  BY <1>1, <1>2 DEF Fail
<1>10. /\ o = "ignore" => n = at + 1
       /\ o = "skip" => n = at + 2
       /\ o = "final" => n = m + 1
       /\ o = "exit" => n = L + 1
  BY <1>3 DEF After, CleanUp
<1>11. /\ at > m => k = "final"
       /\ ~(at > m) /\ o = "final" => k = "bench"
       /\ ~(at > m) /\ o = "exit" => k = "exit"
       /\ ~(at > m) /\ o = "ignore" => k = "ignored"
  <2>1. CASE at > m
    <3>1. at > MainEnd[flags] /\ o # "final" /\ o # "exit"
      BY <1>3, <1>5, <2>1
    <3>2. QED
      BY <2>1, <3>1 DEF Kind
  <2>2. CASE ~(at > m)
    <3>1. ~(at > MainEnd[flags])
      BY <1>3, <2>2
    <3>2. QED
      BY <2>2, <3>1 DEF Kind
  <2>3. QED
    BY <2>1, <2>2
<1>12. ~Fail => at' = at + 1 /\ errors' = errors
  BY DEF Succeed
<1> HIDE DEF k, n
<1>13. CASE Fail
  <2>1. k \in ErrorKinds
    BY <1>4, <1>6, <1>7, <1>11 DEF ErrorKinds
  <2>2. at' \in 1 .. L + 1
    BY <1>4, <1>5, <1>6, <1>7, <1>9, <1>10, <1>13
  <2>3. errors \subseteq errors' /\ errors' \subseteq ErrorKinds
    BY <1>8, <1>9, <1>13, <2>1
  <2>4. at > m => "final" \in errors'
    BY <1>9, <1>11, <1>13
  <2>5. at <= m => \/ at' = m + 1 /\ "bench" \in errors'
                   \/ "exit" \in errors'
                   \/ /\ o = "ignore" /\ at' = at + 1 /\ "ignored" \in errors'
                      /\ flags.tool \in {"k8s", "mesh"} /\ s.do \in {"delete", "gone"}
    BY <1>4, <1>6, <1>7, <1>9, <1>10, <1>11, <1>13
  <2>6. "ignored" \in errors' => "ignored" \in errors \/ flags.tool \in {"k8s", "mesh"}
    <3>1. k = "ignored" => at <= m /\ o = "ignore"
      BY <1>4, <1>6, <1>7, <1>11
    <3>2. QED
      BY <1>7, <1>9, <1>13, <3>1
  <2>7. QED
    BY <1>1, <1>2, <1>3, <1>13, <2>2, <2>3, <2>4, <2>5, <2>6
<1>14. CASE ~Fail
  BY <1>3, <1>4, <1>8, <1>12, <1>14
<1>15. QED
  BY <1>13, <1>14

\* As long as all is well the program goes from one place to the next; only
\* loadgen-k8s and loadgen-mesh go on after an error.
LEMMA Move ==
  ASSUME TypeOK, Basics, Client, Healthy'
  PROVE  /\ Healthy /\ at <= MainEnd[flags] /\ at' = at + 1
         /\ Triple(flags, Here, Script[at], Here')
         /\ ~Fail => errors' = errors
         /\ Fail => /\ flags.tool \in {"k8s", "mesh"} /\ Script[at].do \in {"delete", "gone"}
                    /\ errors' # {}
         /\ flags.tool \notin {"k8s", "mesh"} => errors = {}
<1>1. ~Finished /\ (Succeed \/ Fail) /\ flags' = flags
  BY ClientEnds
<1>2. at' <= MainEnd[flags] + 1 /\ errors' \subseteq {"ignored"}
  BY <1>1 DEF Healthy
<1>3. /\ at \in Nat /\ MainEnd[flags] \in Nat
      /\ at <= MainEnd[flags] =>
           Triple(flags, Here, Script[at], Outline(flags)[at + 1])
  BY <1>1, Place
<1>4. /\ errors \subseteq errors'
      /\ Fail /\ at > MainEnd[flags] => "final" \in errors'
      /\ Fail /\ at <= MainEnd[flags] =>
           \/ at' = MainEnd[flags] + 1 /\ "bench" \in errors'
           \/ "exit" \in errors'
           \/ /\ Script[at].onError = "ignore" /\ at' = at + 1 /\ "ignored" \in errors'
              /\ flags.tool \in {"k8s", "mesh"} /\ Script[at].do \in {"delete", "gone"}
      /\ ~Fail => at' = at + 1 /\ errors' = errors
  BY <1>1, Onwards
<1>5. "final" \notin errors' /\ "bench" \notin errors' /\ "exit" \notin errors'
  BY <1>2
<1>6. /\ at <= MainEnd[flags] /\ at' = at + 1
      /\ Fail => /\ flags.tool \in {"k8s", "mesh"} /\ Script[at].do \in {"delete", "gone"}
                 /\ "ignored" \in errors'
  BY <1>2, <1>3, <1>4, <1>5
<1>7. Healthy
  BY <1>2, <1>3, <1>4, <1>6 DEF Healthy
<1>8. Here' = Outline(flags)[at + 1]
  BY <1>1, <1>6 DEF Here
<1>9. flags.tool \notin {"k8s", "mesh"} => errors = {}
  BY <1>2, <1>4 DEF Basics
<1>10. QED
  BY <1>3, <1>4, <1>6, <1>7, <1>8, <1>9

-----------------------------------------------------------------------------
(* The program's steps.                                                    *)

\* What a wait of loadgen-scheduler counts are the workload's instances.
LEMMA ListedActive ==
  ASSUME TypeOK, IsScheduler, job.exists, NoStrangers
  PROVE  Listed \subseteq Active
<1>1. platform \in {"kubernetes", "nomad", "swarm"}
  BY DEF TypeOK, ClusterTypeOK, Platforms
<1>2. CASE platform = "kubernetes"
  BY <1>2 DEF Listed, Active, NoStrangers
<1>3. CASE platform = "nomad"
  BY <1>3 DEF Listed, Active, NoStrangers
<1>4. CASE platform = "swarm"
  BY <1>4 DEF Listed, Active
<1>5. QED
  BY <1>1, <1>2, <1>3, <1>4

\* If none of those listed is condemned or dead, then it counts those that serve.
LEMMA CountedServes ==
  ASSUME TypeOK, IsScheduler, job.exists, NoStrangers,
         \A i \in Listed : state[i] \in Unhurt
  PROVE  Counted = Serving
<1>1. platform \in {"kubernetes", "nomad", "swarm"}
  BY DEF TypeOK, ClusterTypeOK, Platforms
<1>2. Listed \subseteq Active
  BY ListedActive
<1>3. CASE platform = "kubernetes"
  BY <1>2, <1>3 DEF Counted, Listed, Serving, Active
<1>4. CASE platform = "nomad"
  BY <1>2, <1>4 DEF Counted, Listed, Serving, Active, Unhurt
<1>5. CASE platform = "swarm"
  BY <1>2, <1>5 DEF Counted, Listed, Serving, Active, Unhurt
<1>6. QED
  BY <1>1, <1>3, <1>4, <1>5

\* When as many serve as there are, those that exist are those that serve.
LEMMA AllServe ==
  ASSUME NEW n \in Nat, Cardinality(Active) <= n, Cardinality(Serving) >= n
  PROVE  Active = Serving /\ Cardinality(Active) = n
BY Counting

\* A wait that has ended tells, of a workload that grows, that enough serve.
LEMMA ReadyFull ==
  ASSUME TypeOK, Basics, NEW n \in Nat, IsGrowing(n), Ready(n), flags.tool # "gitops"
  PROVE  IsFull(n)
<1>1. /\ Wanted(n)
      /\ \A i \in Ids : Current(i) => state[i] \in Unhurt
      /\ OnK8s => /\ status.updated <= replicaSet.replicas
                  /\ status.ready <= replicaSet.ready /\ replicaSet.ready <= Cardinality(Serving)
  BY DEF IsGrowing
<1>2. job.exists /\ NoStrangers
  BY <1>1 DEF Wanted
<1>3. flags.tool = "scheduler" \/ platform = "kubernetes"
  BY FlagFacts DEF TypeOK, Basics
<1>4. CASE OnK8s
  <2>1. status.ready >= n /\ status.updated >= n
    <3>1. CASE IsScheduler
      BY <3>1, <1>4, Parts DEF Ready, SchedulerReady, StatusEquals, IsScheduler, OnK8s
    <3>2. CASE ~IsScheduler
      BY <3>2 DEF Ready, StatusReached, IsScheduler
    <3>3. QED
      BY <3>1, <3>2
  <2>2. Cardinality(Serving) >= n /\ replicaSet.replicas >= n
    BY <1>1, <1>4, <2>1, Parts, Counting
  <2>3. QED
    BY <2>2 DEF IsFull
<1>5. CASE ~OnK8s
  <2>1. IsScheduler /\ Cardinality(Counted) = n
    BY <1>3, <1>5 DEF Ready, SchedulerReady, IsScheduler, OnK8s
  <2>2. \A i \in Listed : state[i] \in Unhurt
    BY <1>1, <1>2, <2>1, ListedActive DEF Active
  <2>3. Counted = Serving
    BY <1>2, <2>1, <2>2, CountedServes
  <2>4. Cardinality(Serving) >= n
    BY <2>1, <2>3
  <2>5. QED
    BY <1>5, <2>4 DEF IsFull
<1>6. QED
  BY <1>4, <1>5

\* A wait for one, after the scale-down, tells that the others are gone.
LEMMA ReadyShrunk ==
  ASSUME TypeOK, Basics, NEW r \in Nat, r >= 2, IsShrinking(r), IsScheduler, Ready(1)
  PROVE  IsShrunk(r)
<1>1. Wanted(1) /\ Active = Serving /\ Telling(r)
  BY DEF IsShrinking
<1>2. CASE OnK8s
  <2>1. status.gen >= job.gen /\ status.updated = 1
    BY <1>2 DEF Ready, SchedulerReady, StatusEquals, IsScheduler, OnK8s
  <2>2. r > 2 => Cardinality(Active) = 1
    BY <1>1, <1>2, <2>1 DEF Telling
  <2>3. QED
    BY <1>2, <2>2 DEF IsShrunk
<1>3. CASE ~OnK8s
  <2>1. Cardinality(Counted) = 1
    BY <1>3 DEF Ready, SchedulerReady, IsScheduler, OnK8s
  <2>2. job.exists /\ NoStrangers
    BY <1>1 DEF Wanted
  <2>3. \A i \in Listed : state[i] \in Unhurt
    BY <1>1, <2>2, ListedActive DEF Serving, Unhurt
  <2>4. Counted = Serving
    BY <2>2, <2>3, CountedServes
  <2>5. QED
    BY <1>1, <2>1, <2>4 DEF IsShrunk
<1>4. QED
  BY <1>2, <1>3

\* A recovery is over when the others and the replacement serve.
LEMMA RecoveryOver ==
  ASSUME TypeOK, Basics, NEW r \in Nat, IsRecovering(r), IsScheduler, Recovered
  PROVE  IsRecovered(r)
<1>1. /\ Wanted(r) /\ replicas = r /\ victim \in Ids /\ killed = victim
      /\ \A i \in Ids : Current(i) /\ i # victim => state[i] \in Unhurt
      /\ state[victim] \in {"absent", "condemned", "dead"}
      /\ Cardinality(Active) <= r
      /\ OnK8s => replicaSet.want = r /\ replicaSet.replicas >= r - 1
  BY DEF IsRecovering
<1>2. Cardinality(Counted) = r /\ victim \notin Listed
  BY <1>1 DEF Recovered
<1>3. job.exists /\ NoStrangers
  BY <1>1 DEF Wanted
<1>4. \A i \in Listed : state[i] \in Unhurt
  BY <1>1, <1>2, <1>3, ListedActive DEF Active
<1>5. Counted = Serving
  BY <1>3, <1>4, CountedServes
<1>6. Active = Serving /\ Cardinality(Active) = r
  <2>1. Cardinality(Serving) >= r
    BY <1>2, <1>5
  <2>2. QED
    BY <1>1, <2>1, AllServe
<1>7. victim \notin Serving
  BY <1>1 DEF Serving
<1>8. QED
  BY <1>1, <1>6, <1>7 DEF IsRecovered

\* An update changes the number that is wanted, and is a new generation.
LEMMA UpdateFacts ==
  ASSUME TypeOK, NEW n \in Nat, UpdateJob(n)
  PROVE  /\ job'.id = job.id /\ job'.exists = job.exists /\ job'.going = job.going
         /\ job'.want = n /\ job'.gen = job.gen + 1
         /\ state' = state /\ owner' = owner /\ namespace' = namespace /\ platform' = platform
         /\ killed' = killed /\ replicaSet' = replicaSet /\ status' = status
         /\ Active' = Active /\ Serving' = Serving
         /\ \A i \in Ids : Current(i)' = Current(i)
         /\ ClusterTypeOK'
<1>1. /\ job' = [job EXCEPT !.want = n, !.gen = @ + 1]
      /\ state' = state /\ owner' = owner /\ namespace' = namespace /\ platform' = platform
      /\ killed' = killed /\ replicaSet' = replicaSet /\ status' = status
  BY DEF UpdateJob, instances
<1>2. job \in [id : Nat, exists : BOOLEAN, going : BOOLEAN, want : Nat, gen : Nat]
  BY DEF TypeOK, ClusterTypeOK
<1>3. /\ job'.id = job.id /\ job'.exists = job.exists /\ job'.going = job.going
      /\ job'.want = n /\ job'.gen = job.gen + 1
      /\ job' \in [id : Nat, exists : BOOLEAN, going : BOOLEAN, want : Nat, gen : Nat]
  <2> DEFINE g == job.gen + 1
  <2>1. job' = [job EXCEPT !.want = n, !.gen = g] /\ g \in Nat
    BY <1>1, <1>2
  <2> HIDE DEF g
  <2>2. /\ job'.id = job.id /\ job'.exists = job.exists /\ job'.going = job.going
        /\ job'.want = n /\ job'.gen = g
    BY <1>2, <2>1
  <2>3. job' \in [id : Nat, exists : BOOLEAN, going : BOOLEAN, want : Nat, gen : Nat]
    BY <1>2, <2>1
  <2>4. QED
    BY <2>2, <2>3 DEF g
<1>4. \A i \in Ids : Current(i)' = Current(i)
  BY <1>1, <1>3 DEF Current
<1>5. Active' = Active /\ Serving' = Serving
  BY <1>1, <1>3 DEF Active, Serving, Current
<1>6. ClusterTypeOK'
  BY <1>1, <1>3 DEF TypeOK, ClusterTypeOK
<1>7. QED
  BY <1>1, <1>3, <1>4, <1>5, <1>6

\* A deletion takes the workload away at once, or marks it.
LEMMA DeleteFacts ==
  ASSUME TypeOK, NEW b \in BOOLEAN, DeleteJob(b)
  PROVE  /\ job'.id = job.id /\ job'.gen = job.gen /\ job'.want = job.want
         /\ ~job'.exists \/ job'.going
         /\ ~b => ~job'.exists
         /\ job'.going => job.going \/ b
         /\ state' = state /\ owner' = owner /\ namespace' = namespace /\ platform' = platform
         /\ replicaSet' = replicaSet /\ status' = status
         /\ ClusterTypeOK'
<1>1. /\ job' = IF b THEN [job EXCEPT !.going = TRUE] ELSE [job EXCEPT !.exists = FALSE]
      /\ state' = state /\ owner' = owner /\ namespace' = namespace /\ platform' = platform
      /\ killed' = killed /\ replicaSet' = replicaSet /\ status' = status
  BY DEF DeleteJob, instances
<1>2. job \in [id : Nat, exists : BOOLEAN, going : BOOLEAN, want : Nat, gen : Nat]
  BY DEF TypeOK, ClusterTypeOK
<1>3. /\ job'.id = job.id /\ job'.gen = job.gen /\ job'.want = job.want
      /\ ~job'.exists \/ job'.going
      /\ ~b => ~job'.exists
      /\ job'.going => job.going \/ b
      /\ job' \in [id : Nat, exists : BOOLEAN, going : BOOLEAN, want : Nat, gen : Nat]
  <2>1. CASE b
    <3>1. job' = [job EXCEPT !.going = TRUE]
      BY <1>1, <2>1
    <3>2. QED
      BY <1>2, <2>1, <3>1
  <2>2. CASE ~b
    <3>1. job' = [job EXCEPT !.exists = FALSE]
      BY <1>1, <2>2
    <3>2. QED
      BY <1>2, <2>2, <3>1
  <2>3. QED
    BY <2>1, <2>2
<1>4. ClusterTypeOK'
  BY <1>1, <1>3 DEF TypeOK, ClusterTypeOK
<1>5. QED
  BY <1>1, <1>3, <1>4

\* A killed instance is gone, condemned or dead, and the others are let alone.
LEMMA KillFacts ==
  ASSUME TypeOK, NEW v \in Ids, KillInstance(v)
  PROVE  /\ job' = job /\ owner' = owner /\ namespace' = namespace /\ platform' = platform
         /\ replicaSet' = replicaSet /\ status' = status /\ killed' = v
         /\ \A i \in Ids : Current(i)' = Current(i)
         /\ \A i \in Ids : i # v => state'[i] = state[i]
         /\ state'[v] \in {"absent", "condemned", "dead"}
         /\ platform # "nomad" => state'[v] # "condemned"
         /\ platform # "swarm" => state'[v] # "dead"
         /\ Active' \subseteq Active \union {v} /\ Active \ {v} \subseteq Active'
         /\ v \in Active => /\ Cardinality(Active)' <= Cardinality(Active)
                            /\ Cardinality(Active)' >= Cardinality(Active) - 1
         /\ ClusterTypeOK'
<1> DEFINE c == CASE platform = "kubernetes" -> "absent"
                  [] platform = "nomad"      -> "condemned"
                  [] platform = "swarm"      -> "dead"
<1>1. /\ state' = [state EXCEPT ![v] = c] /\ killed' = v
      /\ job' = job /\ owner' = owner /\ namespace' = namespace /\ platform' = platform
      /\ replicaSet' = replicaSet /\ status' = status
  BY DEF KillInstance
<1>2. platform \in {"kubernetes", "nomad", "swarm"} /\ state \in [Ids -> InstanceStates]
  BY DEF TypeOK, ClusterTypeOK, Platforms
<1>3. /\ platform = "kubernetes" => c = "absent"
      /\ platform = "nomad" => c = "condemned"
      /\ platform = "swarm" => c = "dead"
  OBVIOUS
<1> HIDE DEF c
<1>4. /\ \A i \in Ids : i # v => state'[i] = state[i]
      /\ state'[v] = c
      /\ c \in {"absent", "condemned", "dead"}
      /\ platform # "nomad" => c # "condemned"
      /\ platform # "swarm" => c # "dead"
  BY <1>1, <1>2, <1>3
<1>5. \A i \in Ids : Current(i)' = Current(i)
  BY <1>1 DEF Current
<1>6. Active' \subseteq Active \union {v} /\ Active \ {v} \subseteq Active'
  BY <1>4, <1>5 DEF Active
<1>7. ASSUME v \in Active
      PROVE  /\ Cardinality(Active)' <= Cardinality(Active)
             /\ Cardinality(Active)' >= Cardinality(Active) - 1
  <2>1. Active' = Active \/ Active' = Active \ {v}
    BY <1>6, <1>7
  <2>2. Cardinality(Active \ {v}) = Cardinality(Active) - 1
    BY <1>7, Counting, FS_RemoveElement
  <2>3. QED
    BY <2>1, <2>2, Counting
<1>8. ClusterTypeOK'
  <2>1. c \in InstanceStates /\ v \in 0 .. MaxInstances
    BY <1>4, MaxInstancesAssumption DEF InstanceStates, Ids
  <2>2. state' \in [Ids -> InstanceStates]
    BY <1>1, <1>2, <2>1
  <2>3. QED
    BY <1>1, <2>1, <2>2 DEF TypeOK, ClusterTypeOK
<1>9. QED
  BY <1>1, <1>4, <1>5, <1>6, <1>7, <1>8

\* Waits and requests that find nothing to do leave the cluster alone.
LEMMA Untouched ==
  ASSUME UNCHANGED cluster
  PROVE  /\ job' = job /\ state' = state /\ owner' = owner /\ namespace' = namespace
         /\ platform' = platform /\ killed' = killed /\ replicaSet' = replicaSet
         /\ status' = status /\ Active' = Active /\ Serving' = Serving
         /\ \A i \in Ids : Current(i)' = Current(i)
BY SameSets DEF cluster, instances

\* Then an assertion stays true, if the program remembers the same.
LEMMA SameHolds ==
  ASSUME UNCHANGED cluster, flags' = flags, replicas' = replicas,
         NEW n, NEW r
  PROVE  /\ IsFull(n) => IsFull(n)'
         /\ IsShrunk(r) => IsShrunk(r)'
         /\ victim' = victim /\ IsRecovered(r) => IsRecovered(r)'
         /\ IsClean => IsClean'
         /\ NoStrangers => NoStrangers'
<1>1. /\ job' = job /\ state' = state /\ owner' = owner /\ namespace' = namespace
      /\ platform' = platform /\ killed' = killed /\ replicaSet' = replicaSet
      /\ status' = status /\ Active' = Active /\ Serving' = Serving
      /\ \A i \in Ids : Current(i)' = Current(i)
  BY Untouched
<1>2. IsScheduler' = IsScheduler /\ OnK8s' = OnK8s
  BY <1>1 DEF IsScheduler, OnK8s
<1>3. NoStrangers' = NoStrangers
  BY <1>1, <1>2 DEF NoStrangers
<1>4. Wanted(n)' = Wanted(n) /\ Wanted(r)' = Wanted(r) /\ Wanted(1)' = Wanted(1)
  BY <1>1, <1>3 DEF Wanted
<1>5. IsFull(n) => IsFull(n)'
  BY <1>1, <1>2, <1>4 DEF IsFull, IsGrowing
<1>6. IsShrunk(r) => IsShrunk(r)'
  BY <1>1, <1>2, <1>4 DEF IsShrunk, IsShrinking, Telling
<1>7. victim' = victim /\ IsRecovered(r) => IsRecovered(r)'
  BY <1>1, <1>2, <1>4 DEF IsRecovered
<1>8. Listed' = Listed /\ Counted' = Counted
  BY <1>1 DEF Listed, Counted, Current
<1>9. IsClean => IsClean'
  BY <1>1, <1>2, <1>8 DEF IsClean, IsDeleted
<1>10. QED
  BY <1>3, <1>5, <1>6, <1>7, <1>9

\* What a label stands for.
LEMMA Labels ==
  /\ \A w : Known(w)[1] = w
  /\ \A n : Growing(n)[1] = "growing" /\ Growing(n)[2] = n
  /\ \A n : Full(n)[1] = "full" /\ Full(n)[2] = n
BY DEF Known, Growing, Full

\* The steps of loadgen-scheduler.
LEMMA SchedulerMove ==
  ASSUME TypeOK, Basics, Client, Healthy', IsScheduler,
         NEW r \in Nat, r = flags.replicas,
         NEW p, Holds(p, r), NEW q, NEW s, s = Script[at],
         SchedulerTriple(flags, p, s, q), ~Fail, errors = {}, errors' = errors
  PROVE  Holds(q, r)'
<1>1. /\ flags' = flags /\ platform' = platform /\ IsScheduler' = IsScheduler
      /\ OnK8s' = OnK8s /\ r >= 2
  BY ClientEnds, FlagFacts DEF TypeOK, IsScheduler
<1>2. \A n : Note(n) => replicas' = n
  BY DEF Note
<1>3. /\ \A request : Served(request) => request
      /\ ~NotServed
      /\ NothingToDo => UNCHANGED cluster
  BY DEF Served, NotServed, NothingToDo
<1>4. IsScheduler /\ flags.tool # "gitops"
  BY DEF IsScheduler
<1>5. platform \in {"kubernetes", "nomad", "swarm"}
  BY DEF TypeOK, ClusterTypeOK, Platforms
<1>6. CASE s.do = "delete" /\ p \in {Known("calm"), Known("shrunk")} /\ q = Known("deleted")
  <2>1. Delete
    BY <1>6, ByName
  <2>2. IsEmpty \/ IsShrinking(r)
    BY <1>6, Labels DEF Holds, IsShrunk
  <2>3. platform # "swarm" => \A i \in Ids : state[i] # "pending"
    <3>1. CASE IsEmpty
      BY <3>1 DEF IsEmpty
    <3>2. CASE IsShrinking(r)
      BY <3>2, <1>4 DEF IsShrinking, Wanted, NoStrangers, Active, Serving
    <3>3. QED
      BY <2>2, <3>1, <3>2
  <2>4. state' = state /\ (~job'.exists \/ job'.going)
    <3>1. CASE ~job.exists /\ UNCHANGED cluster
      BY <3>1, Untouched
    <3>2. CASE DeleteJob(Foreground)
      <4>1. Foreground \in BOOLEAN
        BY DEF Foreground, IsScheduler
      <4>2. DeleteJob(TRUE) \/ DeleteJob(FALSE)
        BY <3>2, <4>1
      <4>3. QED
        BY <4>2, DeleteFacts
    <3>3. QED
      BY <2>1, <1>3, <3>1, <3>2 DEF Delete
  <2>5. IsDeleted'
    BY <1>1, <1>4, <2>3, <2>4 DEF IsDeleted
  <2>6. QED
    BY <1>6, <2>5, Labels DEF Holds
<1>7. CASE s.do = "gone" /\ p = Known("deleted") /\ q = Known("clean")
  <2>1. Wait
    BY <1>3, <1>7, ByName DEF Deadline
  <2>2. Gone /\ UNCHANGED cluster /\ replicas' = replicas
    BY <1>3, <1>7, <2>1 DEF Wait, Doing, client
  <2>3. IsClean
    BY <1>4, <1>7, <2>2, Labels DEF Holds, IsClean, Gone
  <2>4. IsClean'
    BY <1>1, <2>2, <2>3, SameHolds
  <2>5. QED
    BY <1>7, <2>4, Labels DEF Holds
<1>8. CASE s.do = "create" /\ s.n = 1 /\ p = Known("clean") /\ q = Growing(1)
  <2>1. IsClean
    BY <1>8, Labels DEF Holds
  <2>2. /\ Counted = {} /\ (~job.exists \/ job.going)
        /\ platform # "swarm" => \A i \in Ids : state[i] # "pending"
    BY <1>4, <2>1 DEF IsClean, IsDeleted
  <2>3. job.exists => OnK8s
    BY <2>2 DEF Basics
  <2>4. Create /\ Number = 1
    BY <1>8, ByName DEF Number
  <2>5. CreateJob(1) /\ namespace = "active" /\ replicas' = 1
    <3>1. Create => \/ ~job.exists /\ namespace = "active" /\ CreateJob(1)
                    \/ job.exists /\ platform = "nomad"
      BY <1>3, <2>4 DEF Create
    <3>2. QED
      BY <1>2, <2>3, <2>4, <3>1 DEF OnK8s, Create
  <2>6. platform # "swarm" => \A i \in Ids : state[i] = "absent"
    <3>1. \A i \in Ids : state[i] \in InstanceStates
      BY Parts
    <3>2. CASE platform = "kubernetes"
      BY <2>2, <3>1, <3>2 DEF Counted, Listed, Basics, InstanceStates
    <3>3. CASE platform = "nomad"
      BY <2>2, <3>1, <3>3 DEF Counted, Listed, Basics, InstanceStates
    <3>4. QED
      BY <1>5, <3>2, <3>3
  <2>7. 1 \in Nat
    OBVIOUS
  <2>8. IsGrowing(1)'
    BY <1>1, <2>5, <2>6, <2>7, CreateGrows
  <2>9. QED
    BY <1>8, <2>8, Labels DEF Holds
<1>9. CASE s.do = "ready" /\ s.n > 0 /\ p = Growing(s.n) /\ q = Full(s.n)
  <2>1. Wait
    BY <1>3, <1>9, ByName DEF Deadline
  <2>2. Ready(Number) /\ UNCHANGED cluster /\ replicas' = replicas
    BY <1>3, <1>9, <2>1 DEF Wait, Doing, client
  <2>3. PICK n : n = s.n
    OBVIOUS
  <2>4. IsGrowing(n) /\ Ready(n)
    BY <1>9, <2>2, <2>3, Labels DEF Holds, Number
  <2>5. n \in Nat
    BY <2>4, Parts DEF IsGrowing, Wanted
  <2>6. IsFull(n)
    BY <1>4, <2>4, <2>5, ReadyFull
  <2>7. IsFull(n)'
    BY <1>1, <2>2, <2>6, SameHolds
  <2>8. q[1] = "full" /\ q[2] = n
    BY <1>9, <2>3, Labels
  <2>9. QED
    BY <2>7, <2>8 DEF Holds
<1>10. CASE s.do = "update" /\ s.n = flags.replicas /\ p = Full(1) /\ q = Growing(flags.replicas)
  <2>1. Update /\ Number = r
    BY <1>10, ByName DEF Number
  <2>2. UpdateJob(r) /\ job.exists /\ replicas' = r
    BY <1>2, <1>3, <2>1 DEF Update, ReplicasSet
  <2>3. /\ IsGrowing(1)
    BY <1>10, Labels DEF Holds, IsFull
  <2>4. /\ job'.exists = job.exists /\ job'.going = job.going /\ job'.want = r
        /\ state' = state /\ namespace' = namespace
        /\ replicaSet' = replicaSet /\ status' = status
        /\ Active' = Active /\ Serving' = Serving
        /\ \A i \in Ids : Current(i)' = Current(i)
    BY <2>2, UpdateFacts
  <2>5. NoStrangers'
    BY <1>1, <2>3, <2>4 DEF IsGrowing, Wanted, NoStrangers
  <2>6. Wanted(r)'
    BY <2>3, <2>4, <2>5 DEF IsGrowing, Wanted
  <2>7. IsGrowing(r)'
    BY <1>1, <2>2, <2>3, <2>4, <2>6, Counting, Parts DEF IsGrowing
  <2>8. q[1] = "growing" /\ q[2] = r
    BY <1>10, Labels
  <2>9. QED
    BY <2>7, <2>8 DEF Holds
<1>11. CASE s.do = "pick" /\ p = Full(flags.replicas) /\ q = Known("picked")
  <2>1. Pick
    BY <1>11, ByName
  <2>2. victim' \in Listed /\ UNCHANGED cluster /\ replicas' = replicas
    BY <1>3, <2>1 DEF Pick
  <2>3. IsFull(r)
    BY <1>11, Labels DEF Holds
  <2>4. job.exists /\ NoStrangers /\ Cardinality(Active) <= r /\ Cardinality(Serving) >= r
    BY <2>3 DEF IsFull, IsGrowing, Wanted
  <2>5. victim' \in Serving
    BY <1>4, <2>2, <2>4, ListedActive, AllServe
  <2>6. IsFull(r)' /\ Serving' = Serving
    BY <1>1, <2>2, <2>3, SameHolds, Untouched
  <2>7. IsPicked(r)'
    BY <2>5, <2>6 DEF IsPicked
  <2>8. QED
    BY <1>11, <2>7, Labels DEF Holds
<1>12. CASE s.do = "kill" /\ p = Known("picked") /\ q = Known("recovering")
  <2>1. Kill
    BY <1>12, ByName
  <2>2. KillInstance(victim) /\ replicas' = replicas /\ victim' = victim
    BY <1>3, <2>1 DEF Kill, client
  <2>3. IsFull(r) /\ IsGrowing(r) /\ victim \in Serving
    BY <1>12, Labels DEF Holds, IsPicked, IsFull
  <2>4. PICK v : v = victim
    OBVIOUS
  <2>5. v \in Ids /\ v \in Active /\ KillInstance(v)
    BY <2>2, <2>3, <2>4 DEF Serving, Active
  <2>6. /\ job' = job /\ namespace' = namespace /\ replicaSet' = replicaSet /\ killed' = v
        /\ \A i \in Ids : Current(i)' = Current(i)
        /\ \A i \in Ids : i # v => state'[i] = state[i]
        /\ state'[v] \in {"absent", "condemned", "dead"}
        /\ Cardinality(Active)' <= Cardinality(Active)
        /\ Cardinality(Active)' >= Cardinality(Active) - 1
    BY <2>5, KillFacts
  <2>7. /\ Wanted(r) /\ replicas = r
        /\ \A i \in Ids : Current(i) => state[i] \in Unhurt
        /\ Cardinality(Active) = r
        /\ OnK8s => /\ Cardinality(Active) <= replicaSet.want /\ replicaSet.want <= r
                    /\ replicaSet.replicas >= r
    <3>1. Cardinality(Active) <= r /\ Cardinality(Serving) >= r
      BY <2>3 DEF IsFull, IsGrowing
    <3>2. Cardinality(Active) = r
      BY <3>1, AllServe
    <3>3. QED
      BY <1>4, <2>3, <3>2 DEF IsFull, IsGrowing
  <2>8. Wanted(r)'
    <3>1. Current(v)
      BY <2>5 DEF Active
    <3>2. NoStrangers'
      BY <1>1, <2>6, <2>7, <3>1 DEF Wanted, NoStrangers
    <3>3. QED
      BY <2>6, <2>7, <3>2 DEF Wanted
  <2>9. /\ Cardinality(Active)' <= r /\ Cardinality(Active)' >= r - 1
        /\ OnK8s => replicaSet'.want = r /\ replicaSet'.replicas >= r - 1
    BY <2>6, <2>7, CountingNext, Parts
  <2>10. IsRecovering(r)'
    BY <1>1, <2>2, <2>4, <2>5, <2>6, <2>7, <2>8, <2>9 DEF IsRecovering
  <2>11. QED
    BY <1>12, <2>10, Labels DEF Holds
<1>13. CASE s.do = "recovered" /\ p = Known("recovering") /\ q = Known("recovered")
  <2>1. Wait
    BY <1>3, <1>13, ByName DEF Deadline
  <2>2. Recovered /\ UNCHANGED cluster /\ replicas' = replicas /\ victim' = victim
    BY <1>3, <1>13, <2>1 DEF Wait, Doing, client
  <2>3. IsRecovering(r)
    BY <1>13, Labels DEF Holds
  <2>4. IsRecovered(r)
    BY <1>4, <2>2, <2>3, RecoveryOver
  <2>5. IsRecovered(r)'
    BY <1>1, <2>2, <2>4, SameHolds
  <2>6. QED
    BY <1>13, <2>5, Labels DEF Holds
<1>14. CASE s.do = "update" /\ s.n = 1 /\ p = Known("recovered") /\ q = Known("shrinking")
  <2>1. Update /\ Number = 1
    BY <1>14, ByName DEF Number
  <2>2. UpdateJob(1) /\ job.exists
    BY <1>3, <2>1 DEF Update
  <2>3. IsRecovered(r)
    BY <1>14, Labels DEF Holds
  <2>4. 1 \in Nat
    OBVIOUS
  <2>5. /\ job'.exists = job.exists /\ job'.going = job.going /\ job'.want = 1
        /\ job'.gen = job.gen + 1
        /\ state' = state /\ namespace' = namespace
        /\ replicaSet' = replicaSet /\ status' = status
        /\ Active' = Active /\ Serving' = Serving
        /\ \A i \in Ids : Current(i)' = Current(i)
    BY <2>2, <2>4, UpdateFacts
  <2>6. /\ Wanted(r) /\ Active = Serving /\ Cardinality(Active) = r
        /\ OnK8s => replicaSet.want = r /\ replicaSet.replicas >= r - 1
    BY <2>3 DEF IsRecovered
  <2>7. Wanted(1)'
    <3>1. NoStrangers'
      BY <1>1, <2>5, <2>6 DEF Wanted, NoStrangers
    <3>2. QED
      BY <2>5, <2>6, <3>1 DEF Wanted
  <2>8. Telling(r)'
    <3>1. ~(status'.gen >= job'.gen)
      BY <2>5, Parts DEF Basics
    <3>2. OnK8s /\ r > 2 => ~(replicaSet'.replicas <= 1)
      BY <2>5, <2>6, Parts
    <3>3. QED
      BY <1>1, <3>1, <3>2 DEF Telling
  <2>9. IsShrinking(r)'
    BY <1>1, <2>5, <2>6, <2>7, <2>8 DEF IsShrinking
  <2>10. QED
    BY <1>14, <2>9, Labels DEF Holds
<1>15. CASE s.do = "ready" /\ s.n = 1 /\ p = Known("shrinking") /\ q = Known("shrunk")
  <2>1. Wait
    BY <1>3, <1>15, ByName DEF Deadline
  <2>2. Ready(1) /\ UNCHANGED cluster /\ replicas' = replicas
    BY <1>3, <1>15, <2>1 DEF Wait, Doing, client, Number
  <2>3. IsShrinking(r)
    BY <1>15, Labels DEF Holds
  <2>4. IsShrunk(r)
    BY <1>1, <1>4, <2>2, <2>3, ReadyShrunk
  <2>5. IsShrunk(r)'
    BY <1>1, <2>2, <2>4, SameHolds
  <2>6. QED
    BY <1>15, <2>5, Labels DEF Holds
<1>16. QED
  BY <1>6, <1>7, <1>8, <1>9, <1>10, <1>11, <1>12, <1>13, <1>14, <1>15 DEF SchedulerTriple

\* The steps of loadgen-k8s and loadgen-mesh, some of which go on after an error.
LEMMA PlainMove ==
  ASSUME TypeOK, Basics, Client, Healthy', flags.tool \in {"k8s", "mesh"},
         NEW r \in Nat, r = flags.replicas,
         NEW p, Holds(p, r), NEW q, NEW s, s = Script[at], s.n \in Nat,
         PlainTriple(flags, p, s, q),
         ~Fail => errors' = errors,
         Fail => s.do \in {"delete", "gone"} /\ errors' # {}
  PROVE  Holds(q, r)'
<1>1. /\ flags' = flags /\ platform' = platform /\ IsScheduler' = IsScheduler
      /\ OnK8s' = OnK8s /\ r >= 1
  BY ClientEnds, FlagFacts DEF TypeOK
<1>2. /\ \A request : Served(request) => request
      /\ NotServed => Fail
      /\ NothingToDo => UNCHANGED cluster
  BY DEF Served, NotServed, NothingToDo
<1>3. ~IsScheduler /\ flags.tool # "gitops" /\ platform = "kubernetes" /\ OnK8s
  BY FlagFacts DEF TypeOK, Basics, IsScheduler, OnK8s
<1>4. \A n : Note(n) => replicas' = replicas
  BY <1>3 DEF Note
<1>5. CASE s.do = "namespace" /\ q = p /\ (p = Known("any") \/ p = Full(flags.replicas))
  <2>1. CASE p = Known("any")
    BY <1>5, <2>1, Labels DEF Holds
  <2>2. CASE p = Full(flags.replicas)
    <3>1. Namespace /\ ~NotServed
      BY <1>2, <1>5, ByName
    <3>2. EnsureNamespace /\ replicas' = replicas
      BY <1>2, <1>5, <3>1 DEF Namespace, Doing, client
    <3>3. IsFull(r)
      BY <2>2, Labels DEF Holds
    <3>4. namespace = "active"
      BY <3>3 DEF IsFull, IsGrowing, Wanted
    <3>5. UNCHANGED cluster
      BY <3>2, <3>4 DEF EnsureNamespace, cluster
    <3>6. IsFull(r)'
      BY <1>1, <3>2, <3>3, <3>5, SameHolds
    <3>7. q[1] = "full" /\ q[2] = r
      BY <1>5, <2>2, Labels
    <3>8. QED
      BY <3>6, <3>7 DEF Holds
  <2>3. QED
    BY <1>5, <2>1, <2>2
<1>6. CASE s.do = "delete" /\ q = Known("deleted")
  <2>1. Delete
    BY <1>6, ByName
  <2>2. errors' = {} => IsDeleted'
    <3>1. CASE NotServed
      BY <1>2, <3>1
    <3>2. CASE ~job.exists /\ UNCHANGED cluster
      <4>1. ~job'.exists
        BY <3>2, Untouched
      <4>2. QED
        BY <1>1, <1>3, <4>1 DEF IsDeleted
    <3>3. CASE DeleteJob(Foreground)
      <4>1. ~Foreground /\ FALSE \in BOOLEAN
        BY <1>3 DEF Foreground
      <4>2. DeleteJob(FALSE)
        BY <3>3, <4>1 DEF DeleteJob
      <4>3. ~job'.exists
        BY <4>1, <4>2, DeleteFacts
      <4>4. QED
        BY <1>1, <1>3, <4>3 DEF IsDeleted
    <3>4. QED
      BY <1>2, <2>1, <3>1, <3>2, <3>3 DEF Delete
  <2>3. QED
    BY <1>6, <2>2, Labels DEF Holds
<1>7. CASE s.do = "gone" /\ p = Known("deleted") /\ q = Known("clean")
  <2>1. CASE Fail
    BY <1>7, <2>1, Labels DEF Holds
  <2>2. CASE ~Fail
    <3>1. Wait
      BY <1>2, <1>7, <2>2, ByName DEF Deadline
    <3>2. Gone /\ UNCHANGED cluster /\ replicas' = replicas
      BY <1>2, <1>7, <3>1 DEF Wait, Doing, client
    <3>3. Listed = {} /\ Counted = {}
      BY <1>3, <3>2 DEF Gone, PodsGone, Counted
    <3>4. errors = {} => IsClean
      BY <1>7, <3>3, Labels DEF Holds, IsClean
    <3>5. errors = {} => IsClean'
      BY <1>1, <3>2, <3>4, SameHolds
    <3>6. QED
      BY <1>7, <2>2, <3>5, Labels DEF Holds
  <2>3. QED
    BY <2>1, <2>2
<1>8. CASE s.do = "create" /\ s.n > 0 /\ p = Known("clean") /\ q = Growing(s.n)
  <2>1. Create /\ Number = s.n /\ ~NotServed
    BY <1>2, <1>8, ByName DEF Number
  <2>2. PICK n : n = s.n
    OBVIOUS
  <2>3. CreateJob(n) /\ namespace = "active"
    BY <1>2, <1>3, <2>1, <2>2 DEF Create
  <2>4. n \in Nat
    BY <2>2
  <2>5. IsGrowing(n)'
    BY <1>1, <1>3, <2>3, <2>4, CreateGrows
  <2>6. q[1] = "growing" /\ q[2] = n
    BY <1>8, <2>2, Labels
  <2>7. QED
    BY <2>5, <2>6 DEF Holds
<1>9. CASE s.do = "ensure" /\ s.n > 0 /\ p = Full(flags.replicas) /\ q = p
  <2>1. Ensure /\ ~NotServed
    BY <1>2, <1>9, ByName
  <2>2. IsFull(r)
    BY <1>9, Labels DEF Holds
  <2>3. job.exists
    BY <2>2 DEF IsFull, IsGrowing, Wanted
  <2>4. UNCHANGED cluster /\ replicas' = replicas
    BY <1>2, <2>1, <2>3 DEF Ensure, client
  <2>5. IsFull(r)'
    BY <1>1, <2>2, <2>4, SameHolds
  <2>6. q[1] = "full" /\ q[2] = r
    BY <1>9, Labels
  <2>7. QED
    BY <2>5, <2>6 DEF Holds
<1>10. CASE s.do = "update" /\ p[1] = "full"
  <2>1. Update /\ Number = s.n /\ ~NotServed
    BY <1>2, <1>10, ByName DEF Number
  <2>2. PICK n, m : n = s.n /\ m = p[2]
    OBVIOUS
  <2>3. UpdateJob(n) /\ n \in Nat
    BY <1>2, <2>1, <2>2 DEF Update
  <2>4. IsFull(m) /\ IsGrowing(m) /\ Wanted(m)
    BY <1>10, <2>2 DEF Holds, IsFull, IsGrowing
  <2>5. m \in Nat
    BY <2>4, Parts DEF Wanted
  <2>6. /\ job'.exists = job.exists /\ job'.going = job.going /\ job'.want = n
        /\ state' = state /\ namespace' = namespace
        /\ replicaSet' = replicaSet /\ status' = status
        /\ Active' = Active /\ Serving' = Serving
        /\ \A i \in Ids : Current(i)' = Current(i)
    BY <2>3, UpdateFacts
  <2>7. Wanted(n)'
    <3>1. NoStrangers'
      BY <1>1, <1>3 DEF NoStrangers
    <3>2. QED
      BY <2>4, <2>6, <3>1 DEF Wanted
  <2>8. CASE m <= n /\ q = Growing(s.n)
    <3>1. IsGrowing(n)'
      BY <1>1, <1>3, <2>3, <2>4, <2>5, <2>6, <2>7, <2>8, Counting, Parts DEF IsGrowing
    <3>2. q[1] = "growing" /\ q[2] = n
      BY <2>2, <2>8, Labels
    <3>3. QED
      BY <3>1, <3>2 DEF Holds
  <2>9. CASE n = 1 /\ m > 1 /\ q = Known("shrinking")
    <3>1. /\ Cardinality(Active) <= m /\ Cardinality(Serving) >= m
          /\ Cardinality(Active) <= replicaSet.want /\ replicaSet.want <= m
      BY <1>3, <2>4 DEF IsFull, IsGrowing
    <3>2. Active = Serving /\ Cardinality(Active) = m
      BY <2>5, <3>1, AllServe
    <3>3. replicaSet.want = m
      BY <2>5, <3>1, <3>2, Parts
    <3>4. Telling(r)'
      BY <1>1, <1>3 DEF Telling
    <3>5. Wanted(1)'
      BY <2>7, <2>9 DEF Wanted
    <3>6. /\ Active' = Serving' /\ Cardinality(Active)' >= 1
          /\ replicaSet'.want >= 1 /\ Cardinality(Active)' >= replicaSet'.want
      BY <2>5, <2>6, <2>9, <3>2, <3>3
    <3>7. IsShrinking(r)'
      BY <3>4, <3>5, <3>6 DEF IsShrinking
    <3>8. QED
      BY <2>9, <3>7, Labels DEF Holds
  <2>10. \/ m <= n /\ q = Growing(s.n)
         \/ n = 1 /\ m > 1 /\ q = Known("shrinking")
    BY <1>10, <2>2 DEF PlainTriple
  <2>11. QED
    BY <2>8, <2>9, <2>10
<1>11. CASE s.do = "ready"
  <2>1. Wait
    BY <1>2, <1>11, ByName DEF Deadline
  <2>2. Ready(s.n) /\ UNCHANGED cluster /\ replicas' = replicas
    BY <1>2, <1>11, <2>1 DEF Wait, Doing, client, Number
  <2>3. CASE p = Growing(s.n) /\ q = Full(s.n)
    <3>1. PICK n : n = s.n
      OBVIOUS
    <3>2. IsGrowing(n) /\ Ready(n) /\ n \in Nat
      BY <2>2, <2>3, <3>1, Labels DEF Holds
    <3>3. IsFull(n)
      BY <1>3, <3>2, ReadyFull
    <3>4. IsFull(n)'
      BY <1>1, <2>2, <3>3, SameHolds
    <3>5. q[1] = "full" /\ q[2] = n
      BY <2>3, <3>1, Labels
    <3>6. QED
      BY <3>4, <3>5 DEF Holds
  <2>4. CASE p = Full(flags.replicas) /\ q = p
    <3>1. IsFull(r)
      BY <2>4, Labels DEF Holds
    <3>2. IsFull(r)'
      BY <1>1, <2>2, <3>1, SameHolds
    <3>3. q[1] = "full" /\ q[2] = r
      BY <2>4, Labels
    <3>4. QED
      BY <3>2, <3>3 DEF Holds
  <2>5. CASE p = Known("shrinking") /\ q = Known("shrunk")
    <3>1. IsShrunk(r)
      BY <1>3, <2>5, Labels DEF Holds, IsShrunk
    <3>2. IsShrunk(r)'
      BY <1>1, <2>2, <3>1, SameHolds
    <3>3. QED
      BY <2>5, <3>2, Labels DEF Holds
  <2>6. QED
    BY <1>11, <2>3, <2>4, <2>5 DEF PlainTriple
<1>12. QED
  BY <1>5, <1>6, <1>7, <1>8, <1>9, <1>10, <1>11 DEF PlainTriple

\* The waits of loadgen-gitops see what they wait for.
LEMMA GitOpsMove ==
  ASSUME TypeOK, Basics, Applied, Client, flags.tool = "gitops",
         NEW r, NEW p, NEW q, NEW s, s = Script[at],
         GitOpsTriple(flags, p, s, q), ~Fail
  PROVE  Holds(q, r)'
<1>1. /\ flags' = flags /\ ~NotServed /\ (NothingToDo => UNCHANGED cluster)
  BY ClientEnds DEF NotServed, NothingToDo
<1>2. CASE q = Known("any")
  BY <1>2, Labels DEF Holds
<1>3. CASE s.do = "ready" /\ s.n = (IF flags.workload = "deployment" THEN 1 ELSE 0) /\ q = Known("there")
  <2>1. Wait
    BY <1>1, <1>3, ByName DEF Deadline
  <2>2. Ready(s.n) /\ UNCHANGED cluster
    BY <1>1, <1>3, <2>1 DEF Wait, Doing, Number
  <2>3. job.exists /\ (s.n > 0 => status.ready >= s.n)
    BY <2>2 DEF Ready, GitOpsReady
  <2>4. flags.workload = "deployment" => Cardinality(Serving) >= 1
    <3>1. CASE flags.workload = "deployment"
      <4>1. IsGrowing(1) /\ status.ready >= 1 /\ OnK8s
        BY <1>3, <2>3, <3>1, FlagFacts DEF Applied, TypeOK, Basics, OnK8s
      <4>2. status.ready <= replicaSet.ready /\ replicaSet.ready <= Cardinality(Serving)
        BY <4>1 DEF IsGrowing
      <4>3. QED
        BY <4>1, <4>2, Counting, Parts
    <3>2. QED
      BY <3>1
  <2>5. job' = job /\ Serving' = Serving
    BY <2>2, Untouched
  <2>6. IsThere'
    BY <1>1, <2>3, <2>4, <2>5 DEF IsThere
  <2>7. QED
    BY <1>3, <2>6, Labels DEF Holds
<1>4. QED
  BY <1>2, <1>3 DEF GitOpsTriple

\* What a step of the program can ask of the cluster.
LEMMA Asks ==
  ASSUME TypeOK, Client
  PROVE  /\ Number \in Nat
         /\ \/ UNCHANGED cluster
            \/ Script[at].do = "delete" /\ job.exists /\ DeleteJob(Foreground)
            \/ /\ Script[at].do \in {"create", "ensure"} /\ ~job.exists /\ namespace = "active"
               /\ CreateJob(Number)
            \/ Script[at].do \in {"create", "update"} /\ job.exists /\ UpdateJob(Number)
            \/ Script[at].do = "kill" /\ victim \in Ids /\ KillInstance(victim)
            \/ Script[at].do = "namespace" /\ EnsureNamespace
            \/ Script[at].do = "deleteNamespace" /\ DeleteNamespace
         /\ manifest' = manifest \/ (Script[at].do = "push" /\ manifest' = "pushed")
         /\ victim' = victim \/ (victim' \in Ids /\ Script[at].do = "pick")
         /\ \/ replicas' = replicas
            \/ IsScheduler /\ Script[at].do = "delete" /\ replicas' = 0
            \/ IsScheduler /\ Script[at].do \in {"create", "update"} /\ replicas' = Number
<1>1. Number \in Nat
  BY ClientEnds, Place DEF Number, Step
<1>2. /\ \A request : Served(request) => request
      /\ NotServed => UNCHANGED cluster
      /\ NothingToDo => UNCHANGED cluster
  BY DEF Served, NotServed, NothingToDo
<1>3. \A n : Note(n) => replicas' = replicas \/ (IsScheduler /\ replicas' = n)
  BY DEF Note
<1>4. Listed \subseteq Ids
  <2>1. platform \in {"kubernetes", "nomad", "swarm"}
    BY DEF TypeOK, ClusterTypeOK, Platforms
  <2>2. QED
    BY <2>1 DEF Listed
<1>5. CASE Delete
  BY <1>1, <1>2, <1>3, <1>5 DEF Delete, Doing
<1>6. CASE Create
  BY <1>1, <1>2, <1>3, <1>6 DEF Create, Doing
<1>7. CASE Ensure
  BY <1>1, <1>2, <1>7 DEF Ensure, Doing, client
<1>8. CASE Update
  BY <1>1, <1>2, <1>3, <1>8 DEF Update, Doing, ReplicasSet
<1>9. CASE Namespace
  BY <1>1, <1>2, <1>9 DEF Namespace, Doing, client
<1>10. CASE Push
  BY <1>1, <1>10 DEF Push, Doing, client
<1>11. CASE Elsewhere \/ Wait \/ Deadline
  BY <1>1, <1>2, <1>11 DEF Elsewhere, Wait, Deadline, client
<1>12. CASE Pick
  BY <1>1, <1>2, <1>4, <1>12 DEF Pick, Doing
<1>13. CASE Kill
  BY <1>1, <1>2, <1>4, <1>13 DEF Kill, Doing, client
<1>14. QED
  BY <1>5, <1>6, <1>7, <1>8, <1>9, <1>10, <1>11, <1>12, <1>13 DEF Client

\* What a tool's scripts may ask for, before and in the last cleanup.
LEMMA Asked ==
  ASSUME TypeOK, Client
  PROVE  /\ Script[at].do = "push" => flags.tool = "gitops"
         /\ Script[at].do = "deleteNamespace" => flags.tool = "k8s" /\ at = MainEnd[flags] + 1
         /\ Script[at].do = "kill" => IsScheduler
         /\ IsScheduler /\ Script[at].do = "create" => Number = 1
         /\ IsScheduler /\ Script[at].do = "update" => Number = 1 \/ Number = flags.replicas
         /\ flags.tool = "gitops" =>
              /\ at <= MainEnd[flags]
              /\ Script[at].do \in {"namespace", "push", "elsewhere", "ready", "delete"}
<1>1. PICK s, m : s = Script[at] /\ m = MainEnd[flags]
  OBVIOUS
<1>2. /\ at \in Nat /\ m \in Nat
      /\ at <= m => Triple(flags, Here, s, Outline(flags)[at + 1])
  BY <1>1, ClientEnds, Place
<1>3. at > m => \/ flags.tool = "scheduler" /\ s.do \in {"delete", "gone"}
                \/ flags.tool = "k8s" /\ at = m + 1 /\ s.do = "deleteNamespace"
  <2> DEFINE x == Do("delete", 0, "skip")
             y == Do("gone", 0, "ignore")
             z == Do("deleteNamespace", 0, "ignore")
  <2>1. x.do = "delete" /\ y.do = "gone" /\ z.do = "deleteNamespace"
    BY DoFacts
  <2>2. at > m => \/ flags.tool = "scheduler" /\ s = x
                  \/ flags.tool = "scheduler" /\ s = y
                  \/ flags.tool = "k8s" /\ at = m + 1 /\ s = z
    BY <1>1, ClientEnds, Place
  <2> HIDE DEF x, y, z
  <2>3. QED
    BY <2>1, <2>2
<1>4. at <= m =>
        /\ s.do # "deleteNamespace"
        /\ s.do \in {"push", "elsewhere"} => flags.tool = "gitops"
        /\ s.do \in {"pick", "kill", "recovered"} => flags.tool = "scheduler"
        /\ flags.tool = "scheduler" /\ s.do = "create" => s.n = 1
        /\ flags.tool = "scheduler" /\ s.do = "update" => s.n = 1 \/ s.n = flags.replicas
        /\ flags.tool = "gitops" =>
              s.do \in {"namespace", "push", "elsewhere", "ready", "delete"}
  BY <1>2, TripleFacts
<1>5. Number = s.n
  BY <1>1 DEF Number
<1>6. QED
  BY <1>1, <1>2, <1>3, <1>4, <1>5 DEF IsScheduler

\* Types hold whatever the program does.
LEMMA TypeClient ==
  ASSUME TypeOK, Client
  PROVE  TypeOK'
<1>1. /\ ~Finished /\ (Succeed \/ Fail) /\ flags' = flags
  BY ClientEnds
<1>2. Script' = Script /\ at' \in 1 .. Len(Script) + 1 /\ errors' \subseteq ErrorKinds
  BY <1>1, Onwards DEF Script
<1>3. /\ flags \in Flags /\ replicas \in {0, 1, flags.replicas}
      /\ victim \in 0 .. MaxInstances /\ manifest \in {"none", "pushed", "fetched"}
      /\ ClusterTypeOK
  BY DEF TypeOK
<1>4. victim' \in 0 .. MaxInstances
  <2>1. \A i \in Ids : i \in 0 .. MaxInstances
    BY MaxInstancesAssumption DEF Ids
  <2>2. QED
    BY <1>3, <2>1, Asks
<1>5. manifest' \in {"none", "pushed", "fetched"}
  BY <1>3, Asks
<1>6. replicas' \in {0, 1, flags.replicas}
  BY <1>3, Asks, Asked
<1>7. ClusterTypeOK'
  <2>1. CASE UNCHANGED cluster
    BY <2>1, <1>3 DEF ClusterTypeOK, cluster, instances
  <2>2. CASE DeleteJob(Foreground)
    <3>1. Foreground \in BOOLEAN
      BY DEF Foreground, IsScheduler
    <3>2. DeleteJob(TRUE) \/ DeleteJob(FALSE)
      BY <2>2, <3>1
    <3>3. QED
      BY <3>2, DeleteFacts
  <2>3. CASE CreateJob(Number)
    <3>1. PICK n : n = Number
      OBVIOUS
    <3>2. n \in Nat /\ CreateJob(n)
      BY <2>3, <3>1, Asks
    <3>3. QED
      BY <3>2, CreateFacts
  <2>4. CASE UpdateJob(Number)
    <3>1. PICK n : n = Number
      OBVIOUS
    <3>2. n \in Nat /\ UpdateJob(n)
      BY <2>4, <3>1, Asks
    <3>3. QED
      BY <3>2, UpdateFacts
  <2>5. CASE victim \in Ids /\ KillInstance(victim)
    <3>1. PICK v : v = victim
      OBVIOUS
    <3>2. v \in Ids /\ KillInstance(v)
      BY <2>5, <3>1
    <3>3. QED
      BY <3>2, KillFacts
  <2>6. CASE EnsureNamespace \/ DeleteNamespace
    BY <2>6, <1>3 DEF EnsureNamespace, DeleteNamespace, ClusterTypeOK, instances
  <2>7. QED
    BY <2>1, <2>2, <2>3, <2>4, <2>5, <2>6, Asks
<1>8. QED
  BY <1>1, <1>2, <1>3, <1>4, <1>5, <1>6, <1>7 DEF TypeOK

\* What a step of the program does to the workload's record and to its instances.
LEMMA ClientFacts ==
  ASSUME TypeOK, Client
  PROVE  /\ \/ job'.id = job.id /\ job'.gen >= job.gen /\ status' = status
            \/ job'.id = job.id + 1 /\ job'.gen >= status'.gen /\ ~job'.going
         /\ job'.going => job.going \/ (IsScheduler /\ OnK8s)
         /\ owner' = owner
         /\ \A i \in Ids : \/ state'[i] = state[i]
                           \/ /\ platform # "nomad" => state'[i] # "condemned"
                              /\ platform # "swarm" => state'[i] # "dead"
         /\ \/ namespace' = namespace
            \/ namespace' = "active" /\ Script[at].do = "namespace"
            \/ flags.tool = "k8s"
<1>1. /\ job.id \in Nat /\ job.gen \in Nat
  BY Parts
<1>2. CASE UNCHANGED cluster
  BY <1>1, <1>2, Untouched
<1>3. CASE DeleteJob(Foreground)
  <2>1. PICK b : b = Foreground /\ b \in BOOLEAN
    BY DEF Foreground, IsScheduler
  <2>2. DeleteJob(b) /\ (b => IsScheduler /\ OnK8s)
    BY <1>3, <2>1 DEF Foreground, OnK8s
  <2>3. QED
    BY <1>1, <2>1, <2>2, DeleteFacts
<1>4. CASE CreateJob(Number)
  <2>1. PICK n : n = Number
    OBVIOUS
  <2>2. n \in Nat /\ CreateJob(n)
    BY <1>4, <2>1, Asks
  <2>3. QED
    BY <1>1, <2>2, CreateFacts
<1>5. CASE UpdateJob(Number)
  <2>1. PICK n : n = Number
    OBVIOUS
  <2>2. n \in Nat /\ UpdateJob(n)
    BY <1>5, <2>1, Asks
  <2>3. QED
    BY <1>1, <2>2, UpdateFacts
<1>6. CASE victim \in Ids /\ KillInstance(victim)
  <2>1. PICK v : v = victim
    OBVIOUS
  <2>2. v \in Ids /\ KillInstance(v)
    BY <1>6, <2>1
  <2>3. QED
    BY <1>1, <2>2, KillFacts
<1>7. CASE Script[at].do = "namespace" /\ EnsureNamespace
  BY <1>1, <1>7 DEF EnsureNamespace, instances
<1>8. CASE Script[at].do = "deleteNamespace" /\ DeleteNamespace
  BY <1>1, <1>8, Asked DEF DeleteNamespace, instances
<1>9. QED
  BY <1>2, <1>3, <1>4, <1>5, <1>6, <1>7, <1>8, Asks

\* And so does what is true at any place.
LEMMA BasicsClient ==
  ASSUME TypeOK, Basics, Client
  PROVE  Basics'
<1>1. /\ ~Finished /\ (Succeed \/ Fail)
      /\ flags' = flags /\ platform' = platform /\ IsScheduler' = IsScheduler /\ OnK8s' = OnK8s
  BY ClientEnds
<1>2. \A i \in Ids : owner[i] \in Nat
  BY Parts
<1>3. \A i \in Ids : /\ owner'[i] <= job'.id
                     /\ platform # "nomad" => state'[i] # "condemned"
                     /\ platform # "swarm" => state'[i] # "dead"
  <2>1. \A i \in Ids : /\ owner[i] <= job.id
                       /\ platform # "nomad" => state[i] # "condemned"
                       /\ platform # "swarm" => state[i] # "dead"
    BY DEF Basics
  <2>2. job'.id = job.id \/ job'.id = job.id + 1
    BY ClientFacts
  <2>3. job.id \in Nat
    BY Parts
  <2>4. QED
    BY <1>2, <2>1, <2>2, <2>3, ClientFacts
<1>4. status'.gen <= job'.gen
  <2>1. status.gen <= job.gen
    BY DEF Basics
  <2>2. TypeOK'
    BY TypeClient
  <2>3. /\ status.gen \in Nat /\ job.gen \in Nat
    BY Parts
  <2>4. status'.gen \in Nat /\ job'.gen \in Nat
    BY <2>2 DEF TypeOK, ClusterTypeOK
  <2>5. QED
    BY <2>1, <2>3, <2>4, ClientFacts
<1>5. job'.going => IsScheduler /\ OnK8s
  BY ClientFacts DEF Basics
<1>6. manifest' # "none" => flags.tool = "gitops"
  BY Asks, Asked DEF Basics
<1>7. /\ IsScheduler => namespace' = "active"
      /\ flags.tool = "gitops" => namespace' # "terminating"
  BY ClientFacts DEF Basics, IsScheduler
<1>8. "ignored" \in errors' => flags.tool \in {"k8s", "mesh"}
  BY <1>1, Onwards DEF Basics
<1>9. QED
  BY <1>1, <1>3, <1>4, <1>5, <1>6, <1>7, <1>8 DEF Basics

\* loadgen-gitops deletes what is there, and changes no workload in any other way.
LEMMA GitOpsAsks ==
  ASSUME TypeOK, Client, flags.tool = "gitops"
  PROVE  /\ at <= MainEnd[flags]
         /\ \/ /\ Script[at].do = "delete" /\ job.exists
               /\ job'.id = job.id /\ ~job'.exists
            \/ /\ UNCHANGED <<platform, job, state, owner, replicaSet, status>>
               /\ namespace' = namespace \/ namespace' = "active"
<1>1. /\ at <= MainEnd[flags]
      /\ Script[at].do \in {"namespace", "push", "elsewhere", "ready", "delete"}
      /\ ~IsScheduler
  BY Asked DEF IsScheduler
<1>2. CASE UNCHANGED cluster
  BY <1>1, <1>2, Untouched
<1>3. CASE Script[at].do = "delete" /\ job.exists /\ DeleteJob(Foreground)
  <2>1. DeleteJob(FALSE)
    BY <1>1, <1>3 DEF DeleteJob, Foreground
  <2>2. QED
    BY <1>1, <1>3, <2>1, DeleteFacts
<1>4. CASE EnsureNamespace
  BY <1>1, <1>4 DEF EnsureNamespace, instances
<1>5. QED
  BY <1>1, <1>2, <1>3, <1>4, Asks

\* The Deployment that the controller has made is let alone, or deleted.
LEMMA AppliedClient ==
  ASSUME TypeOK, Basics, Applied, Client
  PROVE  Applied'
<1>1. flags' = flags /\ IsScheduler' = IsScheduler /\ OnK8s' = OnK8s
  BY ClientEnds
<1>2. ASSUME flags.tool = "gitops", flags.workload = "deployment", job'.exists
      PROVE  IsGrowing(1)'
  <2>1. /\ UNCHANGED <<platform, job, state, owner, replicaSet, status>>
        /\ namespace' = namespace \/ namespace' = "active"
    BY <1>2, GitOpsAsks
  <2>2. IsGrowing(1) /\ ~IsScheduler
    BY <1>2, <2>1 DEF Applied, IsScheduler
  <2>3. Active' = Active /\ Serving' = Serving /\ \A i \in Ids : Current(i)' = Current(i)
    BY <2>1, SameSets
  <2>4. Wanted(1)'
    BY <1>1, <2>1, <2>2 DEF IsGrowing, Wanted, NoStrangers
  <2>5. QED
    BY <1>1, <2>1, <2>2, <2>3, <2>4 DEF IsGrowing
<1>3. QED
  BY <1>1, <1>2 DEF Applied

\* The deletions before a place in the script are one more after the next deletion.
LEMMA DeletionsNext ==
  ASSUME TypeOK, flags' = flags, at' = at + 1
  PROVE  /\ Deletions \in Nat
         /\ Deletions' = Deletions + (IF Script[at].do = "delete" THEN 1 ELSE 0)
<1> DEFINE D == {i \in 1 .. at - 1 : Script[i].do = "delete"}
           E == {i \in 1 .. at' - 1 : Script[i].do = "delete"}
<1>1. at \in Nat /\ at >= 1 /\ Script' = Script
  BY ScriptFacts DEF TypeOK, Script
<1>2. IsFiniteSet(D) /\ Cardinality(D) \in Nat
  <2>1. IsFiniteSet(1 .. at - 1)
    BY <1>1, FS_Interval
  <2>2. IsFiniteSet(D)
    BY <2>1, FS_Subset
  <2>3. QED
    BY <2>2, FS_CardinalityType
<1>3. E = IF Script[at].do = "delete" THEN D \union {at} ELSE D
  <2>1. \A i : i \in 1 .. at' - 1 <=> i \in 1 .. at - 1 \/ i = at
    BY <1>1
  <2>2. QED
    BY <2>1
<1>4. at \notin D
  BY <1>1
<1>5. Deletions = Cardinality(D) /\ Deletions' = Cardinality(E)
  BY <1>1 DEF Deletions
<1> HIDE DEF D, E
<1>6. CASE Script[at].do = "delete"
  <2>1. Cardinality(D \union {at}) = Cardinality(D) + 1
    BY <1>2, <1>4, FS_AddElement
  <2>2. QED
    BY <1>2, <1>3, <1>5, <1>6, <2>1
<1>7. CASE Script[at].do # "delete"
  BY <1>2, <1>3, <1>5, <1>7
<1>8. QED
  BY <1>6, <1>7

\* A deletion is of the resource that has been seen there, and it is noticed.
LEMMA NumberedClient ==
  ASSUME IInv, Client
  PROVE  Numbered'
<1>1. TypeOK /\ Basics /\ Outlined /\ Numbered /\ flags' = flags
  BY ClientEnds DEF IInv
<1>2. ASSUME flags.tool = "gitops", ~Leftover, Healthy'
      PROVE  job'.id = Deletions' + (IF flags.left THEN 1 ELSE 2) - (IF job'.exists THEN 0 ELSE 1)
  <2>1. /\ Healthy /\ at' = at + 1 /\ ~Fail
        /\ Triple(flags, Here, Script[at], Here')
    BY <1>1, <1>2, Move
  <2>2. job.id = Deletions + (IF flags.left THEN 1 ELSE 2) - (IF job.exists THEN 0 ELSE 1)
    BY <1>1, <1>2, <2>1 DEF Numbered
  <2>3. /\ Deletions \in Nat /\ job.id \in Nat
        /\ Deletions' = Deletions + (IF Script[at].do = "delete" THEN 1 ELSE 0)
    BY <1>1, <2>1, DeletionsNext, Parts
  <2>4. CASE Script[at].do = "delete"
    <3>1. PICK p, q, s : p = Here /\ q = Here' /\ s = Script[at]
      OBVIOUS
    <3>2. GitOpsTriple(flags, p, s, q) /\ s.do = "delete"
      BY <1>2, <2>1, <2>4, <3>1, TripleFacts
    <3>3. p = Known("there")
      BY <3>2 DEF GitOpsTriple
    <3>4. Holds(p, flags.replicas)
      BY <1>1, <2>1, <3>1 DEF Outlined
    <3>5. job.exists
      BY <1>2, <3>3, <3>4, Labels DEF Holds, IsThere
    <3>6. Delete
      BY <2>4, ByName
    <3>7. DeleteJob(Foreground)
      BY <2>1, <3>5, <3>6 DEF Delete, Served, NotServed
    <3>8. DeleteJob(FALSE)
      BY <1>2, <3>7 DEF DeleteJob, Foreground, IsScheduler
    <3>9. job'.id = job.id /\ ~job'.exists
      BY <1>1, <3>8, DeleteFacts
    <3>10. QED
      BY <2>2, <2>3, <2>4, <3>5, <3>9
  <2>5. CASE Script[at].do # "delete"
    <3>1. job' = job
      BY <1>1, <1>2, <2>5, GitOpsAsks
    <3>2. QED
      BY <2>2, <2>3, <2>5, <3>1
  <2>6. QED
    BY <2>4, <2>5
<1>3. Leftover' = Leftover
  BY <1>1 DEF Leftover
<1>4. QED
  BY <1>1, <1>2, <1>3 DEF Numbered

\* The last cleanup does what it is for, or fails.
LEMMA EndedClient ==
  ASSUME TypeOK, Ended, Client
  PROVE  Ended'
<1>1. /\ ~Finished /\ (Succeed \/ Fail) /\ flags' = flags /\ IsScheduler' = IsScheduler
  BY ClientEnds
<1>2. PICK m, s : m = MainEnd[flags] /\ s = Script[at]
  OBVIOUS
<1>3. at \in Nat /\ m \in Nat
  BY <1>1, <1>2, Place
<1>4. ASSUME at' > m + 1, ~flags.keep, errors' \subseteq {"ignored", "bench"}
      PROVE  /\ IsScheduler => ~job'.exists \/ job'.going
             /\ flags.tool = "k8s" => namespace' # "active"
  <2>1. ~Fail
    <3>1. "final" \notin errors' /\ "exit" \notin errors'
      BY <1>4
    <3>2. at <= m => ~(Fail /\ (at' = m + 1 \/ at' = at + 1))
      BY <1>3, <1>4
    <3>3. QED
      BY <1>1, <1>2, <1>3, <3>1, <3>2, Onwards
  <2>2. at' = at + 1 /\ errors' = errors
    BY <1>1, <2>1, Onwards
  <2>3. at > m
    BY <1>3, <1>4, <2>2
  <2>4. \/ flags.tool = "scheduler" /\ at = m + 1 /\ s.do = "delete"
        \/ flags.tool = "scheduler" /\ at = m + 2 /\ s.do = "gone"
        \/ flags.tool = "k8s" /\ at = m + 1 /\ s.do = "deleteNamespace"
    <3> DEFINE x == Do("delete", 0, "skip")
               y == Do("gone", 0, "ignore")
               z == Do("deleteNamespace", 0, "ignore")
    <3>1. x.do = "delete" /\ y.do = "gone" /\ z.do = "deleteNamespace"
      BY DoFacts
    <3>2. \/ flags.tool = "scheduler" /\ at = m + 1 /\ s = x
          \/ flags.tool = "scheduler" /\ at = m + 2 /\ s = y
          \/ flags.tool = "k8s" /\ at = m + 1 /\ s = z
      BY <1>1, <1>2, <2>3, Place
    <3> HIDE DEF x, y, z
    <3>3. QED
      BY <3>1, <3>2
  <2>5. CASE flags.tool = "scheduler" /\ s.do = "delete"
    <3>1. Delete
      BY <1>2, <2>5, ByName
    <3>2. CASE job.exists
      <4>1. PICK b : b = Foreground /\ b \in BOOLEAN
        BY DEF Foreground, IsScheduler
      <4>2. DeleteJob(b)
        BY <2>1, <3>1, <3>2, <4>1 DEF Delete, Served, NotServed
      <4>3. QED
        BY <2>5, <4>1, <4>2, DeleteFacts
    <3>3. CASE ~job.exists
      <4>1. UNCHANGED cluster
        BY <2>1, <3>1, <3>3 DEF Delete, NotServed, NothingToDo
      <4>2. QED
        BY <2>5, <3>3, <4>1, Untouched
    <3>4. QED
      BY <3>2, <3>3
  <2>6. CASE flags.tool = "scheduler" /\ at = m + 2 /\ s.do = "gone"
    <3>1. ~job.exists \/ job.going
      BY <1>2, <1>3, <1>4, <2>2, <2>6 DEF Ended, IsScheduler
    <3>2. UNCHANGED cluster
      BY <1>2, <2>6, ByName DEF Wait, Deadline, NothingToDo, NotServed
    <3>3. QED
      BY <2>6, <3>1, <3>2, Untouched
  <2>7. CASE flags.tool = "k8s" /\ s.do = "deleteNamespace"
    <3>1. Namespace /\ ~Doing("namespace")
      BY <1>2, <2>7, ByName DEF Doing
    <3>2. DeleteNamespace
      BY <2>1, <3>1 DEF Namespace, Served, NotServed
    <3>3. QED
      BY <2>7, <3>2 DEF DeleteNamespace, IsScheduler
  <2>8. QED
    BY <2>4, <2>5, <2>6, <2>7
<1>5. QED
  BY <1>1, <1>2, <1>4 DEF Ended

\* What is known after a step follows from what was known before it.
LEMMA OutlinedClient ==
  ASSUME IInv, Client
  PROVE  Outlined'
<1>1. TypeOK /\ Basics /\ Outlined /\ Applied
  BY DEF IInv
<1>2. flags' = flags /\ ~Finished
  BY ClientEnds
<1>3. ASSUME Healthy', NEW q, NEW r, q = Here', r = flags.replicas
      PROVE  Holds(q, r)'
  <2>1. PICK p, s : p = Here /\ s = Script[at]
    OBVIOUS
  <2>2. /\ Healthy /\ Triple(flags, p, s, q)
        /\ ~Fail => errors' = errors
        /\ Fail => /\ flags.tool \in {"k8s", "mesh"} /\ s.do \in {"delete", "gone"}
                   /\ errors' # {}
        /\ flags.tool \notin {"k8s", "mesh"} => errors = {}
    BY <1>1, <1>3, <2>1, Move
  <2>3. Holds(p, r)
    BY <1>1, <1>3, <2>1, <2>2 DEF Outlined
  <2>4. s.n \in Nat
    BY <1>1, <1>2, <2>1, Place DEF Step
  <2>5. r \in Nat
    BY <1>1, <1>3, ReplicasNat
  <2>6. flags.tool \in {"scheduler", "k8s", "mesh", "gitops"}
    BY <1>1, FlagFacts, Parts
  <2>7. CASE flags.tool = "scheduler"
    <3>1. SchedulerTriple(flags, p, s, q) /\ IsScheduler /\ ~Fail
      BY <2>2, <2>7, TripleFacts DEF IsScheduler
    <3>2. QED
      BY <1>1, <1>3, <2>1, <2>2, <2>3, <2>5, <2>7, <3>1, SchedulerMove
  <2>8. CASE flags.tool \in {"k8s", "mesh"}
    <3>1. PlainTriple(flags, p, s, q)
      BY <2>2, <2>8, TripleFacts
    <3>2. QED
      BY <1>1, <1>3, <2>1, <2>2, <2>3, <2>4, <2>5, <2>8, <3>1, PlainMove
  <2>9. CASE flags.tool = "gitops"
    <3>1. GitOpsTriple(flags, p, s, q) /\ ~Fail
      BY <2>2, <2>9, TripleFacts
    <3>2. QED
      BY <1>1, <2>1, <2>9, <3>1, GitOpsMove
  <2>10. QED
    BY <2>6, <2>7, <2>8, <2>9
<1>4. QED
  BY <1>2, <1>3 DEF Outlined

\* No step of the program breaks the invariant.
LEMMA ClientStep ==
  ASSUME IInv, Client
  PROVE  IInv'
<1>1. TypeOK /\ Basics /\ Outlined /\ Applied /\ Numbered /\ Ended
  BY DEF IInv
<1>2. QED
  BY <1>1, TypeClient, BasicsClient, AppliedClient, NumberedClient, EndedClient,
     OutlinedClient DEF IInv

\* A controller that prunes takes a leftover away, of which nothing was known.
LEMMA PruneStep ==
  ASSUME IInv, Prune
  PROVE  IInv'
<1>1. /\ TypeOK /\ Basics /\ Outlined /\ Applied /\ Numbered /\ Ended
      /\ flags \in Flags
  BY Parts DEF IInv
<1>2. /\ Leftover /\ DeleteJob(FALSE)
      /\ flags' = flags /\ at' = at /\ replicas' = replicas /\ victim' = victim
      /\ manifest' = manifest /\ errors' = errors
  BY DEF Prune, client
<1>3. /\ job'.id = job.id /\ job'.gen = job.gen /\ ~job'.exists
      /\ job'.going => job.going
      /\ state' = state /\ owner' = owner /\ namespace' = namespace /\ platform' = platform
      /\ status' = status /\ ClusterTypeOK'
  BY <1>1, <1>2, DeleteFacts
<1>4. /\ flags.tool = "gitops" /\ Leftover' /\ ~IsScheduler /\ IsScheduler' = IsScheduler
      /\ Script' = Script /\ Here' = Here /\ Healthy' = Healthy /\ OnK8s' = OnK8s
  BY <1>2, <1>3 DEF Leftover, IsScheduler, Script, Here, Healthy, OnK8s
<1>5. TypeOK'
  BY <1>1, <1>2, <1>3, <1>4 DEF TypeOK
<1>6. Basics'
  BY <1>1, <1>2, <1>3, <1>4 DEF Basics
<1>7. Applied' /\ Numbered' /\ Ended'
  BY <1>2, <1>3, <1>4 DEF Applied, Numbered, Ended
<1>8. ASSUME Healthy PROVE Here \in {Known("any"), Known("there")}
  <2>1. at \in Nat /\ at >= 1 /\ at <= MainEnd[flags] + 1 /\ MainEnd[flags] \in Nat
    BY <1>1, <1>8, ScriptFacts DEF TypeOK, Healthy, Script
  <2>2. CASE at = 1
    BY <1>1, <1>4, <2>2, ScriptFacts DEF Here, Beginning
  <2>3. CASE at > 1
    <3>1. at - 1 \in 1 .. MainEnd[flags] /\ (at - 1) + 1 = at
      BY <2>1, <2>3
    <3>2. Triple(flags, Outline(flags)[at - 1], Scripts[flags][at - 1], Here)
      BY <1>1, <3>1, ScriptFacts DEF Here
    <3>3. GitOpsTriple(flags, Outline(flags)[at - 1], Scripts[flags][at - 1], Here)
      BY <1>4, <3>2, TripleFacts
    <3>4. QED
      BY <3>3 DEF GitOpsTriple
  <2>4. QED
    BY <2>1, <2>2, <2>3
<1>9. Outlined'
  <2>1. ASSUME Healthy, NEW p, NEW r, p = Here PROVE Holds(p, r)'
    <3>1. p[1] \in {"any", "there"}
      BY <1>8, <2>1, Labels
    <3>2. QED
      BY <1>4, <3>1 DEF Holds
  <2>2. QED
    BY <1>2, <1>4, <2>1 DEF Outlined
<1>10. QED
  BY <1>5, <1>6, <1>7, <1>9 DEF IInv

\* A step in which nothing happens breaks nothing.
LEMMA StutterHolds ==
  ASSUME UNCHANGED vars, NEW p, NEW r, Holds(p, r)
  PROVE  Holds(p, r)'
<1>1. /\ flags' = flags /\ errors' = errors /\ replicas' = replicas /\ victim' = victim
      /\ UNCHANGED cluster
      /\ job' = job /\ state' = state /\ owner' = owner /\ namespace' = namespace
      /\ platform' = platform /\ killed' = killed /\ replicaSet' = replicaSet
      /\ status' = status /\ Active' = Active /\ Serving' = Serving
      /\ \A i \in Ids : Current(i)' = Current(i)
  BY Untouched DEF vars, client
<1>2. IsScheduler' = IsScheduler /\ OnK8s' = OnK8s /\ IsEmpty' = IsEmpty /\ IsDeleted' = IsDeleted
  BY <1>1 DEF IsScheduler, OnK8s, IsEmpty, IsDeleted
<1>3. Wanted(1) => Wanted(1)'
  BY <1>1, <1>2 DEF Wanted, NoStrangers
<1>4. Wanted(r) => Wanted(r)'
  BY <1>1, <1>2 DEF Wanted, NoStrangers
<1>5. IsShrinking(r) => IsShrinking(r)'
  BY <1>1, <1>2, <1>3 DEF IsShrinking, Telling
<1>6. IsRecovering(r) => IsRecovering(r)'
  BY <1>1, <1>2, <1>4 DEF IsRecovering
<1>7. Leftover \/ IsThere => Leftover' \/ IsThere'
  BY <1>1 DEF IsThere, Leftover
<1>8. PICK n : n = p[2]
  OBVIOUS
<1>9. Wanted(n) => Wanted(n)'
  BY <1>1, <1>2 DEF Wanted, NoStrangers
<1>10. IsGrowing(n) => IsGrowing(n)'
  BY <1>1, <1>2, <1>9 DEF IsGrowing
<1>11. /\ IsFull(n) => IsFull(n)'
       /\ IsFull(r) => IsFull(r)'
       /\ IsShrunk(r) => IsShrunk(r)'
       /\ IsRecovered(r) => IsRecovered(r)'
       /\ IsClean => IsClean'
  BY <1>1, SameHolds
<1>12. IsPicked(r) => IsPicked(r)'
  BY <1>1, <1>11 DEF IsPicked
<1>13. /\ p[1] = "calm"       => IsEmpty' \/ IsShrinking(r)'
       /\ p[1] = "deleted"    => (errors' = {} => IsDeleted')
       /\ p[1] = "clean"      => (errors' = {} => IsClean')
       /\ p[1] = "growing"    => IsGrowing(n)'
       /\ p[1] = "full"       => IsFull(n)'
       /\ p[1] = "picked"     => IsPicked(r)'
       /\ p[1] = "recovering" => IsRecovering(r)'
       /\ p[1] = "recovered"  => IsRecovered(r)'
       /\ p[1] = "shrinking"  => IsShrinking(r)'
       /\ p[1] = "shrunk"     => IsShrunk(r)'
       /\ p[1] = "there"      => Leftover' \/ IsThere'
  BY <1>1, <1>2, <1>5, <1>6, <1>7, <1>8, <1>10, <1>11, <1>12 DEF Holds
<1>14. QED
  BY <1>8, <1>13 DEF Holds

\* A step in which nothing happens keeps the invariant.
LEMMA StutterStep ==
  ASSUME IInv, UNCHANGED vars
  PROVE  IInv'
<1>1. TypeOK /\ Basics /\ Outlined /\ Applied /\ Numbered /\ Ended
  BY DEF IInv
<1>2. /\ flags' = flags /\ errors' = errors /\ replicas' = replicas /\ victim' = victim
      /\ at' = at /\ manifest' = manifest
      /\ job' = job /\ state' = state /\ owner' = owner /\ namespace' = namespace
      /\ platform' = platform /\ killed' = killed /\ replicaSet' = replicaSet
      /\ status' = status /\ Active' = Active /\ Serving' = Serving
      /\ \A i \in Ids : Current(i)' = Current(i)
  BY Untouched DEF vars, client
<1>3. IsScheduler' = IsScheduler /\ OnK8s' = OnK8s /\ Script' = Script /\ Here' = Here
  BY <1>2 DEF IsScheduler, OnK8s, Script, Here
<1>4. TypeOK'
  BY <1>1, <1>2, <1>3 DEF TypeOK, ClusterTypeOK
<1>5. Basics'
  BY <1>1, <1>2, <1>3 DEF Basics
<1>6. Healthy' = Healthy /\ Deletions' = Deletions /\ Leftover' = Leftover
  BY <1>2, <1>3 DEF Healthy, Deletions, Leftover
<1>7. Outlined'
  <2>1. ASSUME NEW p, NEW r, Holds(p, r) PROVE Holds(p, r)'
    BY <2>1, StutterHolds
  <2>2. ASSUME Healthy', NEW p, NEW r, p = Here', r = flags'.replicas PROVE Holds(p, r)'
    <3>1. Holds(p, r)
      BY <1>1, <1>2, <1>3, <1>6, <2>2 DEF Outlined
    <3>2. QED
      BY <2>1, <3>1
  <2>3. QED
    BY <2>2 DEF Outlined
<1>8. Applied'
  <2>1. Wanted(1) => Wanted(1)'
    BY <1>2, <1>3 DEF Wanted, NoStrangers
  <2>2. IsGrowing(1) => IsGrowing(1)'
    BY <1>2, <1>3, <2>1 DEF IsGrowing
  <2>3. QED
    BY <1>1, <1>2, <2>2 DEF Applied
<1>9. Numbered' /\ Ended'
  BY <1>1, <1>2, <1>3, <1>6 DEF Numbered, Ended
<1>10. QED
  BY <1>4, <1>5, <1>7, <1>8, <1>9 DEF IInv

-----------------------------------------------------------------------------
(* The beginning.                                                          *)

\* What an earlier run may have left is one instance that serves.
LEMMA FoundFacts ==
  ASSUME Init
  PROVE  /\ flags.left => /\ \A i \in Ids : Current(i) /\ (i = 1 => state[i] = "running")
                          /\ Active = {1} /\ Serving = {1}
                          /\ Cardinality(Active) = 1 /\ Cardinality(Serving) = 1
         /\ ~flags.left => /\ ~job.exists
                           /\ \A i \in Ids : state[i] = "absent"
         /\ flags.left \in BOOLEAN
<1>1. 1 \in Ids
  BY MaxInstancesAssumption DEF Ids
<1>2. flags.left \in BOOLEAN /\ Found(flags.left)
  BY FlagFacts DEF Init
<1>3. PICK b : b = flags.left
  OBVIOUS
<1>4. /\ job.exists = b /\ job.id = 1
      /\ \A i \in Ids : owner[i] = 1 /\ state[i] = IF b /\ i = 1 THEN "running" ELSE "absent"
  BY <1>2, <1>3 DEF Found
<1>5. b => /\ \A i \in Ids : Current(i) /\ (i = 1 => state[i] = "running")
           /\ Active = {1} /\ Serving = {1}
  BY <1>1, <1>4 DEF Current, Active, Serving
<1>6. b => Cardinality(Active) = 1 /\ Cardinality(Serving) = 1
  BY <1>5, FS_Singleton
<1>7. QED
  BY <1>2, <1>3, <1>4, <1>5, <1>6

\* A valid command line finds what a script begins with.
LEMMA InitHolds ==
  ASSUME Init, NEW r, r = flags.replicas, NEW p, p = Beginning(flags)
  PROVE  Holds(p, r) /\ Applied
<1>1. /\ flags \in Flags /\ platform = flags.platform /\ namespace = flags.namespace
      /\ errors = {} /\ Found(flags.left)
  BY DEF Init
<1>2. flags.left \in BOOLEAN /\ flags.tool \in {"scheduler", "k8s", "mesh", "gitops"}
  BY <1>1, FlagFacts
<1>3. flags.tool \in {"scheduler", "gitops"} /\ flags.left => namespace = "active"
  <2>1. flags \in FlagType /\ ValidFlags(flags)
    BY <1>1, FlagsAssumption
  <2>2. QED
    BY <1>1, <2>1, FlagFacts DEF ValidFlags
<1>4. /\ ~job.going /\ job.want = 1 /\ job.gen = 1
      /\ job.exists = flags.left
      /\ replicaSet.want = 1 /\ replicaSet.replicas = 1 /\ replicaSet.ready = 1
      /\ status.gen = 1 /\ status.ready = 1 /\ status.updated = 1
  BY <1>1, <1>2 DEF Found
<1>5. flags.tool \in {"scheduler", "gitops"} /\ flags.left => Wanted(1)
  BY <1>2, <1>3, <1>4, FoundFacts DEF Wanted, NoStrangers
<1>6. CASE flags.tool = "scheduler"
  <2>1. p[1] = "calm"
    BY <1>6, Labels DEF Beginning
  <2>2. flags.left => IsShrinking(r)
    <3>1. ASSUME flags.left PROVE IsShrinking(r)
      <4>1. Active = Serving /\ Cardinality(Active) = 1
        BY <3>1, FoundFacts
      <4>2. QED
        BY <1>4, <1>5, <1>6, <3>1, <4>1 DEF IsShrinking, Telling
    <3>2. QED
      BY <3>1
  <2>3. ~flags.left => IsEmpty
    BY <1>6, FoundFacts DEF IsEmpty
  <2>4. QED
    BY <1>2, <1>6, <2>1, <2>2, <2>3 DEF Holds, Applied
<1>7. CASE flags.tool # "scheduler"
  <2>1. p[1] = "any"
    BY <1>7, Labels DEF Beginning
  <2>2. Holds(p, r)
    BY <2>1 DEF Holds
  <2>3. flags.tool = "gitops" /\ flags.left => IsGrowing(1)
    <3>1. ASSUME flags.tool = "gitops", flags.left PROVE IsGrowing(1)
      <4>1. /\ Cardinality(Active) = 1 /\ Cardinality(Serving) = 1
            /\ \A i \in Ids : Current(i) /\ (i = 1 => state[i] = "running")
            /\ Active = {1}
        BY <3>1, FoundFacts
      <4>2. \A i \in Ids : state[i] \in Unhurt
        BY <1>1 DEF Found, Unhurt
      <4>3. QED
        BY <1>4, <1>5, <1>7, <3>1, <4>1, <4>2 DEF IsGrowing, IsScheduler
    <3>2. QED
      BY <3>1
  <2>4. QED
    BY <1>4, <2>2, <2>3 DEF Applied
<1>8. QED
  BY <1>6, <1>7

\* The invariant holds at first.
LEMMA InitInvariant ==
  ASSUME Init
  PROVE  IInv
<1>1. /\ flags \in Flags /\ platform = flags.platform /\ namespace = flags.namespace
      /\ errors = {} /\ Found(flags.left) /\ at = 1 /\ replicas = 0 /\ victim = 0
      /\ manifest = "none"
  BY DEF Init
<1>2. /\ MaxInstances \in Nat /\ MaxInstances >= 1 /\ flags.left \in BOOLEAN
      /\ flags.platform \in Platforms
      /\ flags.namespace \in {"absent", "active", "terminating"}
      /\ flags.tool = "scheduler" => flags.namespace = "active"
      /\ flags.tool = "gitops" => flags.namespace # "terminating"
  BY <1>1, FlagFacts, MaxInstancesAssumption
<1>3. /\ MainEnd[flags] \in Nat /\ Len(Script) \in Nat
      /\ Outline(flags)[1] = Beginning(flags)
  BY <1>1, ScriptFacts DEF Script
<1>4. TypeOK
  <2>1. ClusterTypeOK
    <3>1. PICK b \in BOOLEAN : b = flags.left /\ Found(b)
      BY <1>1, <1>2
    <3>2. /\ job \in [id : Nat, exists : BOOLEAN, going : BOOLEAN, want : Nat, gen : Nat]
          /\ state \in [Ids -> InstanceStates] /\ owner \in [Ids -> Nat] /\ killed = 0
      BY <3>1 DEF Found, InstanceStates
    <3>3. 1 \in 0 .. MaxInstances /\ 0 \in 0 .. MaxInstances
      BY <1>2
    <3>4. /\ replicaSet \in [want : Nat, replicas : 0 .. MaxInstances, ready : 0 .. MaxInstances]
          /\ status \in [gen : Nat, ready : 0 .. MaxInstances, updated : 0 .. MaxInstances,
                         unavailable : Nat]
      BY <3>1, <3>3 DEF Found
    <3>5. QED
      BY <1>1, <1>2, <3>2, <3>3, <3>4 DEF ClusterTypeOK
  <2>2. QED
    BY <1>1, <1>2, <1>3, <2>1 DEF TypeOK
<1>5. Basics
  <2>1. /\ \A i \in Ids : owner[i] = 1 /\ state[i] \in {"running", "absent"}
        /\ job.id = 1 /\ job.gen = 1 /\ status.gen = 1 /\ ~job.going
    BY <1>1 DEF Found
  <2>2. QED
    BY <1>1, <1>2, <2>1 DEF Basics, IsScheduler
<1>6. Outlined /\ Applied
  BY <1>1, <1>3, InitHolds DEF Outlined, Here
<1>7. Numbered
  <2>1. {i \in 1 .. at - 1 : Script[i].do = "delete"} = {}
    BY <1>1
  <2>2. Deletions = 0
    BY <2>1, FS_EmptySet DEF Deletions
  <2>3. job.id = 1 /\ job.exists = flags.left
    BY <1>1 DEF Found
  <2>4. QED
    BY <1>2, <2>2, <2>3 DEF Numbered
<1>8. Ended
  BY <1>1, <1>3 DEF Ended
<1>9. QED
  BY <1>4, <1>5, <1>6, <1>7, <1>8 DEF IInv

-----------------------------------------------------------------------------
(* What the runs check.                                                    *)

\* The invariant holds in every behaviour.
LEMMA Invariant == Spec => []IInv
<1>1. Init => IInv
  BY InitInvariant
<1>2. IInv /\ [Next]_vars => IInv'
  BY ClientStep, EnvironmentStep, PruneStep, StutterStep DEF Next, Done
<1>3. QED
  BY <1>1, <1>2, PTL DEF Spec

\* What has just been passed in good health led here.
LEMMA Passed ==
  ASSUME IInv, NEW what, Timed(what)
  PROVE  /\ Holds(Here, flags.replicas)
         /\ Triple(flags, Outline(flags)[at - 1], Script[at - 1], Here)
         /\ Script[at - 1].do = what
<1>1. /\ TypeOK /\ Outlined /\ flags \in Flags
      /\ at \in 2 .. MainEnd[flags] + 1 /\ errors \subseteq {"ignored"}
      /\ Script[at - 1].do = what
  BY Parts DEF IInv, Timed
<1>2. MainEnd[flags] \in Nat
  BY <1>1, ScriptFacts
<1>3. at - 1 \in 1 .. MainEnd[flags] /\ (at - 1) + 1 = at /\ at <= MainEnd[flags] + 1
  BY <1>1, <1>2
<1>4. Triple(flags, Outline(flags)[at - 1], Scripts[flags][at - 1], Outline(flags)[(at - 1) + 1])
  BY <1>1, <1>3, ScriptFacts
<1>5. Triple(flags, Outline(flags)[at - 1], Script[at - 1], Here)
  BY <1>3, <1>4 DEF Script, Here
<1>6. QED
  BY <1>1, <1>3, <1>5 DEF Outlined, Healthy

\* What each wait that has ended tells of the instances that serve.
LEMMA ReadyTells ==
  ASSUME IInv, Timed("ready"), ~Leftover, NEW n, n = Script[at - 1].n
  PROVE  /\ IsScheduler => \/ Cardinality(Serving) = n
                           \/ OnK8s /\ flags.replicas = 2 /\ n = 1
         /\ ~IsScheduler => Cardinality(Serving) >= n
<1>1. PICK p, q, s, r : /\ p = Outline(flags)[at - 1] /\ q = Here /\ s = Script[at - 1]
                        /\ r = flags.replicas
  OBVIOUS
<1>2. Holds(q, r) /\ Triple(flags, p, s, q) /\ s.do = "ready" /\ s.n = n
  BY <1>1, Passed
<1>3. /\ flags \in Flags /\ r \in Nat
      /\ flags.tool \in {"scheduler", "k8s", "mesh", "gitops"}
  BY <1>1, FlagFacts, Parts DEF IInv
<1>4. Cardinality(Serving) \in Nat /\ Cardinality(Active) \in Nat
      /\ Cardinality(Serving) <= Cardinality(Active)
  BY Counting
<1>5. ASSUME NEW k \in Nat, IsFull(k)
      PROVE  Cardinality(Serving) = k
  BY <1>4, <1>5 DEF IsFull, IsGrowing
<1>6. IsShrunk(r) => /\ Cardinality(Serving) = Cardinality(Active) /\ Cardinality(Active) >= 1
                     /\ IsScheduler => Cardinality(Active) = 1 \/ (OnK8s /\ r = 2)
  BY DEF IsShrunk, IsShrinking
<1>7. CASE flags.tool = "scheduler"
  <2>1. SchedulerTriple(flags, p, s, q)
    BY <1>2, <1>7, TripleFacts
  <2>2. \/ n > 0 /\ q = Full(n) /\ p = Growing(n)
        \/ n = 1 /\ q = Known("shrunk")
    BY <1>2, <2>1 DEF SchedulerTriple
  <2>3. CASE q = Full(n)
    <3>1. IsFull(n)
      BY <1>2, <2>3, Labels DEF Holds
    <3>2. Cardinality(Serving) >= n /\ Cardinality(Active) <= n /\ n \in Nat
      <4>1. job.want = n /\ job.want \in Nat
        BY <3>1, Parts DEF IInv, IsFull, IsGrowing, Wanted
      <4>2. QED
        BY <3>1, <4>1 DEF IsFull, IsGrowing
    <3>3. QED
      BY <1>4, <1>7, <3>2 DEF IsScheduler
  <2>4. CASE n = 1 /\ q = Known("shrunk")
    <3>1. IsShrunk(r)
      BY <1>2, <2>4, Labels DEF Holds
    <3>2. QED
      BY <1>1, <1>6, <1>7, <2>4, <3>1 DEF IsScheduler
  <2>5. QED
    BY <2>2, <2>3, <2>4
<1>8. CASE flags.tool \in {"k8s", "mesh"}
  <2>1. PlainTriple(flags, p, s, q) /\ ~IsScheduler
    BY <1>2, <1>8, TripleFacts DEF IsScheduler
  <2>2. \/ q = Full(n)
        \/ n <= r /\ q = Full(r)
        \/ n = 1 /\ q = Known("shrunk")
    BY <1>1, <1>2, <2>1 DEF PlainTriple
  <2>3. CASE q = Full(n)
    <3>1. IsFull(n)
      BY <1>2, <2>3, Labels DEF Holds
    <3>2. QED
      BY <2>1, <3>1 DEF IsFull
  <2>4. CASE n <= r /\ q = Full(r)
    <3>1. IsFull(r)
      BY <1>2, <2>4, Labels DEF Holds
    <3>2. n \in Nat
      <4>1. at \in 2 .. MainEnd[flags] + 1 /\ MainEnd[flags] \in Nat
            /\ Scripts[flags] \in Seq(Step) /\ Len(Scripts[flags]) \in Nat
            /\ MainEnd[flags] <= Len(Scripts[flags])
        BY <1>3, ScriptFacts, FinalSteps DEF Timed
      <4>2. at - 1 \in 1 .. Len(Scripts[flags])
        BY <4>1
      <4>3. s \in Step
        BY <1>1, <4>1, <4>2, ElementOfSeq DEF Script
      <4>4. QED
        BY <1>2, <4>3 DEF Step
    <3>3. QED
      BY <1>3, <1>4, <2>1, <2>4, <3>1, <3>2 DEF IsFull
  <2>5. CASE n = 1 /\ q = Known("shrunk")
    <3>1. IsShrunk(r)
      BY <1>2, <2>5, Labels DEF Holds
    <3>2. QED
      BY <1>6, <2>1, <2>5, <3>1
  <2>6. QED
    BY <2>2, <2>3, <2>4, <2>5
<1>9. CASE flags.tool = "gitops"
  <2>1. GitOpsTriple(flags, p, s, q) /\ ~IsScheduler
    BY <1>2, <1>9, TripleFacts DEF IsScheduler
  <2>2. q = Known("there") /\ n = (IF flags.workload = "deployment" THEN 1 ELSE 0)
    BY <1>2, <2>1 DEF GitOpsTriple
  <2>3. IsThere
    BY <1>2, <2>2, Labels DEF Holds
  <2>4. QED
    BY <1>4, <2>1, <2>2, <2>3 DEF IsThere
<1>10. QED
  BY <1>3, <1>7, <1>8, <1>9

\* Types hold in every behaviour, whatever fails.
THEOREM RolloutsTypeOK == Spec => []TypeOK
<1>1. IInv => TypeOK
  BY DEF IInv
<1>2. QED
  BY <1>1, Invariant, PTL

\* When loadgen-scheduler stops the clock, exactly the wanted number of instances
\* serves (waitReady, waitRunning), but for the scale-down from two on Kubernetes; and
\* when loadgen-k8s, loadgen-mesh or loadgen-gitops stops it, at least that number does:
\* for every number of replicas and rounds, every platform, and whatever the orchestrator
\* does meanwhile.
THEOREM ReadyServes == Spec => []ReadyMeansServing
<1>1. IInv => ReadyMeansServing
  <2>1. SUFFICES ASSUME IInv, Timed("ready"), ~Leftover PROVE ReadyMeansServing
    BY DEF ReadyMeansServing
  <2>2. PICK n : n = Script[at - 1].n
    OBVIOUS
  <2>3. /\ IsScheduler => \/ Cardinality(Serving) = n
                          \/ OnK8s /\ flags.replicas = 2 /\ n = 1
        /\ ~IsScheduler => Cardinality(Serving) >= n
    BY <2>1, <2>2, ReadyTells
  <2>4. QED
    BY <2>2, <2>3 DEF ReadyMeansServing, OnK8s
<1>2. QED
  BY <1>1, Invariant, PTL

\* Recover measures until the victim has been replaced; a reconcile of loadgen-gitops
\* measures until the controller has created anew what was deleted; and a sync until it
\* has created what was pushed, where no earlier run has left a resource of that name.
THEOREM RecoveriesMeasured == Spec => []RecoveryMeasures
<1>1. ASSUME IInv, Timed("recovered")
      PROVE  Cardinality(Serving) = flags.replicas /\ victim \notin Serving
  <2>1. PICK p, q, s, r : /\ p = Outline(flags)[at - 1] /\ q = Here /\ s = Script[at - 1]
                          /\ r = flags.replicas
    OBVIOUS
  <2>2. Holds(q, r) /\ Triple(flags, p, s, q) /\ s.do = "recovered"
    BY <1>1, <2>1, Passed
  <2>3. SchedulerTriple(flags, p, s, q)
    BY <2>2, TripleFacts
  <2>4. q = Known("recovered")
    BY <2>2, <2>3 DEF SchedulerTriple
  <2>5. IsRecovered(r)
    BY <2>2, <2>4, Labels DEF Holds
  <2>6. QED
    BY <2>1, <2>5 DEF IsRecovered
<1>2. ASSUME IInv, flags.tool = "gitops", Timed("ready"), ~Leftover
      PROVE  job.exists /\ job.id = Deletions + IF flags.left THEN 1 ELSE 2
  <2>1. PICK p, q, s, r : /\ p = Outline(flags)[at - 1] /\ q = Here /\ s = Script[at - 1]
                          /\ r = flags.replicas
    OBVIOUS
  <2>2. Holds(q, r) /\ Triple(flags, p, s, q) /\ s.do = "ready"
    BY <1>2, <2>1, Passed
  <2>3. GitOpsTriple(flags, p, s, q)
    BY <1>2, <2>2, TripleFacts
  <2>4. q = Known("there")
    BY <2>2, <2>3 DEF GitOpsTriple
  <2>5. job.exists
    BY <1>2, <2>2, <2>4, Labels DEF Holds, IsThere
  <2>6. Healthy
    <3>1. flags \in Flags
      BY <1>2, Parts DEF IInv
    <3>2. MainEnd[flags] \in Nat
      BY <3>1, ScriptFacts
    <3>3. QED
      BY <1>2, <3>2 DEF Timed, Healthy
  <2>7. job.id = Deletions + (IF flags.left THEN 1 ELSE 2) - 0
    BY <1>2, <2>5, <2>6 DEF IInv, Numbered
  <2>8. Deletions \in Nat
    <3>1. at \in Int /\ IsFiniteSet(1 .. at - 1)
      <4>1. at \in Int
        BY <1>2, ScriptFacts, Parts DEF IInv, TypeOK, Script
      <4>2. QED
        BY <4>1, FS_Interval
    <3>2. IsFiniteSet({i \in 1 .. at - 1 : Script[i].do = "delete"})
      BY <3>1, FS_Subset
    <3>3. QED
      BY <3>2, FS_CardinalityType DEF Deletions
  <2>9. QED
    BY <2>5, <2>7, <2>8
<1>3. IInv => RecoveryMeasures
  BY <1>1, <1>2 DEF RecoveryMeasures
<1>4. QED
  BY <1>3, Invariant, PTL

\* A deployment is timed on a cluster on which the waits see nothing of the round before
\* it (the cleanup of loadgen-scheduler, deleteDeployment and waitPodsGone of loadgen-k8s
\* and loadgen-mesh).
THEOREM SlateIsClean == Spec => []CleanSlate
<1>1. ASSUME IInv, Doing("create"), errors = {}
      PROVE  Counted = {} /\ (~IsScheduler => Listed = {})
  <2>1. PICK p, q, s, r : /\ p = Here /\ q = Outline(flags)[at + 1] /\ s = Script[at]
                          /\ r = flags.replicas
    OBVIOUS
  <2>2. TypeOK /\ ~Finished /\ s.do = "create"
    BY <1>1, <2>1 DEF IInv, Doing
  <2>3. at \in Nat /\ MainEnd[flags] \in Nat
    BY <2>2, Place
  <2>4. at <= MainEnd[flags]
    <3> DEFINE x == Do("delete", 0, "skip")
               y == Do("gone", 0, "ignore")
               z == Do("deleteNamespace", 0, "ignore")
    <3>1. x.do = "delete" /\ y.do = "gone" /\ z.do = "deleteNamespace"
      BY DoFacts
    <3>2. at > MainEnd[flags] => s = x \/ s = y \/ s = z
      BY <2>1, <2>2, Place
    <3> HIDE DEF x, y, z
    <3>3. QED
      BY <2>2, <2>3, <3>1, <3>2
  <2>5. Triple(flags, p, s, q)
    BY <2>1, <2>2, <2>4, Place
  <2>6. p = Known("clean")
    BY <2>2, <2>5 DEF Triple, SchedulerTriple, PlainTriple, GitOpsTriple
  <2>7. Holds(p, r)
    BY <1>1, <2>1, <2>3, <2>4 DEF IInv, Outlined, Healthy
  <2>8. IsClean
    BY <1>1, <2>6, <2>7, Labels DEF Holds
  <2>9. QED
    BY <2>8 DEF IsClean
<1>2. IInv => CleanSlate
  BY <1>1 DEF CleanSlate
<1>3. QED
  BY <1>2, Invariant, PTL

\* Whatever fails, the program ends with the deletion of what it has made: cleanup by
\* defer of loadgen-scheduler, deleteNamespace of loadgen-k8s.
THEOREM LeavesNothing == Spec => []NothingLeft
<1>1. ASSUME IInv, Finished, ~flags.keep, errors \subseteq {"ignored", "bench"}
      PROVE  /\ IsScheduler => ~job.exists \/ job.going
             /\ flags.tool = "k8s" => namespace # "active"
  <2>1. flags \in Flags /\ Ended
    BY <1>1, Parts DEF IInv
  <2>2. PICK m, k : m = MainEnd[flags] /\ k = Len(Final(flags))
    OBVIOUS
  <2>3. /\ m \in Nat /\ k \in Nat /\ Len(Script) = m + k
        /\ IsScheduler \/ flags.tool = "k8s" => k >= 1
    BY <1>1, <2>1, <2>2, ScriptFacts, FinalSteps DEF Script, IsScheduler
  <2>4. at \in Nat /\ at > m + k
    BY <1>1, <2>3 DEF Finished, IInv, TypeOK
  <2>5. IsScheduler \/ flags.tool = "k8s" => at > MainEnd[flags] + 1
    BY <2>2, <2>3, <2>4
  <2>6. QED
    BY <1>1, <2>1, <2>5 DEF Ended
<1>2. IInv => NothingLeft
  BY <1>1 DEF NothingLeft
<1>3. QED
  BY <1>2, Invariant, PTL

=============================================================================
