-------------------------- MODULE WendyLocksProofs --------------------------
(***************************************************************************)
(* For any number of goroutines that call the methods in MostMethods in    *)
(* any order, only two queries race, for the buckets they insert, and the  *)
(* mutexes are taken in one order.                                         *)
(*                                                                         *)
(* What a goroutine holds is its mode; Runs(a, s, b) says that the code s  *)
(* obeys the discipline of the mutexes when it starts in mode a, and ends  *)
(* in mode b.                                                              *)
(***************************************************************************)
EXTENDS WendyLocks, TLAPS

Holds == {"none", "read", "write"}
Modes == [Mutexes -> Holds]
Mode(t, p) == [m \in Mutexes |-> IF m = "txsMtx" THEN t ELSE p]
Free == Mode("none", "none")

Accesses == {"read", "write", "bucket"}
OpNames == {"Lock", "Unlock", "RLock", "RUnlock"} \cup Accesses
Ops == [op : OpNames, on : Mutexes \cup Fields]

\* The mutex that protects a field.
Guard(f) == IF f = "txs" THEN "txsMtx" ELSE "peersMtx"

\* An operation obeys the discipline: an access needs the mutex of its field, a
\* write needs it for writing, unless it inserts a bucket.
Allowed(a, o) ==
  /\ o \in Ops
  /\ o.op \notin Accesses => o.on \in Mutexes
  /\ o.op = "bucket" => o.on = "buckets"
  /\ o.op \in {"Lock", "RLock"} => a["peersMtx"] = "none" /\ a[o.on] = "none"
  /\ o.op = "Unlock" => a[o.on] = "write"
  /\ o.op = "RUnlock" => a[o.on] = "read"
  /\ o.op \in Accesses /\ o.on \in ProtectedFields => a[Guard(o.on)] # "none"
  /\ o.op = "write" /\ o.on \in ProtectedFields \ {"buckets"} =>
       a[Guard(o.on)] = "write"

\* The mode after an operation.
Effect(a, o) ==
  CASE o.op = "Lock" -> [a EXCEPT ![o.on] = "write"]
    [] o.op = "RLock" -> [a EXCEPT ![o.on] = "read"]
    [] o.op \in {"Unlock", "RUnlock"} -> [a EXCEPT ![o.on] = "none"]
    [] OTHER -> a

\* f has the mode before each operation of s and at its end.
RunsThrough(f, s) ==
  /\ f \in [1..(Len(s) + 1) -> Modes]
  /\ \A i \in 1..Len(s) : Allowed(f[i], s[i]) /\ f[i + 1] = Effect(f[i], s[i])

Runs(a, s, b) ==
  /\ s \in Seq(Ops)
  /\ \E f : RunsThrough(f, s) /\ f[1] = a /\ f[Len(s) + 1] = b

-----------------------------------------------------------------------------
(* Code that obeys the discipline                                          *)

\* A single operation.
LEMMA OneRuns ==
  ASSUME NEW a \in Modes, NEW o, Allowed(a, o), Effect(a, o) \in Modes
  PROVE  Runs(a, <<o>>, Effect(a, o))
<1> DEFINE f == [i \in 1..2 |-> IF i = 1 THEN a ELSE Effect(a, o)]
<1>1. o \in Ops
  BY DEF Allowed
<1>2. <<o>> \in Seq(Ops) /\ Len(<<o>>) = 1 /\ <<o>>[1] = o
  BY <1>1
<1>3. /\ f \in [1..2 -> Modes] /\ f[1] = a /\ f[2] = Effect(a, o)
      /\ f[1 + 1] = Effect(a, o)
  OBVIOUS
<1> HIDE DEF f
<1>4. RunsThrough(f, <<o>>)
  BY <1>2, <1>3 DEF RunsThrough
<1> QED
  BY <1>2, <1>3, <1>4 DEF Runs

\* One piece of code after another.
LEMMA ThenRuns ==
  ASSUME NEW a, NEW b, NEW c, NEW s, NEW t, Runs(a, s, b), Runs(b, t, c)
  PROVE  Runs(a, s \o t, c)
<1>1. PICK f : RunsThrough(f, s) /\ f[1] = a /\ f[Len(s) + 1] = b
  BY DEF Runs
<1>2. PICK g : RunsThrough(g, t) /\ g[1] = b /\ g[Len(t) + 1] = c
  BY DEF Runs
<1>3. s \in Seq(Ops) /\ t \in Seq(Ops)
  BY DEF Runs
<1> DEFINE n == Len(s)
           k == Len(t)
           u == s \o t
           h == [i \in 1..(n + k + 1) |-> IF i <= n THEN f[i] ELSE g[i - n]]
<1>4. /\ u \in Seq(Ops) /\ Len(u) = n + k
      /\ \A i \in 1..n : u[i] = s[i]
      /\ \A i \in (n + 1)..(n + k) : u[i] = t[i - n]
      /\ n \in Nat /\ k \in Nat
  BY <1>3
<1> HIDE DEF u
<1>5. /\ f \in [1..(n + 1) -> Modes] /\ g \in [1..(k + 1) -> Modes]
      /\ f[n + 1] = g[1]
  BY <1>1, <1>2 DEF RunsThrough
<1> HIDE DEF n, k
<1>6. /\ h \in [1..(n + k + 1) -> Modes]
      /\ \A i \in 1..(n + 1) : h[i] = f[i]
      /\ \A i \in (n + 1)..(n + k + 1) : h[i] = g[i - n]
  <2>1. \A i \in 1..(n + k + 1) :
          /\ h[i] \in Modes
          /\ i <= n => h[i] = f[i]
          /\ i > n => h[i] = g[i - n]
    BY <1>4, <1>5
  <2>2. h[n + 1] = f[n + 1]
    BY <2>1, <1>4, <1>5
  <2>3. h \in [1..(n + k + 1) -> Modes]
    BY <2>1
  <2> HIDE DEF h
  <2>4. ASSUME NEW i \in 1..(n + 1) PROVE h[i] = f[i]
    BY <2>1, <2>2, <1>4
  <2>5. ASSUME NEW i \in (n + 1)..(n + k + 1) PROVE h[i] = g[i - n]
    BY <2>1, <1>4
  <2> QED
    BY <2>3, <2>4, <2>5
<1> HIDE DEF h
<1>7. ASSUME NEW i \in 1..(n + k)
      PROVE  Allowed(h[i], u[i]) /\ h[i + 1] = Effect(h[i], u[i])
  <2>1. CASE i <= n
    <3>1. i \in 1..n /\ i \in 1..(n + 1) /\ i + 1 \in 1..(n + 1)
      BY <2>1, <1>4
    <3>2. Allowed(f[i], s[i]) /\ f[i + 1] = Effect(f[i], s[i])
      BY <3>1, <1>1 DEF RunsThrough, n
    <3> QED
      BY <3>1, <3>2, <1>4, <1>6
  <2>2. CASE i > n
    <3>1. /\ i - n \in 1..k /\ i \in (n + 1)..(n + k + 1)
          /\ i + 1 \in (n + 1)..(n + k + 1) /\ i \in (n + 1)..(n + k)
          /\ (i + 1) - n = (i - n) + 1
      BY <2>2, <1>4
    <3>2. /\ Allowed(g[i - n], t[i - n])
          /\ g[(i - n) + 1] = Effect(g[i - n], t[i - n])
      BY <3>1, <1>2 DEF RunsThrough, k
    <3> QED
      BY <3>1, <3>2, <1>4, <1>6
  <2> QED
    BY <2>1, <2>2, <1>4
<1>8. RunsThrough(h, u)
  BY <1>4, <1>6, <1>7 DEF RunsThrough
<1>9. h[1] = a /\ h[n + k + 1] = c
  BY <1>1, <1>2, <1>4, <1>6 DEF n, k
<1> QED
  BY <1>4, <1>8, <1>9 DEF Runs, u

\* The first operation of a piece of code and what is left after it.
LEMMA HeadRuns ==
  ASSUME NEW a, NEW s, NEW b, Runs(a, s, b), s # << >>
  PROVE  /\ Allowed(a, Head(s))
         /\ Runs(Effect(a, Head(s)), Tail(s), b)
<1>1. PICK f : RunsThrough(f, s) /\ f[1] = a /\ f[Len(s) + 1] = b
  BY DEF Runs
<1>2. s \in Seq(Ops) /\ Len(s) \in Nat /\ Len(s) >= 1 /\ Head(s) = s[1]
  BY DEF Runs
<1> DEFINE t == Tail(s)
           n == Len(s)
           h == [i \in 1..n |-> f[i + 1]]
<1>3. /\ t \in Seq(Ops) /\ Len(t) = n - 1 /\ n - 1 + 1 = n
      /\ \A i \in 1..(n - 1) : t[i] = s[i + 1]
  BY <1>2
<1> HIDE DEF t
<1>4. f \in [1..(n + 1) -> Modes]
  BY <1>1 DEF RunsThrough
<1>5. \A i \in 1..n : Allowed(f[i], s[i]) /\ f[i + 1] = Effect(f[i], s[i])
  BY <1>1 DEF RunsThrough
<1>6. Allowed(a, Head(s)) /\ f[2] = Effect(a, Head(s))
  BY <1>1, <1>2, <1>5
<1>7. h \in [1..n -> Modes] /\ h[1] = f[2] /\ h[n] = b
  BY <1>1, <1>2, <1>4
<1>8. \A i \in 1..(n - 1) : Allowed(h[i], t[i]) /\ h[i + 1] = Effect(h[i], t[i])
  <2> SUFFICES ASSUME NEW i \in 1..(n - 1)
               PROVE  Allowed(h[i], t[i]) /\ h[i + 1] = Effect(h[i], t[i])
    OBVIOUS
  <2>1. i + 1 \in 1..n /\ i \in 1..n
    BY <1>2
  <2>2. h[i] = f[i + 1] /\ h[i + 1] = f[i + 1 + 1] /\ t[i] = s[i + 1]
    BY <2>1, <1>3
  <2> QED
    BY <2>1, <2>2, <1>5
<1> HIDE DEF h
<1>9. RunsThrough(h, t)
  BY <1>2, <1>3, <1>7, <1>8 DEF RunsThrough
<1> QED
  BY <1>3, <1>6, <1>7, <1>9 DEF Runs, t

-----------------------------------------------------------------------------
(* The methods                                                             *)

\* The operations on the mutexes and the fields they protect.
LEMMA OpsRun ==
  /\ \A f \in {"validators", "quorum"}, a \in Modes :
       Runs(a, Read(f), a) /\ Runs(a, Write(f), a)
  /\ \A f \in Fields, a \in Modes :
       /\ a[Guard(f)] # "none" => Runs(a, Read(f), a)
       /\ a[Guard(f)] = "write" => Runs(a, Write(f), a)
  /\ \A a \in Modes : a["peersMtx"] # "none" =>
       Runs(a, Bucket, a) /\ Runs(a, Write("buckets"), a)
  /\ \A t \in Holds :
       /\ Runs(Mode(t, "none"), Lock("peersMtx"), Mode(t, "write"))
       /\ Runs(Mode(t, "write"), Unlock("peersMtx"), Mode(t, "none"))
       /\ Runs(Mode(t, "none"), RLock("peersMtx"), Mode(t, "read"))
       /\ Runs(Mode(t, "read"), RUnlock("peersMtx"), Mode(t, "none"))
  /\ Runs(Free, Lock("txsMtx"), Mode("write", "none"))
  /\ Runs(Mode("write", "none"), Unlock("txsMtx"), Free)
  /\ Runs(Free, RLock("txsMtx"), Mode("read", "none"))
  /\ Runs(Mode("read", "none"), RUnlock("txsMtx"), Free)
<1> USE DEF Allowed, Effect, Ops, OpNames, Fields, Mutexes, ProtectedFields,
           Accesses, Guard
<1>1. ASSUME NEW a \in Modes, NEW o, Allowed(a, o),
             Effect(a, o) \in Modes
      PROVE  Runs(a, <<o>>, Effect(a, o))
  <2> HIDE DEF Allowed, Effect
  <2> QED
    BY <1>1, OneRuns
<1>2. ASSUME NEW f \in Fields, NEW a \in Modes, NEW op \in Accesses,
             op = "bucket" => f = "buckets",
             f \in ProtectedFields => a[Guard(f)] # "none",
             f \in ProtectedFields \ {"buckets"} /\ op = "write" =>
               a[Guard(f)] = "write"
      PROVE  Runs(a, <<[op |-> op, on |-> f]>>, a)
  <2> DEFINE o == [op |-> op, on |-> f]
  <2>1. Allowed(a, o)
    BY <1>2
  <2>2. Effect(a, o) = a
    BY <1>2
  <2> QED
    BY <1>1, <2>1, <2>2
<1>3. ASSUME NEW f \in Fields, NEW a \in Modes
      PROVE  /\ a[Guard(f)] # "none" \/ f \notin ProtectedFields
                => Runs(a, Read(f), a)
             /\ a[Guard(f)] = "write" \/ f \notin ProtectedFields
                => Runs(a, Write(f), a)
  BY <1>2 DEF Read, Write
<1>4. ASSUME NEW a \in Modes, NEW m \in Mutexes,
             NEW op \in {"Lock", "Unlock", "RLock", "RUnlock"},
             NEW h \in Holds,
             op \in {"Lock", "RLock"} =>
               a["peersMtx"] = "none" /\ a[m] = "none",
             \/ op = "Lock" /\ h = "write"
             \/ op = "RLock" /\ h = "read"
             \/ op = "Unlock" /\ h = "none" /\ a[m] = "write"
             \/ op = "RUnlock" /\ h = "none" /\ a[m] = "read"
      PROVE  Runs(a, <<[op |-> op, on |-> m]>>, [a EXCEPT ![m] = h])
  <2> DEFINE o == [op |-> op, on |-> m]
  <2>1. Allowed(a, o)
    BY <1>4
  <2>2. Effect(a, o) = [a EXCEPT ![m] = h]
    BY <1>4
  <2>3. [a EXCEPT ![m] = h] \in Modes
    BY <1>4 DEF Modes
  <2> QED
    BY <1>1, <2>1, <2>2, <2>3
<1>5. ASSUME NEW t \in Holds, NEW p \in Holds, NEW h \in Holds
      PROVE  /\ Mode(t, p) \in Modes
             /\ [Mode(t, p) EXCEPT !["peersMtx"] = h] = Mode(t, h)
             /\ [Mode(t, p) EXCEPT !["txsMtx"] = h] = Mode(h, p)
             /\ Mode(t, p)["peersMtx"] = p /\ Mode(t, p)["txsMtx"] = t
  BY DEF Modes, Mode
<1>6. {"none", "read", "write"} \subseteq Holds
  BY DEF Holds
<1>7. ASSUME NEW t \in Holds
      PROVE  /\ Runs(Mode(t, "none"), Lock("peersMtx"), Mode(t, "write"))
             /\ Runs(Mode(t, "write"), Unlock("peersMtx"), Mode(t, "none"))
             /\ Runs(Mode(t, "none"), RLock("peersMtx"), Mode(t, "read"))
             /\ Runs(Mode(t, "read"), RUnlock("peersMtx"), Mode(t, "none"))
  <2> HIDE DEF Allowed, Effect
  <2>1. Runs(Mode(t, "none"), Lock("peersMtx"), Mode(t, "write"))
    <3>1. /\ Mode(t, "none") \in Modes /\ Mode(t, "none")["peersMtx"] = "none"
          /\ [Mode(t, "none") EXCEPT !["peersMtx"] = "write"] = Mode(t, "write")
      BY <1>5, <1>6
    <3> QED
      BY <1>4, <1>6, <3>1 DEF Lock
  <2>2. Runs(Mode(t, "write"), Unlock("peersMtx"), Mode(t, "none"))
    <3>1. /\ Mode(t, "write") \in Modes
          /\ Mode(t, "write")["peersMtx"] = "write"
          /\ [Mode(t, "write") EXCEPT !["peersMtx"] = "none"] = Mode(t, "none")
      BY <1>5, <1>6
    <3> QED
      BY <1>4, <1>6, <3>1 DEF Unlock
  <2>3. Runs(Mode(t, "none"), RLock("peersMtx"), Mode(t, "read"))
    <3>1. /\ Mode(t, "none") \in Modes /\ Mode(t, "none")["peersMtx"] = "none"
          /\ [Mode(t, "none") EXCEPT !["peersMtx"] = "read"] = Mode(t, "read")
      BY <1>5, <1>6
    <3> QED
      BY <1>4, <1>6, <3>1 DEF RLock
  <2>4. Runs(Mode(t, "read"), RUnlock("peersMtx"), Mode(t, "none"))
    <3>1. /\ Mode(t, "read") \in Modes /\ Mode(t, "read")["peersMtx"] = "read"
          /\ [Mode(t, "read") EXCEPT !["peersMtx"] = "none"] = Mode(t, "none")
      BY <1>5, <1>6
    <3> QED
      BY <1>4, <1>6, <3>1 DEF RUnlock
  <2> QED
    BY <2>1, <2>2, <2>3, <2>4
<1>8. /\ Runs(Free, Lock("txsMtx"), Mode("write", "none"))
      /\ Runs(Mode("write", "none"), Unlock("txsMtx"), Free)
      /\ Runs(Free, RLock("txsMtx"), Mode("read", "none"))
      /\ Runs(Mode("read", "none"), RUnlock("txsMtx"), Free)
  <2> USE DEF Free
  <2> HIDE DEF Allowed, Effect
  <2>1. Runs(Mode("none", "none"), Lock("txsMtx"), Mode("write", "none"))
    <3>1. /\ Mode("none", "none") \in Modes
          /\ Mode("none", "none")["txsMtx"] = "none"
          /\ Mode("none", "none")["peersMtx"] = "none"
          /\ [Mode("none", "none") EXCEPT !["txsMtx"] = "write"] =
               Mode("write", "none")
      BY <1>5, <1>6
    <3> QED
      BY <1>4, <1>6, <3>1 DEF Lock
  <2>2. Runs(Mode("write", "none"), Unlock("txsMtx"), Mode("none", "none"))
    <3>1. /\ Mode("write", "none") \in Modes
          /\ Mode("write", "none")["txsMtx"] = "write"
          /\ Mode("write", "none")["peersMtx"] = "none"
          /\ [Mode("write", "none") EXCEPT !["txsMtx"] = "none"] =
               Mode("none", "none")
      BY <1>5, <1>6
    <3> QED
      BY <1>4, <1>6, <3>1 DEF Unlock
  <2>3. Runs(Mode("none", "none"), RLock("txsMtx"), Mode("read", "none"))
    <3>1. /\ Mode("none", "none") \in Modes
          /\ Mode("none", "none")["txsMtx"] = "none"
          /\ Mode("none", "none")["peersMtx"] = "none"
          /\ [Mode("none", "none") EXCEPT !["txsMtx"] = "read"] =
               Mode("read", "none")
      BY <1>5, <1>6
    <3> QED
      BY <1>4, <1>6, <3>1 DEF RLock
  <2>4. Runs(Mode("read", "none"), RUnlock("txsMtx"), Mode("none", "none"))
    <3>1. /\ Mode("read", "none") \in Modes
          /\ Mode("read", "none")["txsMtx"] = "read"
          /\ Mode("read", "none")["peersMtx"] = "none"
          /\ [Mode("read", "none") EXCEPT !["txsMtx"] = "none"] =
               Mode("none", "none")
      BY <1>5, <1>6
    <3> QED
      BY <1>4, <1>6, <3>1 DEF RUnlock
  <2> QED
    BY <2>1, <2>2, <2>3, <2>4
<1>9. ASSUME NEW a \in Modes, a["peersMtx"] # "none"
      PROVE  Runs(a, Bucket, a) /\ Runs(a, Write("buckets"), a)
  BY <1>2, <1>9 DEF Bucket, Write
<1> HIDE DEF Allowed, Effect, Guard
<1> QED
  BY <1>3, <1>7, <1>8, <1>9

\* Three pieces of code, and four.
LEMMA ThreeRun ==
  ASSUME NEW a, NEW b, NEW c, NEW d, NEW s, NEW t, NEW u,
         Runs(a, s, b), Runs(b, t, c), Runs(c, u, d)
  PROVE  Runs(a, s \o t \o u, d)
<1>1. Runs(a, s \o t, c)
  BY ThenRuns
<1> QED
  BY <1>1, ThenRuns

\* Four pieces of a method after each other.
LEMMA FourRun ==
  ASSUME NEW a, NEW b, NEW c, NEW d, NEW e, NEW s, NEW t, NEW u, NEW v,
         Runs(a, s, b), Runs(b, t, c), Runs(c, u, d), Runs(d, v, e)
  PROVE  Runs(a, s \o t \o u \o v, e)
<1>1. Runs(a, s \o t \o u, d)
  BY ThreeRun
<1> QED
  BY <1>1, ThenRuns

\* Every method in MostMethods starts and ends without a mutex and obeys the
\* discipline in between.
LEMMA MethodsRun ==
  ASSUME NEW method \in MostMethods
  PROVE  Runs(Free, Code(method), Free)
<1> DEFINE PW == Mode("none", "write")
           PR == Mode("none", "read")
           TW == Mode("write", "none")
           TR == Mode("read", "none")
<1>1. /\ Free \in Modes /\ PW \in Modes /\ PR \in Modes /\ TW \in Modes
      /\ TR \in Modes /\ Mode("write", "write") \in Modes
      /\ Mode("read", "read") \in Modes
  BY DEF Modes, Mode, Holds, Free
<1>2. ASSUME NEW a \in Modes
      PROVE  /\ Runs(a, Read("validators"), a)
             /\ Runs(a, Write("validators"), a)
             /\ Runs(a, Read("quorum"), a)
             /\ Runs(a, Write("quorum"), a)
  BY OpsRun
<1>3. ASSUME NEW t \in Holds
      PROVE  /\ Runs(Mode(t, "write"), Write("peers"), Mode(t, "write"))
             /\ Runs(Mode(t, "write"), Write("votes"), Mode(t, "write"))
             /\ Runs(Mode(t, "write"), Write("entries"), Mode(t, "write"))
             /\ Runs(Mode(t, "write"), Read("peers"), Mode(t, "write"))
             /\ Runs(Mode(t, "read"), Read("peers"), Mode(t, "read"))
             /\ Runs(Mode(t, "read"), Read("votes"), Mode(t, "read"))
             /\ Runs(Mode(t, "read"), Read("entries"), Mode(t, "read"))
             /\ Runs(Mode(t, "write"), Bucket, Mode(t, "write"))
             /\ Runs(Mode(t, "read"), Bucket, Mode(t, "read"))
  <2>1. /\ Mode(t, "write") \in Modes /\ Mode(t, "read") \in Modes
        /\ Mode(t, "write")["peersMtx"] = "write"
        /\ Mode(t, "read")["peersMtx"] = "read"
    BY DEF Modes, Mode, Holds, Mutexes
  <2>2. /\ Guard("peers") = "peersMtx" /\ Guard("votes") = "peersMtx"
        /\ Guard("entries") = "peersMtx"
    BY DEF Guard
  <2>3. "peers" \in Fields /\ "votes" \in Fields /\ "entries" \in Fields
    BY DEF Fields
  <2>4. "read" # "none" /\ "write" # "none"
    OBVIOUS
  <2> QED
    BY <2>1, <2>2, <2>3, <2>4, OpsRun
<1>4. Runs(TW, Write("txs"), TW) /\ Runs(TR, Read("txs"), TR)
  <2>1. TW["txsMtx"] = "write" /\ TR["txsMtx"] = "read"
    BY DEF Mode, Mutexes
  <2>2. Guard("txs") = "txsMtx" /\ "txs" \in Fields /\ "read" # "none"
    BY DEF Guard, Fields
  <2> QED
    BY <1>1, <2>1, <2>2, OpsRun
<1>5. ASSUME NEW t \in Holds
      PROVE  /\ Runs(Mode(t, "none"), Lock("peersMtx"), Mode(t, "write"))
             /\ Runs(Mode(t, "write"), Unlock("peersMtx"), Mode(t, "none"))
             /\ Runs(Mode(t, "none"), RLock("peersMtx"), Mode(t, "read"))
             /\ Runs(Mode(t, "read"), RUnlock("peersMtx"), Mode(t, "none"))
  BY OpsRun
<1>6. /\ Runs(Free, Lock("txsMtx"), TW) /\ Runs(TW, Unlock("txsMtx"), Free)
      /\ Runs(Free, RLock("txsMtx"), TR) /\ Runs(TR, RUnlock("txsMtx"), Free)
  BY OpsRun
<1>7. "none" \in Holds /\ "read" \in Holds /\ "write" \in Holds
  BY DEF Holds
<1>8. ASSUME NEW t \in Holds
      PROVE  /\ Runs(Mode(t, "none"), IsBlockedBy, Mode(t, "none"))
             /\ Runs(Mode(t, "none"), IsBlocked, Mode(t, "none"))
             /\ Runs(Mode(t, "write"), UpdateTxSets, Mode(t, "write"))
  <2> DEFINE N == Mode(t, "none")
             R == Mode(t, "read")
  <2>1. R \in Modes
    BY DEF Modes, Mode, Holds
  <2>2. Runs(R, Bucket \o Read("entries"), R)
    BY <1>3, ThenRuns
  <2>3. Runs(N, RLock("peersMtx") \o Read("peers") \o
                (Bucket \o Read("entries")) \o Read("quorum"), R)
    BY <1>2, <1>3, <1>5, <2>1, <2>2, FourRun
  <2>4. Runs(R, RUnlock("peersMtx"), N)
    BY <1>5
  <2>5. Runs(N, RLock("peersMtx") \o Read("peers") \o
                (Bucket \o Read("entries")) \o Read("quorum") \o
                RUnlock("peersMtx"), N)
    BY <2>3, <2>4, ThenRuns
  <2>6. Runs(Mode(t, "write"), UpdateTxSets, Mode(t, "write"))
    BY <1>3, ThreeRun DEF UpdateTxSets
  <2> QED
    BY <2>5, <2>6 DEF IsBlockedBy, IsBlocked, hasQuorum, Before, Seen
<1>9. Free = Mode("none", "none")
  BY DEF Free
<1> DEFINE Ok(m) == Runs(Free, Code(m), Free)
<1>10. Ok("UpdateValidatorSet")
  <2>1. Runs(Free, Write("validators") \o Write("quorum"), Free)
    BY <1>1, <1>2, ThenRuns
  <2>2. /\ Runs(Free, Lock("peersMtx"), PW) /\ Runs(PW, Write("peers"), PW)
        /\ Runs(PW, Unlock("peersMtx"), Free)
    BY <1>3, <1>5, <1>7, <1>9
  <2>3. Runs(Free, UpdateValidatorSet, Free)
    BY <2>1, <2>2, FourRun DEF UpdateValidatorSet
  <2> QED
    BY <2>3 DEF Code
<1>11. Ok("HonestParties")
  BY <1>1, <1>2 DEF Code, HonestParties
<1>12. Ok("HonestMajority")
  <2>1. Runs(Free, HonestMajority, Free)
    BY <1>1, <1>2, ThenRuns DEF HonestMajority
  <2> QED
    BY <2>1 DEF Code
<1>13. Ok("AddTx")
  <2>1. Runs(Free, AddTx, Free)
    BY <1>4, <1>6, ThreeRun DEF AddTx
  <2> QED
    BY <2>1 DEF Code
<1>14. Ok("AddVote")
  <2>1. /\ Runs(Free, Lock("peersMtx"), PW) /\ Runs(PW, Write("peers"), PW)
        /\ Runs(PW, Bucket, PW) /\ Runs(PW, Write("entries"), PW)
        /\ Runs(PW, Write("votes"), PW) /\ Runs(PW, Unlock("peersMtx"), Free)
    BY <1>3, <1>5, <1>7, <1>9
  <2>2. Runs(Free, Lock("peersMtx") \o Write("peers") \o Bucket \o
                   Write("entries"), PW)
    BY <2>1, FourRun
  <2>3. Runs(Free, AddVote, Free)
    BY <2>1, <2>2, ThreeRun DEF AddVote
  <2> QED
    BY <2>3 DEF Code
<1>15. Ok("CommitBlock")
  <2>1. /\ Runs(Free, Lock("peersMtx"), PW) /\ Runs(PW, UpdateTxSets, PW)
        /\ Runs(PW, Unlock("peersMtx"), Free)
    BY <1>5, <1>7, <1>8, <1>9
  <2>2. Runs(Free, CommitBlock, Free)
    BY <2>1, ThreeRun DEF CommitBlock
  <2> QED
    BY <2>2 DEF Code
<1>16. Ok("VoteByTxHash")
  <2>1. /\ Runs(Free, RLock("peersMtx"), PR) /\ Runs(PR, Read("votes"), PR)
        /\ Runs(PR, RUnlock("peersMtx"), Free)
    BY <1>3, <1>5, <1>7, <1>9
  <2>2. Runs(Free, VoteByTxHash, Free)
    BY <2>1, ThreeRun DEF VoteByTxHash
  <2> QED
    BY <2>2 DEF Code
<1>17. Ok("IsBlockedBy") /\ Ok("IsBlocked")
  BY <1>7, <1>8, <1>9 DEF Code
<1>18. Ok("AddBlock")
  <2> DEFINE TPW == Mode("write", "write")
  <2>1. /\ Runs(TW, Lock("peersMtx"), TPW) /\ Runs(TPW, UpdateTxSets, TPW)
        /\ Runs(TPW, Unlock("peersMtx"), TW)
    BY <1>5, <1>7, <1>8
  <2>2. Runs(Free, Lock("txsMtx") \o Write("txs") \o
                   Lock("peersMtx") \o UpdateTxSets, TPW)
    BY <1>4, <1>6, <2>1, FourRun
  <2>3. Runs(Free, AddBlock, Free)
    BY <1>6, <2>1, <2>2, ThreeRun DEF AddBlock
  <2> QED
    BY <2>3 DEF Code
<1>19. Ok("NewBlock")
  <2>1. Runs(TR, IsBlockedBy, TR)
    BY <1>7, <1>8
  <2>2. Runs(TR, BlockingSet, TR)
    BY <1>4, <2>1, ThreeRun DEF BlockingSet
  <2>3. Runs(Free, NewBlock, Free)
    BY <1>4, <1>6, <2>2, FourRun DEF NewBlock
  <2> QED
    BY <2>3 DEF Code
<1> QED
  BY <1>10, <1>11, <1>12, <1>13, <1>14, <1>15, <1>16, <1>17, <1>18, <1>19
     DEF MostMethods

-----------------------------------------------------------------------------
(* The inductive invariant                                                 *)

\* What a goroutine holds.
ModeOf(g) ==
  [m \in Mutexes |-> IF HoldsForWriting(g, m) THEN "write"
                     ELSE IF HoldsForReading(g, m) THEN "read"
                     ELSE "none"]

\* A writer that holds a mutex excludes readers; one that waits for it is about
\* to lock it.
MutexInv ==
  /\ readers \in [Mutexes -> SUBSET Goroutines]
  /\ writer \in [Mutexes -> Goroutines \cup {Nobody}]
  /\ locked \in [Mutexes -> BOOLEAN]
  /\ \A m \in Mutexes :
       /\ locked[m] => writer[m] # Nobody /\ readers[m] = {}
       /\ writer[m] # Nobody /\ ~locked[m] =>
            /\ At(writer[m], "Lock")
            /\ On(writer[m]) = m

\* What is left of each method obeys the discipline, given what its goroutine
\* holds.
CodeInv ==
  /\ todo = [g \in Goroutines |-> todo[g]]
  /\ \A g \in Goroutines : Runs(ModeOf(g), todo[g], Free)

Inv == MutexInv /\ CodeInv

\* Outside of the methods nothing is held and nothing is left to do.
LEMMA NothingRuns == Runs(Free, << >>, Free)
<1> DEFINE f == [i \in 1..1 |-> Free]
<1>1. /\ f \in [1..1 -> Modes] /\ f[1] = Free
      /\ << >> \in Seq(Ops) /\ Len(<< >>) = 0 /\ 0 + 1 = 1
  BY DEF Modes, Mode, Holds, Free
<1> HIDE DEF f
<1>2. RunsThrough(f, << >>)
  BY <1>1 DEF RunsThrough
<1> QED
  BY <1>1, <1>2 DEF Runs

\* Goroutines start with no code and no mutex.
LEMMA InvInit == Init => Inv
<1> SUFFICES ASSUME Init PROVE Inv
  OBVIOUS
<1>1. MutexInv
  BY DEF Init, MutexInv
<1>2. Runs(Free, << >>, Free)
  BY NothingRuns
<1>3. ASSUME NEW g \in Goroutines PROVE ModeOf(g) = Free /\ todo[g] = << >>
  BY <1>3, GoroutinesAssumption
     DEF Init, ModeOf, HoldsForWriting, HoldsForReading, Free, Mode
<1> QED
  BY <1>1, <1>2, <1>3 DEF Inv, CodeInv, Init

\* The mode of a goroutine, mutex by mutex.
LEMMA ModeIs ==
  ASSUME MutexInv, NEW g \in Goroutines, NEW m \in Mutexes
  PROVE  /\ ModeOf(g)[m] = "write" <=> writer[m] = g /\ locked[m]
         /\ ModeOf(g)[m] = "read" <=> g \in readers[m]
         /\ ModeOf(g)[m] = "none" <=>
              g \notin readers[m] /\ ~(writer[m] = g /\ locked[m])
         /\ ModeOf(g) \in Modes
<1>1. ModeOf(g)[m] = IF writer[m] = g /\ locked[m] THEN "write"
                     ELSE IF g \in readers[m] THEN "read" ELSE "none"
  BY DEF ModeOf, HoldsForWriting, HoldsForReading
<1>2. ModeOf(g) \in Modes
  BY DEF ModeOf, Modes, Holds
<1>3. writer[m] = g /\ locked[m] => g \notin readers[m]
  BY DEF MutexInv
<1> QED
  BY <1>1, <1>2, <1>3

\* A goroutine that does its next operation keeps to the discipline if its mode
\* changes accordingly and that of no other does.
LEMMA AdvanceKeepsCode ==
  ASSUME Inv, NEW g \in Goroutines, todo[g] # << >>, Advance(g),
         ModeOf(g)' = Effect(ModeOf(g), Head(todo[g])),
         \A h \in Goroutines \ {g} : ModeOf(h)' = ModeOf(h)
  PROVE  CodeInv'
<1>1. Runs(Effect(ModeOf(g), Head(todo[g])), Tail(todo[g]), Free)
  BY HeadRuns DEF Inv, CodeInv
<1>2. /\ todo'[g] = Tail(todo[g])
      /\ \A h \in Goroutines \ {g} : todo'[h] = todo[h]
      /\ todo' = [h \in Goroutines |-> todo'[h]]
  BY DEF Inv, CodeInv, Advance
<1>3. ASSUME NEW h \in Goroutines PROVE Runs(ModeOf(h)', todo'[h], Free)
  <2>1. CASE h = g
    BY <1>1, <1>2, <2>1
  <2>2. CASE h # g
    BY <1>2, <2>2 DEF Inv, CodeInv
  <2> QED
    BY <2>1, <2>2
<1> QED
  BY <1>2, <1>3 DEF CodeInv

\* What the discipline says of the next operation of a goroutine.
LEMMA NextIsAllowed ==
  ASSUME Inv, NEW g \in Goroutines, todo[g] # << >>
  PROVE  Allowed(ModeOf(g), Head(todo[g]))
  BY HeadRuns DEF Inv, CodeInv

\* Every step keeps the invariant.
LEMMA InvNext ==
  ASSUME Methods \subseteq MostMethods, Inv, [Next]_vars
  PROVE  Inv'
<1> USE GoroutinesAssumption
<1>1. ASSUME NEW g \in Goroutines, NEW method \in Methods, Call(g, method)
      PROVE  Inv'
  <2>1. todo[g] = << >> /\ UNCHANGED <<readers, writer, locked>>
    BY <1>1 DEF Call, mutexes
  <2>2. /\ todo'[g] = Code(method)
        /\ \A h \in Goroutines \ {g} : todo'[h] = todo[h]
        /\ todo' = [h \in Goroutines |-> todo'[h]]
    BY <1>1 DEF Call, Inv, CodeInv
  <2>3. MutexInv'
    BY <2>1, <2>2 DEF Inv, MutexInv, At, On
  <2>4. \A h \in Goroutines : ModeOf(h)' = ModeOf(h)
    BY <2>1 DEF ModeOf, HoldsForWriting, HoldsForReading
  <2>5. ModeOf(g) = Free
    <3>1. Runs(ModeOf(g), << >>, Free)
      BY <2>1 DEF Inv, CodeInv
    <3> QED
      BY <3>1 DEF Runs
  <2>6. Runs(Free, Code(method), Free)
    BY MethodsRun
  <2>7. CodeInv'
    BY <2>2, <2>4, <2>5, <2>6 DEF Inv, CodeInv
  <2> QED
    BY <2>3, <2>7 DEF Inv
<1>3. ASSUME NEW g \in Goroutines, Advance(g)
      PROVE  \A h \in Goroutines \ {g} : todo'[h] = todo[h]
  BY <1>3 DEF Advance, Inv, CodeInv
<1>4. ASSUME NEW g \in Goroutines, Access(g) \/ FindBucket(g) PROVE Inv'
  <2>1. todo[g] # << >> /\ Advance(g) /\ UNCHANGED <<readers, writer, locked>>
    BY <1>4, Zenon DEF Access, FindBucket, mutexes, At
  <2>2. \A h \in Goroutines : ModeOf(h)' = ModeOf(h)
    BY <2>1 DEF ModeOf, HoldsForWriting, HoldsForReading
  <2>3. Effect(ModeOf(g), Head(todo[g])) = ModeOf(g)
    BY <1>4 DEF Access, FindBucket, At, Effect
  <2>4. CodeInv'
    BY <2>1, <2>2, <2>3, AdvanceKeepsCode
  <2>5. MutexInv'
    BY <1>3, <1>4, <2>1 DEF Access, FindBucket, Inv, MutexInv, At, On
  <2> QED
    BY <2>4, <2>5 DEF Inv
<1>2. ASSUME NEW g \in Goroutines, InsertBucket(g) PROVE Inv'
  <2>1. /\ todo[g] # << >> /\ Head(todo[g]).op = "bucket"
        /\ UNCHANGED <<readers, writer, locked>>
    BY <1>2 DEF InsertBucket, mutexes, At
  <2>2. /\ todo'[g] = Write("buckets") \o Tail(todo[g])
        /\ \A h \in Goroutines \ {g} : todo'[h] = todo[h]
        /\ todo' = [h \in Goroutines |-> todo'[h]]
    BY <1>2 DEF InsertBucket, Inv, CodeInv
  <2>3. \A h \in Goroutines : ModeOf(h)' = ModeOf(h)
    BY <2>1 DEF ModeOf, HoldsForWriting, HoldsForReading
  <2>4. Runs(ModeOf(g), todo'[g], Free)
    <3>1. Runs(Effect(ModeOf(g), Head(todo[g])), Tail(todo[g]), Free)
      BY <2>1, HeadRuns DEF Inv, CodeInv
    <3>2. Effect(ModeOf(g), Head(todo[g])) = ModeOf(g)
      BY <2>1 DEF Effect
    <3>3. ModeOf(g)["peersMtx"] # "none"
      BY <2>1, NextIsAllowed DEF Allowed, Accesses, ProtectedFields, Guard
    <3>4. ModeOf(g) \in Modes
      BY ModeIs DEF Inv, Mutexes
    <3>5. Runs(ModeOf(g), Write("buckets"), ModeOf(g))
      BY <3>3, <3>4, OpsRun
    <3> QED
      BY <2>2, <3>1, <3>2, <3>5, ThenRuns
  <2>5. CodeInv'
    BY <2>2, <2>3, <2>4 DEF Inv, CodeInv
  <2>6. MutexInv'
    BY <2>1, <2>2 DEF Inv, MutexInv, At, On
  <2> QED
    BY <2>5, <2>6 DEF Inv
<1>5. ASSUME NEW g \in Goroutines, DoRLock(g) PROVE Inv'
  <2> DEFINE m == On(g)
  <2>1. /\ todo[g] # << >> /\ Advance(g) /\ Head(todo[g]).op = "RLock"
        /\ writer[m] = Nobody /\ UNCHANGED <<writer, locked>>
        /\ readers' = [readers EXCEPT ![m] = @ \cup {g}]
    BY <1>5 DEF DoRLock, At
  <2>2. m \in Mutexes /\ Head(todo[g]).on = m
    BY <2>1, NextIsAllowed DEF Allowed, On, Accesses
  <2> HIDE DEF m
  <2>3. MutexInv'
    BY <1>3, <2>1, <2>2 DEF Inv, MutexInv, At, On
  <2>4. ModeOf(g)' = [ModeOf(g) EXCEPT ![m] = "read"]
    BY <2>1, <2>2
       DEF ModeOf, HoldsForWriting, HoldsForReading, Inv, MutexInv
  <2>5. Effect(ModeOf(g), Head(todo[g])) = [ModeOf(g) EXCEPT ![m] = "read"]
    BY <2>1, <2>2 DEF Effect
  <2>6. \A h \in Goroutines \ {g} : ModeOf(h)' = ModeOf(h)
    BY <2>1, <2>2
       DEF ModeOf, HoldsForWriting, HoldsForReading, Inv, MutexInv
  <2> QED
    BY <2>1, <2>3, <2>4, <2>5, <2>6, AdvanceKeepsCode DEF Inv
<1>6. ASSUME NEW g \in Goroutines, DoRUnlock(g) PROVE Inv'
  <2> DEFINE m == On(g)
  <2>1. /\ todo[g] # << >> /\ Advance(g) /\ Head(todo[g]).op = "RUnlock"
        /\ UNCHANGED <<writer, locked>>
        /\ readers' = [readers EXCEPT ![m] = @ \ {g}]
    BY <1>6 DEF DoRUnlock, At
  <2>2. m \in Mutexes /\ Head(todo[g]).on = m /\ ModeOf(g)[m] = "read"
    BY <2>1, NextIsAllowed DEF Allowed, On, Accesses
  <2> HIDE DEF m
  <2>3. MutexInv'
    BY <1>3, <2>1, <2>2 DEF Inv, MutexInv, At, On
  <2>4. ~(writer[m] = g /\ locked[m])
    BY <2>2, ModeIs DEF Inv
  <2>5. ModeOf(g)' = [ModeOf(g) EXCEPT ![m] = "none"]
    BY <2>1, <2>2, <2>4
       DEF ModeOf, HoldsForWriting, HoldsForReading, Inv, MutexInv
  <2>6. Effect(ModeOf(g), Head(todo[g])) = [ModeOf(g) EXCEPT ![m] = "none"]
    BY <2>1, <2>2 DEF Effect
  <2>7. \A h \in Goroutines \ {g} : ModeOf(h)' = ModeOf(h)
    BY <2>1, <2>2
       DEF ModeOf, HoldsForWriting, HoldsForReading, Inv, MutexInv
  <2> QED
    BY <2>1, <2>3, <2>5, <2>6, <2>7, AdvanceKeepsCode DEF Inv
<1>7. ASSUME NEW g \in Goroutines, DoLockAnnounce(g) PROVE Inv'
  <2> DEFINE m == On(g)
  <2>1. /\ At(g, "Lock") /\ todo[g] # << >> /\ Head(todo[g]).op = "Lock"
        /\ writer[m] = Nobody /\ writer' = [writer EXCEPT ![m] = g]
        /\ UNCHANGED <<todo, readers, locked>>
    BY <1>7 DEF DoLockAnnounce, At
  <2>2. m \in Mutexes /\ Head(todo[g]).on = m
    BY <2>1, NextIsAllowed DEF Allowed, On, Accesses
  <2>3. ~locked[m]
    BY <2>1, <2>2 DEF Inv, MutexInv
  <2>4. MutexInv'
    BY <2>1, <2>2, <2>3 DEF Inv, MutexInv, At, On
  <2>5. \A h \in Goroutines : ModeOf(h)' = ModeOf(h)
    BY <2>1, <2>2, <2>3
       DEF ModeOf, HoldsForWriting, HoldsForReading, Inv, MutexInv
  <2> QED
    BY <2>1, <2>4, <2>5 DEF Inv, CodeInv
<1>8. ASSUME NEW g \in Goroutines, DoLock(g) PROVE Inv'
  <2> DEFINE m == On(g)
  <2>1. /\ todo[g] # << >> /\ Advance(g) /\ Head(todo[g]).op = "Lock"
        /\ writer[m] = g /\ readers[m] = {} /\ UNCHANGED <<readers, writer>>
        /\ locked' = [locked EXCEPT ![m] = TRUE]
    BY <1>8 DEF DoLock, At
  <2>2. m \in Mutexes /\ Head(todo[g]).on = m
    BY <2>1, NextIsAllowed DEF Allowed, On, Accesses
  <2> HIDE DEF m
  <2>3. \A k \in Mutexes \ {m} : writer[k] = g => locked[k]
    BY <2>1, <2>2 DEF Inv, MutexInv, On
  <2>4. MutexInv'
    BY <1>3, <2>1, <2>2, <2>3 DEF Inv, MutexInv, At, On
  <2>5. ModeOf(g)' = [ModeOf(g) EXCEPT ![m] = "write"]
    BY <2>1, <2>2
       DEF ModeOf, HoldsForWriting, HoldsForReading, Inv, MutexInv
  <2>6. Effect(ModeOf(g), Head(todo[g])) = [ModeOf(g) EXCEPT ![m] = "write"]
    BY <2>1, <2>2 DEF Effect
  <2>7. \A h \in Goroutines \ {g} : ModeOf(h)' = ModeOf(h)
    BY <2>1, <2>2
       DEF ModeOf, HoldsForWriting, HoldsForReading, Inv, MutexInv
  <2> QED
    BY <2>1, <2>4, <2>5, <2>6, <2>7, AdvanceKeepsCode DEF Inv
<1>9. ASSUME NEW g \in Goroutines, DoUnlock(g) PROVE Inv'
  <2> DEFINE m == On(g)
  <2>1. /\ todo[g] # << >> /\ Advance(g) /\ Head(todo[g]).op = "Unlock"
        /\ UNCHANGED readers
        /\ writer' = [writer EXCEPT ![m] = Nobody]
        /\ locked' = [locked EXCEPT ![m] = FALSE]
    BY <1>9 DEF DoUnlock, At
  <2>2. m \in Mutexes /\ Head(todo[g]).on = m /\ ModeOf(g)[m] = "write"
    BY <2>1, NextIsAllowed DEF Allowed, On, Accesses
  <2> HIDE DEF m
  <2>3. writer[m] = g /\ locked[m] /\ readers[m] = {}
    BY <2>2, ModeIs DEF Inv, MutexInv
  <2>4. MutexInv'
    BY <1>3, <2>1, <2>2 DEF Inv, MutexInv, At, On
  <2>5. ModeOf(g)' = [ModeOf(g) EXCEPT ![m] = "none"]
    BY <2>1, <2>2, <2>3
       DEF ModeOf, HoldsForWriting, HoldsForReading, Inv, MutexInv
  <2>6. Effect(ModeOf(g), Head(todo[g])) = [ModeOf(g) EXCEPT ![m] = "none"]
    BY <2>1, <2>2 DEF Effect
  <2>7. \A h \in Goroutines \ {g} : ModeOf(h)' = ModeOf(h)
    BY <2>1, <2>2, <2>3
       DEF ModeOf, HoldsForWriting, HoldsForReading, Inv, MutexInv
  <2> QED
    BY <2>1, <2>4, <2>5, <2>6, <2>7, AdvanceKeepsCode DEF Inv
<1>10. CASE Abort
  <2>1. MutexInv'
    BY <1>10 DEF Abort, MutexInv
  <2>2. Runs(Free, << >>, Free)
    BY NothingRuns
  <2>3. ASSUME NEW g \in Goroutines PROVE ModeOf(g)' = Free /\ todo'[g] = << >>
    BY <1>10 DEF Abort, ModeOf, HoldsForWriting, HoldsForReading, Free, Mode
  <2>4. todo' = [g \in Goroutines |-> todo'[g]]
    BY <1>10 DEF Abort
  <2> QED
    BY <2>1, <2>2, <2>3, <2>4 DEF Inv, CodeInv
<1>11. CASE UNCHANGED vars
  BY <1>11 DEF vars, mutexes, Inv, MutexInv, CodeInv, At, On, ModeOf,
               HoldsForWriting, HoldsForReading
<1> QED
  BY <1>1, <1>2, <1>4, <1>5, <1>6, <1>7, <1>8, <1>9, <1>10, <1>11
     DEF Next, Step

\* Whoever writes a field holds its mutex, and so does whoever accesses it: for
\* writing, which excludes all others, unless a bucket is inserted.
LEMMA InvLimitsRaces == Inv => OnlyQueriesRace
<1> SUFFICES ASSUME Inv, NEW g \in Goroutines, NEW h \in Goroutines, Race(g, h)
             PROVE  /\ On(g) = "buckets"
                    /\ HoldsForReading(g, "peersMtx")
                    /\ HoldsForReading(h, "peersMtx")
  BY DEF OnlyQueriesRace
<1> DEFINE m == Guard(On(g))
<1>1. m \in Mutexes /\ (On(g) = "buckets" => m = "peersMtx")
  BY DEF Guard, Mutexes
<1>2. ModeOf(g)[m] # "none" /\ (On(g) # "buckets" => ModeOf(g)[m] = "write")
  BY NextIsAllowed DEF Allowed, Race, At, On, Accesses
<1>3. ModeOf(h)[m] # "none"
  BY NextIsAllowed DEF Allowed, Race, At, On, Accesses
<1> HIDE DEF m
<1>4. ASSUME NEW k \in Goroutines, NEW l \in Goroutines, k # l,
             ModeOf(k)[m] = "write", ModeOf(l)[m] # "none"
      PROVE  FALSE
  <2>1. writer[m] = k /\ locked[m] /\ readers[m] = {}
    BY <1>1, <1>4, ModeIs DEF Inv, MutexInv
  <2> QED
    BY <1>1, <1>4, <2>1, ModeIs DEF Inv
<1>5. g # h
  BY DEF Race
<1>6. ModeOf(g)[m] # "write" /\ ModeOf(h)[m] # "write"
  BY <1>2, <1>3, <1>4, <1>5
<1>7. ASSUME NEW k \in Goroutines, ModeOf(k)[m] \notin {"none", "write"}
      PROVE  k \in readers[m]
  BY <1>1, <1>7, ModeIs DEF Inv
<1>8. On(g) = "buckets" /\ m = "peersMtx"
  BY <1>1, <1>2, <1>6
<1> QED
  BY <1>2, <1>3, <1>6, <1>7, <1>8 DEF HoldsForReading

\* Whoever is about to take a mutex holds neither peersMtx nor that mutex.
LEMMA InvOrdersLocks == Inv => LockOrder
<1> SUFFICES ASSUME Inv, NEW g \in Goroutines, At(g, "Lock") \/ At(g, "RLock")
             PROVE  /\ ~HoldsForReading(g, "peersMtx")
                    /\ ~HoldsForWriting(g, "peersMtx")
                    /\ On(g) = "txsMtx" => /\ ~HoldsForReading(g, "txsMtx")
                                           /\ ~HoldsForWriting(g, "txsMtx")
  BY DEF LockOrder
<1>1. ModeOf(g)["peersMtx"] = "none" /\ ModeOf(g)[On(g)] = "none"
  BY NextIsAllowed DEF Allowed, At, On
<1>2. "peersMtx" \in Mutexes /\ "txsMtx" \in Mutexes
  BY DEF Mutexes
<1> QED
  BY <1>1, <1>2, ModeIs DEF Inv, HoldsForReading, HoldsForWriting

\* For any number of goroutines that call any of the methods but BlockingSet
\* and NewBlockWithOptions with its AddBlock flag, the only race for a field
\* that a mutex protects is that of two queries for the buckets they insert.
THEOREM OnlyQueriesRaceForBuckets ==
  ASSUME Methods \subseteq MostMethods
  PROVE  Spec => []OnlyQueriesRace
<1>1. Inv /\ [Next]_vars => Inv'
  BY InvNext
<1> QED
  BY <1>1, InvInit, InvLimitsRaces, PTL DEF Spec

\* They take txsMtx before peersMtx and neither of them twice, so that they
\* cannot wait for each other in a circle.
THEOREM LocksAreOrdered ==
  ASSUME Methods \subseteq MostMethods
  PROVE  Spec => []LockOrder
<1>1. Inv /\ [Next]_vars => Inv'
  BY InvNext
<1> QED
  BY <1>1, InvInit, InvOrdersLocks, PTL DEF Spec
=============================================================================
