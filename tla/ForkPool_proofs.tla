--------------------------- MODULE ForkPool_proofs ---------------------------
(***************************************************************************)
(* Proofs about ForkPool, and about LazyFork on top of it, for every set   *)
(* of variants, engines, VMs and configurations.  IInv is inductive: that  *)
(* the VMs that exist are those held or idle is what makes a fresh VM      *)
(* fresh, and the single owner of each VM is what keeps a dropped one out  *)
(* of every FIFO.  The second half adds what the scheduler keeps: which of *)
(* the acquired VMs is at which index of its chunk, and with which thread. *)
(***************************************************************************)
EXTENDS LazyFork, TLAPS

IInv == TypeOK /\ NoLeak /\ OneOwner

(* The VMs idle in the pools other than v's.                               *)
Others(v) == UNION {Elems(idle[w]) : w \in Variant \ {v}}

-----------------------------------------------------------------------------
(* Facts about the sequences the pools are made of.                        *)

(* fork_batch(n) yields n distinct VMs, none of which existed.             *)
LEMMA FreshFacts ==
  ASSUME NEW n \in Nat, NEW A, NEW s \in FreshBatch(n, A)
  PROVE  /\ s \in Seq(VM)
         /\ Len(s) = n
         /\ DOMAIN s = 1..n
         /\ Distinct(s)
         /\ Elems(s) \subseteq VM
         /\ Elems(s) \cap A = {}
  BY DEF FreshBatch, Distinct, Elems

LEMMA EmptyFacts ==
  /\ <<>> \in Seq(VM)
  /\ Len(<<>>) = 0
  /\ Elems(<<>>) = {}
  /\ Distinct(<<>>)
  BY DEF Elems, Distinct

LEMMA RefillSizeNat ==
  ASSUME NEW c \in [min : Nat, max : Nat], NEW len \in Nat
  PROVE  /\ RefillSize(c, len) \in Nat
         /\ len + RefillSize(c, len) >= Least(c.min, c.max)
         /\ RefillSize(c, len) > 0 => len + RefillSize(c, len) <= c.max
  BY DEF RefillSize, Least, Monus

(* Appending a batch of other VMs (extend, push_back).                     *)
LEMMA ConcatFacts ==
  ASSUME NEW s \in Seq(VM), NEW t \in Seq(VM)
  PROVE  /\ s \o t \in Seq(VM)
         /\ Len(s \o t) = Len(s) + Len(t)
         /\ Elems(s \o t) = Elems(s) \cup Elems(t)
         /\ Distinct(s) /\ Distinct(t) /\ Elems(s) \cap Elems(t) = {}
              => Distinct(s \o t)
  <1>1. /\ s \o t \in Seq(VM)
        /\ Len(s \o t) = Len(s) + Len(t)
        /\ DOMAIN (s \o t) = 1..(Len(s) + Len(t))
        /\ DOMAIN s = 1..Len(s) /\ DOMAIN t = 1..Len(t)
        /\ Len(s) \in Nat /\ Len(t) \in Nat
        /\ \A i \in 1..(Len(s) + Len(t)) :
             (s \o t)[i] = IF i <= Len(s) THEN s[i] ELSE t[i - Len(s)]
    OBVIOUS
  <1>2. Elems(s \o t) \subseteq Elems(s) \cup Elems(t)
    <2> SUFFICES ASSUME NEW i \in 1..(Len(s) + Len(t))
                 PROVE  (s \o t)[i] \in Elems(s) \cup Elems(t)
      BY <1>1 DEF Elems
    <2>1. CASE i <= Len(s)
      BY <1>1, <2>1 DEF Elems
    <2>2. CASE i > Len(s)
      <3>1. i - Len(s) \in 1..Len(t)
        BY <1>1, <2>2
      <3> QED BY <1>1, <2>2, <3>1 DEF Elems
    <2> QED BY <1>1, <2>1, <2>2
  <1>3. Elems(s) \subseteq Elems(s \o t)
    <2> SUFFICES ASSUME NEW i \in 1..Len(s) PROVE s[i] \in Elems(s \o t)
      BY <1>1 DEF Elems
    <2> QED BY <1>1 DEF Elems
  <1>4. Elems(t) \subseteq Elems(s \o t)
    <2> SUFFICES ASSUME NEW i \in 1..Len(t) PROVE t[i] \in Elems(s \o t)
      BY <1>1 DEF Elems
    <2>1. i + Len(s) \in 1..(Len(s) + Len(t)) /\ (s \o t)[i + Len(s)] = t[i]
      BY <1>1
    <2> QED BY <1>1, <2>1 DEF Elems
  <1>5. ASSUME Distinct(s), Distinct(t), Elems(s) \cap Elems(t) = {}
        PROVE  Distinct(s \o t)
    <2> SUFFICES ASSUME NEW i \in 1..(Len(s) + Len(t)),
                        NEW j \in 1..(Len(s) + Len(t)),
                        (s \o t)[i] = (s \o t)[j]
                 PROVE  i = j
      BY <1>1 DEF Distinct
    <2>1. CASE i <= Len(s) /\ j <= Len(s)
      BY <1>1, <1>5, <2>1 DEF Distinct
    <2>2. CASE i > Len(s) /\ j > Len(s)
      <3>1. i - Len(s) \in 1..Len(t) /\ j - Len(s) \in 1..Len(t)
        BY <1>1, <2>2
      <3>2. t[i - Len(s)] = t[j - Len(s)]
        BY <1>1, <2>2
      <3> QED BY <1>1, <1>5, <3>1, <3>2 DEF Distinct
    <2>3. CASE i <= Len(s) /\ j > Len(s)
      <3>1. i \in 1..Len(s) /\ j - Len(s) \in 1..Len(t)
        BY <1>1, <2>3
      <3>2. s[i] = t[j - Len(s)]
        BY <1>1, <2>3
      <3> QED BY <1>1, <1>5, <3>1, <3>2 DEF Elems
    <2>4. CASE i > Len(s) /\ j <= Len(s)
      <3>1. j \in 1..Len(s) /\ i - Len(s) \in 1..Len(t)
        BY <1>1, <2>4
      <3>2. s[j] = t[i - Len(s)]
        BY <1>1, <2>4
      <3> QED BY <1>1, <1>5, <3>1, <3>2 DEF Elems
    <2> QED BY <1>1, <2>1, <2>2, <2>3, <2>4
  <1> QED BY <1>1, <1>2, <1>3, <1>4, <1>5

(* pop_front() and the drain of acquire_batch: a prefix of k VMs goes.     *)
LEMMA SplitFacts ==
  ASSUME NEW q \in Seq(VM), NEW k \in 0..Len(q), Distinct(q)
  PROVE  LET a == SubSeq(q, 1, k)
             b == SubSeq(q, k + 1, Len(q))
         IN /\ a \in Seq(VM) /\ b \in Seq(VM)
            /\ Len(b) = Len(q) - k
            /\ Elems(q) = Elems(a) \cup Elems(b)
            /\ Elems(a) \cap Elems(b) = {}
            /\ Distinct(b)
  <1> DEFINE a == SubSeq(q, 1, k)
             b == SubSeq(q, k + 1, Len(q))
  <1>1. /\ a \in Seq(VM) /\ b \in Seq(VM)
        /\ Len(a) = k /\ Len(b) = Len(q) - k
        /\ DOMAIN a = 1..k /\ DOMAIN b = 1..(Len(q) - k)
        /\ DOMAIN q = 1..Len(q) /\ Len(q) \in Nat /\ k \in Nat /\ k <= Len(q)
        /\ \A i \in 1..k : a[i] = q[i]
        /\ \A i \in 1..(Len(q) - k) : b[i] = q[k + i]
    OBVIOUS
  <1> HIDE DEF a, b
  <1>2. Elems(q) \subseteq Elems(a) \cup Elems(b)
    <2> SUFFICES ASSUME NEW i \in 1..Len(q)
                 PROVE  q[i] \in Elems(a) \cup Elems(b)
      BY <1>1 DEF Elems
    <2>1. CASE i <= k
      <3>1. i \in 1..k /\ a[i] = q[i]
        BY <1>1, <2>1
      <3> QED BY <1>1, <3>1 DEF Elems
    <2>2. CASE i > k
      <3>1. i - k \in 1..(Len(q) - k) /\ b[i - k] = q[i]
        BY <1>1, <2>2
      <3> QED BY <1>1, <3>1 DEF Elems
    <2> QED BY <2>1, <2>2
  <1>3. Elems(a) \cup Elems(b) \subseteq Elems(q)
    <2>1. \A i \in 1..(Len(q) - k) : k + i \in 1..Len(q)
      BY <1>1
    <2> QED BY <1>1, <2>1 DEF Elems
  <1>4. Elems(a) \cap Elems(b) = {}
    <2> SUFFICES ASSUME NEW i \in 1..k, NEW j \in 1..(Len(q) - k), a[i] = b[j]
                 PROVE  FALSE
      BY <1>1 DEF Elems
    <2>1. q[i] = q[k + j] /\ i \in 1..Len(q) /\ k + j \in 1..Len(q)
      BY <1>1
    <2>2. i = k + j
      BY <1>1, <2>1 DEF Distinct
    <2> QED BY <2>2
  <1>5. Distinct(b)
    <2> SUFFICES ASSUME NEW i \in 1..(Len(q) - k), NEW j \in 1..(Len(q) - k),
                        b[i] = b[j]
                 PROVE  i = j
      BY <1>1 DEF Distinct
    <2>1. q[k + i] = q[k + j] /\ k + i \in 1..Len(q) /\ k + j \in 1..Len(q)
      BY <1>1
    <2>2. k + i = k + j
      BY <1>1, <2>1 DEF Distinct
    <2> QED BY <2>2
  <1> QED BY <1>1, <1>2, <1>3, <1>4, <1>5 DEF a, b

LEMMA TailFacts ==
  ASSUME NEW q \in Seq(VM), q # <<>>, Distinct(q)
  PROVE  /\ Tail(q) \in Seq(VM)
         /\ Len(Tail(q)) = Len(q) - 1
         /\ Head(q) \in VM
         /\ Elems(q) = {Head(q)} \cup Elems(Tail(q))
         /\ Head(q) \notin Elems(Tail(q))
         /\ Distinct(Tail(q))
  <1>1. /\ Len(q) \in Nat /\ Len(q) >= 1 /\ 1 \in 0..Len(q)
        /\ DOMAIN SubSeq(q, 1, 1) = {1} /\ SubSeq(q, 1, 1)[1] = q[1]
        /\ Head(q) = q[1] /\ Head(q) \in VM
    OBVIOUS
  <1>2. Tail(q) = SubSeq(q, 1 + 1, Len(q))
    OBVIOUS
  <1>3. Elems(SubSeq(q, 1, 1)) = {Head(q)}
    BY <1>1 DEF Elems
  <1>4. /\ SubSeq(q, 1 + 1, Len(q)) \in Seq(VM)
        /\ Len(SubSeq(q, 1 + 1, Len(q))) = Len(q) - 1
        /\ Elems(q) = Elems(SubSeq(q, 1, 1)) \cup Elems(SubSeq(q, 1 + 1, Len(q)))
        /\ Elems(SubSeq(q, 1, 1)) \cap Elems(SubSeq(q, 1 + 1, Len(q))) = {}
        /\ Distinct(SubSeq(q, 1 + 1, Len(q)))
    BY <1>1, SplitFacts
  <1> QED BY <1>1, <1>2, <1>3, <1>4, Zenon

LEMMA AppendFacts ==
  ASSUME NEW q \in Seq(VM), NEW x \in VM, Distinct(q), x \notin Elems(q)
  PROVE  /\ Append(q, x) \in Seq(VM)
         /\ Len(Append(q, x)) = Len(q) + 1
         /\ Elems(Append(q, x)) = Elems(q) \cup {x}
         /\ Distinct(Append(q, x))
  <1>1. /\ <<x>> \in Seq(VM) /\ Append(q, x) = q \o <<x>> /\ Len(<<x>>) = 1
        /\ DOMAIN <<x>> = {1} /\ <<x>>[1] = x
    OBVIOUS
  <1>2. Elems(<<x>>) = {x} /\ Distinct(<<x>>)
    BY <1>1 DEF Elems, Distinct
  <1>3. Elems(q) \cap Elems(<<x>>) = {}
    BY <1>2
  <1>4. /\ q \o <<x>> \in Seq(VM)
        /\ Len(q \o <<x>>) = Len(q) + Len(<<x>>)
        /\ Elems(q \o <<x>>) = Elems(q) \cup Elems(<<x>>)
        /\ Distinct(q \o <<x>>)
    BY <1>1, <1>2, <1>3, ConcatFacts
  <1> QED BY <1>1, <1>2, <1>4

-----------------------------------------------------------------------------
(* What the invariant says of one pool and of the rest of the system.      *)
LEMMA Parts ==
  ASSUME IInv, NEW v \in Variant
  PROVE  /\ Live = held \cup Elems(idle[v]) \cup Others(v)
         /\ held \cap Elems(idle[v]) = {}
         /\ held \cap Others(v) = {}
         /\ Elems(idle[v]) \cap Others(v) = {}
         /\ Distinct(idle[v])
         /\ idle[v] \in Seq(VM)
         /\ Live \subseteq VM
         /\ held \subseteq VM
  <1>1. \A w \in Variant : w \notin registered => Elems(idle[w]) = {}
    BY EmptyFacts DEF IInv, TypeOK
  <1>2. UNION {Elems(idle[w]) : w \in registered} = Elems(idle[v]) \cup Others(v)
    <2>1. registered \subseteq Variant
      BY DEF IInv, TypeOK
    <2> QED BY <1>1, <2>1 DEF Others
  <1>3. \A w \in Variant : w # v => /\ Elems(idle[v]) \cap Elems(idle[w]) = {}
                                    /\ Elems(idle[w]) \cap held = {}
    BY DEF IInv, OneOwner
  <1>4. /\ held \cap Others(v) = {}
        /\ Elems(idle[v]) \cap Others(v) = {}
    BY <1>3 DEF Others
  <1> QED BY <1>2, <1>4 DEF IInv, NoLeak, OneOwner, TypeOK, Live

(* A step that gives pool v the FIFO q and callers the VMs H, and touches  *)
(* no other pool, preserves the ownership invariants.                      *)
LEMMA PoolStep ==
  ASSUME IInv, NEW v \in Variant, NEW q \in Seq(VM), NEW H \in SUBSET VM,
         Distinct(q), Elems(q) \cap H = {},
         Others(v) \cap Elems(q) = {}, Others(v) \cap H = {},
         idle' = [idle EXCEPT ![v] = q],
         held' = H,
         \/ registered' = registered \cup {v}
         \/ registered' = registered \ {v} /\ q = <<>>,
         \A x \in VM : image'[x] # NoEngine <=> x \in H \cup Elems(q) \cup Others(v)
  PROVE  OneOwner' /\ NoLeak'
  <1>1. /\ idle'[v] = q
        /\ \A w \in Variant : w # v => idle'[w] = idle[w]
    BY DEF IInv, TypeOK
  <1>2. \A w \in Variant : w # v => Elems(idle[w]) \subseteq Others(v)
    BY DEF Others
  <1>3. OneOwner'
    <2>1. ASSUME NEW w \in Variant PROVE Elems(idle'[w]) \cap H = {}
      BY <1>1, <1>2
    <2>2. ASSUME NEW u \in Variant, NEW w \in Variant, u # w
          PROVE  Elems(idle'[u]) \cap Elems(idle'[w]) = {}
      <3>1. CASE u # v /\ w # v
        BY <1>1, <2>2, <3>1 DEF IInv, OneOwner
      <3>2. CASE u = v \/ w = v
        BY <1>1, <1>2, <2>2, <3>2
      <3> QED BY <3>1, <3>2
    <2>3. ASSUME NEW w \in Variant PROVE Distinct(idle'[w])
      BY <1>1 DEF IInv, OneOwner
    <2> QED BY <2>1, <2>2, <2>3 DEF OneOwner
  <1>4. Live' = H \cup Elems(q) \cup Others(v)
    <2>1. Elems(q) \subseteq VM /\ Others(v) \subseteq VM
      BY Parts DEF Elems
    <2> QED BY <2>1 DEF Live
  <1>5. UNION {Elems(idle'[w]) : w \in registered'} = Elems(q) \cup Others(v)
    <2>1. \A w \in Variant : w \notin registered => Elems(idle[w]) = {}
      BY EmptyFacts DEF IInv, TypeOK
    <2>2. registered \subseteq Variant
      BY DEF IInv, TypeOK
    <2>3. q = <<>> => Elems(q) = {}
      BY EmptyFacts
    <2>4. UNION {Elems(idle'[w]) : w \in registered'}
            = UNION {Elems(idle'[w]) : w \in Variant}
      BY <1>1, <2>1, <2>2, <2>3
    <2>5. UNION {Elems(idle'[w]) : w \in Variant} = Elems(q) \cup Others(v)
      BY <1>1 DEF Others
    <2> QED BY <2>4, <2>5
  <1> QED BY <1>3, <1>4, <1>5 DEF NoLeak

(* What a refill leaves behind: the FIFO it found and N new VMs.           *)
LEMMA RefillFacts ==
  ASSUME IInv, NEW v \in registered, NEW q \in Seq(VM), Distinct(q),
         Elems(q) \subseteq Live, NEW S \in SUBSET VM, Refill(v, q, S)
  PROVE  \E r \in Seq(VM), N \in SUBSET VM :
           /\ idle' = [idle EXCEPT ![v] = r]
           /\ Distinct(r)
           /\ Elems(r) = Elems(q) \cup N
           /\ N \cap (Live \cup S) = {}
           /\ image' = Forked(S \cup N, engine[v])
           /\ owed' \subseteq owed \cup {v}
  <1>1. v \in Variant /\ config[v] \in [min : Nat, max : Nat] /\ Len(q) \in Nat
    BY DEF IInv, TypeOK
  <1>2. RefillSize(config[v], Len(q)) \in Nat
    BY <1>1, RefillSizeNat
  <1>3. CASE \E s \in FreshBatch(RefillSize(config[v], Len(q)), Live \cup S) :
               /\ idle' = [idle EXCEPT ![v] = q \o s]
               /\ image' = Forked(S \cup Elems(s), engine[v])
               /\ owed' = owed \ {v}
    <2>1. PICK s \in FreshBatch(RefillSize(config[v], Len(q)), Live \cup S) :
               /\ idle' = [idle EXCEPT ![v] = q \o s]
               /\ image' = Forked(S \cup Elems(s), engine[v])
               /\ owed' = owed \ {v}
      BY <1>3
    <2>2. /\ s \in Seq(VM) /\ Distinct(s) /\ Elems(s) \in SUBSET VM
          /\ Elems(s) \cap (Live \cup S) = {}
      BY <1>2, <2>1, FreshFacts
    <2>3. Elems(q) \cap Elems(s) = {}
      BY <2>2
    <2>4. /\ q \o s \in Seq(VM) /\ Distinct(q \o s)
          /\ Elems(q \o s) = Elems(q) \cup Elems(s)
      BY <2>2, <2>3, ConcatFacts
    <2> QED BY <2>1, <2>2, <2>4
  <1>4. CASE /\ idle' = [idle EXCEPT ![v] = q]
             /\ image' = Forked(S, engine[v])
             /\ owed' = owed \cup {v}
    <2>1. S \cup {} = S /\ Elems(q) \cup {} = Elems(q) /\ {} \in SUBSET VM
      OBVIOUS
    <2>2. image' = Forked(S \cup {}, engine[v])
      BY <1>4, <2>1
    <2> QED BY <1>4, <2>1, <2>2
  <1> QED BY <1>3, <1>4 DEF Refill

-----------------------------------------------------------------------------
(* One lemma per operation: it preserves the invariant.                    *)
LEMMA RegisterStep ==
  ASSUME IInv, NEW v \in Variant, NEW e \in Engine, NEW c \in Config,
         Register(v, e, c)
  PROVE  IInv'
  <1>1. /\ c \in [min : Nat, max : Nat] /\ c.min \in Nat /\ e # NoEngine
        /\ v \notin registered /\ idle[v] = <<>> /\ Elems(idle[v]) = {}
    BY ConfigAssumption, EngineAssumption, EmptyFacts DEF Register, IInv, TypeOK
  <1>2. PICK s \in Seq(VM) :
          /\ idle' = [idle EXCEPT ![v] = s]
          /\ image' = Forked(Elems(s), e)
          /\ Distinct(s) /\ Elems(s) \subseteq VM /\ Elems(s) \cap Live = {}
          /\ owed' \subseteq owed \cup {v}
    <2>1. CASE \E s \in FreshBatch(c.min, Live) :
                 /\ idle' = [idle EXCEPT ![v] = s]
                 /\ image' = Forked(Elems(s), e)
                 /\ owed' = owed
      BY <1>1, <2>1, FreshFacts
    <2>2. CASE owed' = owed \cup {v} /\ UNCHANGED <<idle, image>>
      <3>1. idle = [idle EXCEPT ![v] = <<>>] /\ image = Forked({}, e)
        BY <1>1 DEF IInv, TypeOK, Forked
      <3> QED BY <2>2, <3>1, EmptyFacts
    <2> QED BY <2>1, <2>2 DEF Register
  <1>3. /\ Live = held \cup Others(v) /\ held \cap Others(v) = {}
        /\ held \in SUBSET VM
    BY <1>1, Parts
  <1>4. \A x \in VM : image'[x] # NoEngine <=> x \in held \cup Elems(s) \cup Others(v)
    BY <1>1, <1>2, <1>3 DEF Forked, Live
  <1>5. OneOwner' /\ NoLeak'
    <2>1. /\ Elems(s) \cap held = {} /\ Others(v) \cap Elems(s) = {}
          /\ Others(v) \cap held = {}
          /\ registered' = registered \cup {v} /\ held' = held
      BY <1>2, <1>3 DEF Register
    <2> QED BY <1>2, <1>3, <1>4, <2>1, PoolStep
  <1>6. TypeOK'
    <2>1. image' \in [VM -> Engine \cup {NoEngine}]
      BY <1>2 DEF Forked, IInv, TypeOK
    <2> QED BY <1>1, <1>2, <2>1 DEF Register, IInv, TypeOK
  <1> QED BY <1>5, <1>6 DEF IInv

(* acquire() with a warm VM and acquire() with a cold one.                 *)
LEMMA AcquireStep ==
  ASSUME IInv, NEW v \in Variant, NEW x \in VM, Acquire(v, x)
  PROVE  IInv'
  <1>1. v \in registered /\ engine[v] # NoEngine /\ engine[v] \in Engine
    BY DEF Acquire, AcquireWarm, AcquireCold, IInv, TypeOK
  <1>2. /\ Live = held \cup Elems(idle[v]) \cup Others(v)
        /\ held \cap Elems(idle[v]) = {} /\ held \cap Others(v) = {}
        /\ Elems(idle[v]) \cap Others(v) = {}
        /\ Distinct(idle[v]) /\ idle[v] \in Seq(VM) /\ held \subseteq VM
    BY Parts
  <1>3. PICK q \in Seq(VM), S \in SUBSET VM :
          /\ Refill(v, q, S)
          /\ Distinct(q)
          /\ Elems(q) \subseteq Elems(idle[v]) \ {x}
          /\ Elems(idle[v]) \subseteq Elems(q) \cup {x}
          /\ S \subseteq {x}
          /\ x \notin Live => S = {x}
          /\ x \notin held \cup Others(v)
    <2>1. CASE AcquireWarm(v, x)
      <3>1. /\ Tail(idle[v]) \in Seq(VM) /\ Distinct(Tail(idle[v]))
            /\ Elems(idle[v]) = {x} \cup Elems(Tail(idle[v]))
            /\ x \notin Elems(Tail(idle[v]))
        BY <1>2, <2>1, TailFacts DEF AcquireWarm
      <3>2. x \in Live /\ x \notin held \cup Others(v)
        BY <1>2, <3>1
      <3>3. Refill(v, Tail(idle[v]), {}) /\ {} \in SUBSET VM
        BY <2>1 DEF AcquireWarm
      <3>4. /\ Elems(Tail(idle[v])) \subseteq Elems(idle[v]) \ {x}
            /\ Elems(idle[v]) \subseteq Elems(Tail(idle[v])) \cup {x}
        BY <3>1
      <3> QED BY <3>1, <3>2, <3>3, <3>4
    <2>2. CASE AcquireCold(v, x)
      BY <1>2, <2>2, EmptyFacts DEF AcquireCold
    <2> QED BY <2>1, <2>2 DEF Acquire
  <1>4. PICK r \in Seq(VM), N \in SUBSET VM :
           /\ idle' = [idle EXCEPT ![v] = r]
           /\ Distinct(r)
           /\ Elems(r) = Elems(q) \cup N
           /\ N \cap (Live \cup S) = {}
           /\ image' = Forked(S \cup N, engine[v])
           /\ owed' \subseteq owed \cup {v}
    <2>1. Elems(q) \subseteq Live
      BY <1>2, <1>3
    <2> QED BY <1>1, <1>3, <2>1, RefillFacts
  <1>5. /\ held' = held \cup {x}
        /\ UNCHANGED <<registered, engine, config, used>>
    BY DEF Acquire, AcquireWarm, AcquireCold
  <1>6. x \notin N
    BY <1>2, <1>3, <1>4
  <1>7. /\ Elems(r) \cap (held \cup {x}) = {}
        /\ Others(v) \cap Elems(r) = {}
        /\ Others(v) \cap (held \cup {x}) = {}
        /\ held \cup {x} \in SUBSET VM
    BY <1>2, <1>3, <1>4, <1>6
  <1>8. \A y \in VM : image'[y] # NoEngine
                        <=> y \in (held \cup {x}) \cup Elems(r) \cup Others(v)
    <2>1. \A y \in VM : image'[y] # NoEngine <=> y \in Live \cup S \cup N
      BY <1>1, <1>4 DEF Forked, Live
    <2>2. Live \cup S \cup N = (held \cup {x}) \cup Elems(r) \cup Others(v)
      BY <1>2, <1>3, <1>4
    <2> QED BY <2>1, <2>2
  <1>9. registered' = registered \cup {v}
    BY <1>1, <1>5
  <1>10. OneOwner' /\ NoLeak'
    BY <1>4, <1>5, <1>7, <1>8, <1>9, PoolStep
  <1>11. TypeOK'
    <2>1. image' \in [VM -> Engine \cup {NoEngine}]
      BY <1>1, <1>4 DEF Forked, IInv, TypeOK
    <2> QED BY <1>1, <1>4, <1>5, <2>1 DEF IInv, TypeOK
  <1> QED BY <1>10, <1>11 DEF IInv

(* acquire_batch(): whether or not fork_batch fails, the drained VMs leave *)
(* the FIFO with an owner or cease to exist.                               *)
LEMMA AcquireBatchStep ==
  ASSUME IInv, NEW v \in Variant, NEW n \in Nat, AcquireBatch(v, n)
  PROVE  IInv'
  <1> DEFINE k    == Least(n, Len(idle[v]))
             warm == SubSeq(idle[v], 1, k)
             rest == SubSeq(idle[v], k + 1, Len(idle[v]))
  <1>1. /\ Live = held \cup Elems(idle[v]) \cup Others(v)
        /\ held \cap Elems(idle[v]) = {} /\ held \cap Others(v) = {}
        /\ Elems(idle[v]) \cap Others(v) = {}
        /\ Distinct(idle[v]) /\ idle[v] \in Seq(VM)
        /\ Live \subseteq VM /\ held \subseteq VM
    BY Parts
  <1>2. k \in 0..Len(idle[v]) /\ n - k \in Nat
    BY <1>1 DEF Least
  <1>3. /\ warm \in Seq(VM) /\ rest \in Seq(VM)
        /\ Elems(idle[v]) = Elems(warm) \cup Elems(rest)
        /\ Elems(warm) \cap Elems(rest) = {}
        /\ Distinct(rest)
    BY <1>1, <1>2, SplitFacts
  <1>4. /\ v \in registered
        /\ registered' = registered \cup {v}
        /\ idle' = [idle EXCEPT ![v] = rest]
        /\ owed' = owed \cup {v}
        /\ UNCHANGED <<registered, engine, config>>
        /\ engine[v] \in Engine /\ engine[v] # NoEngine
    BY DEF AcquireBatch, IInv, TypeOK
  <1>5. CASE \E s \in FreshBatch(n - k, Live) :
               /\ held' = held \cup Elems(warm) \cup Elems(s)
               /\ image' = Forked(Elems(s), engine[v])
               /\ UNCHANGED used
    <2>1. PICK s \in FreshBatch(n - k, Live) :
               /\ held' = held \cup Elems(warm) \cup Elems(s)
               /\ image' = Forked(Elems(s), engine[v])
               /\ UNCHANGED used
      BY <1>5
    <2> HIDE DEF k, warm, rest
    <2>2. Elems(s) \subseteq VM /\ Elems(s) \cap Live = {}
      BY <1>2, <2>1, FreshFacts
    <2>3. /\ held' \in SUBSET VM
          /\ Elems(rest) \cap held' = {}
          /\ Others(v) \cap Elems(rest) = {}
          /\ Others(v) \cap held' = {}
      BY <1>1, <1>3, <2>1, <2>2
    <2>4. \A y \in VM : image'[y] # NoEngine
                          <=> y \in held' \cup Elems(rest) \cup Others(v)
      <3>1. \A y \in VM : image'[y] # NoEngine <=> y \in Live \cup Elems(s)
        BY <1>4, <2>1 DEF Forked, Live
      <3>2. Live \cup Elems(s) = held' \cup Elems(rest) \cup Others(v)
        BY <1>1, <1>3, <2>1
      <3> QED BY <3>1, <3>2
    <2>5. OneOwner' /\ NoLeak'
      BY <1>3, <1>4, <2>3, <2>4, PoolStep
    <2>6. image' \in [VM -> Engine \cup {NoEngine}]
      BY <1>4, <2>1 DEF Forked, IInv, TypeOK
    <2>7. TypeOK'
      BY <1>3, <1>4, <2>1, <2>3, <2>6 DEF IInv, TypeOK
    <2> QED BY <2>5, <2>7 DEF IInv
  <1>6. CASE /\ image' = Dropped(Elems(warm))
             /\ used' = used \ Elems(warm)
             /\ UNCHANGED held
    <2> HIDE DEF k, warm, rest
    <2>1. \A y \in VM : image'[y] # NoEngine
                          <=> y \in held \cup Elems(rest) \cup Others(v)
      <3>1. \A y \in VM : image'[y] # NoEngine <=> y \in Live \ Elems(warm)
        BY <1>6 DEF Dropped, Live
      <3>2. Live \ Elems(warm) = held \cup Elems(rest) \cup Others(v)
        BY <1>1, <1>3
      <3> QED BY <3>1, <3>2
    <2>2. /\ Elems(rest) \cap held = {}
          /\ Others(v) \cap Elems(rest) = {} /\ Others(v) \cap held = {}
          /\ held \in SUBSET VM /\ held' = held
          /\ idle' = [idle EXCEPT ![v] = rest]
          /\ registered' = registered \cup {v}
      BY <1>1, <1>3, <1>4, <1>6
    <2>3. OneOwner' /\ NoLeak'
      BY <1>3, <2>1, <2>2, PoolStep
    <2>4. image' \in [VM -> Engine \cup {NoEngine}]
      BY <1>6 DEF Dropped, IInv, TypeOK
    <2>5. TypeOK'
      BY <1>3, <1>4, <1>6, <2>4 DEF IInv, TypeOK
    <2> QED BY <2>3, <2>5 DEF IInv
  <1> QED BY <1>5, <1>6 DEF AcquireBatch

LEMMA FillToStep ==
  ASSUME IInv, NEW v \in Variant, NEW t \in Nat, FillTo(v, t)
  PROVE  IInv'
  <1>1. /\ Live = held \cup Elems(idle[v]) \cup Others(v)
        /\ held \cap Elems(idle[v]) = {} /\ held \cap Others(v) = {}
        /\ Elems(idle[v]) \cap Others(v) = {}
        /\ Distinct(idle[v]) /\ idle[v] \in Seq(VM) /\ held \subseteq VM
    BY Parts
  <1>2. PICK s \in FreshBatch(t - Len(idle[v]), Live) :
          /\ idle' = [idle EXCEPT ![v] = idle[v] \o s]
          /\ image' = Forked(Elems(s), engine[v])
    BY DEF FillTo
  <1>3. /\ v \in registered
        /\ engine[v] \in Engine /\ engine[v] # NoEngine
        /\ t - Len(idle[v]) \in Nat
        /\ UNCHANGED <<registered, engine, config, held, used, owed>>
    BY <1>1 DEF FillTo, IInv, TypeOK
  <1>4. /\ s \in Seq(VM) /\ Distinct(s) /\ Elems(s) \subseteq VM
        /\ Elems(s) \cap Live = {}
    BY <1>3, FreshFacts
  <1>5. /\ idle[v] \o s \in Seq(VM) /\ Distinct(idle[v] \o s)
        /\ Elems(idle[v] \o s) = Elems(idle[v]) \cup Elems(s)
    BY <1>1, <1>4, ConcatFacts
  <1>6. \A y \in VM : image'[y] # NoEngine
                        <=> y \in held \cup Elems(idle[v] \o s) \cup Others(v)
    <2>1. \A y \in VM : image'[y] # NoEngine <=> y \in Live \cup Elems(s)
      BY <1>2, <1>3 DEF Forked, Live
    <2> QED BY <1>1, <1>5, <2>1
  <1>7. /\ Elems(idle[v] \o s) \cap held = {}
        /\ Others(v) \cap Elems(idle[v] \o s) = {}
        /\ Others(v) \cap held = {}
        /\ registered' = registered \cup {v}
        /\ held' = held /\ held \in SUBSET VM
    BY <1>1, <1>3, <1>4, <1>5
  <1>8. OneOwner' /\ NoLeak'
    BY <1>2, <1>5, <1>6, <1>7, PoolStep
  <1>9. image' \in [VM -> Engine \cup {NoEngine}]
    BY <1>2, <1>3 DEF Forked, IInv, TypeOK
  <1>10. TypeOK'
    BY <1>2, <1>3, <1>5, <1>9 DEF IInv, TypeOK
  <1> QED BY <1>8, <1>10 DEF IInv

LEMMA DropHeldStep ==
  ASSUME IInv, NEW x \in VM, DropHeld(x)
  PROVE  IInv'
  <1>1. /\ x \in held /\ held' = held \ {x}
        /\ image' = Dropped({x}) /\ used' = used \ {x}
        /\ UNCHANGED <<registered, engine, config, idle, owed>>
    BY DEF DropHeld
  <1>2. Live' = Live \ {x}
    BY <1>1 DEF Live, Dropped
  <1>3. x \notin UNION {Elems(idle[v]) : v \in registered}
    BY <1>1 DEF IInv, OneOwner, TypeOK
  <1>4. NoLeak'
    BY <1>1, <1>2, <1>3 DEF IInv, NoLeak
  <1>5. OneOwner'
    BY <1>1 DEF IInv, OneOwner
  <1>6. image' \in [VM -> Engine \cup {NoEngine}]
    BY <1>1 DEF Dropped, IInv, TypeOK
  <1>7. TypeOK'
    BY <1>1, <1>6 DEF IInv, TypeOK
  <1> QED BY <1>4, <1>5, <1>7 DEF IInv

LEMMA ReleaseStep ==
  ASSUME IInv, NEW v \in Variant, NEW x \in VM, Release(v, x)
  PROVE  IInv'
  <1>1. CASE DropHeld(x)
    BY <1>1, DropHeldStep
  <1>2. CASE /\ x \in held
             /\ v \in registered
             /\ held' = held \ {x}
             /\ idle' = [idle EXCEPT ![v] = Append(idle[v], x)]
             /\ UNCHANGED <<registered, engine, config, image, used, owed>>
    <2>1. /\ Live = held \cup Elems(idle[v]) \cup Others(v)
          /\ held \cap Elems(idle[v]) = {} /\ held \cap Others(v) = {}
          /\ Elems(idle[v]) \cap Others(v) = {}
          /\ Distinct(idle[v]) /\ idle[v] \in Seq(VM) /\ held \subseteq VM
      BY Parts
    <2>2. /\ Append(idle[v], x) \in Seq(VM)
          /\ Elems(Append(idle[v], x)) = Elems(idle[v]) \cup {x}
          /\ Distinct(Append(idle[v], x))
      BY <1>2, <2>1, AppendFacts
    <2>3. /\ held \ {x} \in SUBSET VM
          /\ Elems(Append(idle[v], x)) \cap (held \ {x}) = {}
          /\ Others(v) \cap Elems(Append(idle[v], x)) = {}
          /\ Others(v) \cap (held \ {x}) = {}
          /\ registered' = registered \cup {v}
      BY <1>2, <2>1, <2>2
    <2>4. \A y \in VM : image'[y] # NoEngine
            <=> y \in (held \ {x}) \cup Elems(Append(idle[v], x)) \cup Others(v)
      <3>1. \A y \in VM : image'[y] # NoEngine <=> y \in Live
        BY <1>2 DEF Live
      <3> QED BY <1>2, <2>1, <2>2, <3>1
    <2>5. OneOwner' /\ NoLeak'
      BY <1>2, <2>2, <2>3, <2>4, PoolStep
    <2>6. TypeOK'
      BY <1>2, <2>2 DEF IInv, TypeOK
    <2> QED BY <2>5, <2>6 DEF IInv
  <1> QED BY <1>1, <1>2 DEF Release

LEMMA RemoveStep ==
  ASSUME IInv, NEW v \in Variant, Remove(v)
  PROVE  IInv'
  <1>1. /\ Live = held \cup Elems(idle[v]) \cup Others(v)
        /\ held \cap Elems(idle[v]) = {} /\ held \cap Others(v) = {}
        /\ Elems(idle[v]) \cap Others(v) = {}
        /\ held \in SUBSET VM
    BY Parts
  <1>2. /\ registered' = registered \ {v}
        /\ idle' = [idle EXCEPT ![v] = <<>>]
        /\ image' = Dropped(Elems(idle[v]))
        /\ held' = held
    BY DEF Remove
  <1>3. \A y \in VM : image'[y] # NoEngine
                        <=> y \in held \cup Elems(<<>>) \cup Others(v)
    <2>1. \A y \in VM : image'[y] # NoEngine <=> y \in Live \ Elems(idle[v])
      BY <1>2 DEF Dropped, Live
    <2> QED BY <1>1, <2>1, EmptyFacts
  <1>4. OneOwner' /\ NoLeak'
    <2>1. /\ Elems(<<>>) \cap held = {} /\ Others(v) \cap Elems(<<>>) = {}
          /\ <<>> \in Seq(VM) /\ Distinct(<<>>)
      BY EmptyFacts
    <2> QED BY <1>1, <1>2, <1>3, <2>1, PoolStep
  <1>5. image' \in [VM -> Engine \cup {NoEngine}]
    BY <1>2 DEF Dropped, IInv, TypeOK
  <1>6. TypeOK'
    BY <1>5, EmptyFacts DEF Remove, IInv, TypeOK
  <1> QED BY <1>4, <1>6 DEF IInv

LEMMA UseStep ==
  ASSUME IInv, NEW x \in VM, Use(x)
  PROVE  IInv'
  BY DEF Use, IInv, TypeOK, NoLeak, OneOwner, Live

-----------------------------------------------------------------------------
LEMMA InitInv == Init => IInv
  <1> SUFFICES ASSUME Init PROVE IInv
    OBVIOUS
  <1>1. /\ Live = {} /\ held = {} /\ registered = {}
        /\ \A v \in Variant : idle[v] = <<>>
    BY DEF Init, Live
  <1>2. TypeOK
    BY EmptyFacts DEF Init, TypeOK
  <1>3. NoLeak
    BY <1>1 DEF NoLeak
  <1>4. OneOwner
    BY <1>1, EmptyFacts DEF OneOwner
  <1> QED BY <1>2, <1>3, <1>4 DEF IInv

LEMMA NextInv == IInv /\ [Next]_vars => IInv'
  <1> SUFFICES ASSUME IInv, [Next]_vars PROVE IInv'
    OBVIOUS
  <1> USE AskAssumption
  <1>1. ASSUME NEW v \in Variant, NEW e \in Engine, NEW c \in Config,
               Register(v, e, c)
        PROVE  IInv'
    BY <1>1, RegisterStep
  <1>2. ASSUME NEW v \in Variant, NEW x \in VM, Acquire(v, x)
        PROVE  IInv'
    BY <1>2, AcquireStep
  <1>3. ASSUME NEW v \in Variant, NEW n \in 1..MaxAsk, AcquireBatch(v, n)
        PROVE  IInv'
    BY <1>3, AcquireBatchStep
  <1>4. ASSUME NEW v \in Variant, NEW t \in 1..MaxAsk, FillTo(v, t)
        PROVE  IInv'
    BY <1>4, FillToStep
  <1>5. ASSUME NEW v \in Variant, NEW x \in VM, Release(v, x)
        PROVE  IInv'
    BY <1>5, ReleaseStep
  <1>6. ASSUME NEW v \in Variant, Remove(v)
        PROVE  IInv'
    BY <1>6, RemoveStep
  <1>7. ASSUME NEW x \in VM, Use(x) \/ DropHeld(x)
        PROVE  IInv'
    BY <1>7, UseStep, DropHeldStep
  <1>8. CASE UNCHANGED vars
    BY <1>8 DEF vars, IInv, TypeOK, NoLeak, OneOwner, Live
  <1> QED BY <1>1, <1>2, <1>3, <1>4, <1>5, <1>6, <1>7, <1>8 DEF Next

LEMMA Invariance == Spec => []IInv
  BY InitInv, NextInv, PTL DEF Spec

(* The types of pool.rs's state hold in every reachable state.             *)
THEOREM TypeCorrect == Spec => []TypeOK
  <1>1. IInv => TypeOK
    BY DEF IInv
  <1> QED BY <1>1, Invariance, PTL

(* No operation of a ForkPool or PoolManager, on any path, leaks a forked  *)
(* VM or keeps one that was dropped.                                       *)
THEOREM NothingLeaks == Spec => []NoLeak
  <1>1. IInv => NoLeak
    BY DEF IInv
  <1> QED BY <1>1, Invariance, PTL

(* A VM is never with two callers, in two FIFOs, or twice in one.          *)
THEOREM SingleOwner == Spec => []OneOwner
  <1>1. IInv => OneOwner
    BY DEF IInv
  <1> QED BY <1>1, Invariance, PTL

-----------------------------------------------------------------------------
(* A refill that does not fail restores the warm floor.                    *)
LEMMA RefillRestoresFloor ==
  ASSUME TypeOK, NEW v \in registered, NEW q \in Seq(VM), NEW S, Refill(v, q, S),
         v \notin owed'
  PROVE  Len(idle'[v]) >= Least(config[v].min, config[v].max)
  <1>1. v \in Variant /\ config[v] \in [min : Nat, max : Nat] /\ Len(q) \in Nat
    BY DEF TypeOK
  <1>2. PICK s \in FreshBatch(RefillSize(config[v], Len(q)), Live \cup S) :
          idle' = [idle EXCEPT ![v] = q \o s]
    BY <1>1 DEF Refill
  <1>3. s \in Seq(VM) /\ Len(s) = RefillSize(config[v], Len(q))
    BY <1>1, <1>2, RefillSizeNat, FreshFacts
  <1>4. Len(q \o s) = Len(q) + RefillSize(config[v], Len(q))
    BY <1>3, ConcatFacts
  <1>5. Len(q) + RefillSize(config[v], Len(q)) >= Least(config[v].min, config[v].max)
    BY <1>1, RefillSizeNat
  <1>6. idle'[v] = q \o s
    BY <1>1, <1>2 DEF TypeOK
  <1> QED BY <1>4, <1>5, <1>6

(* Whatever callers ask, a pool whose last refill neither failed nor was   *)
(* deferred holds at least min(min, max) idle VMs.                         *)
THEOREM WarmFloor == Spec => []FloorKept
  <1>1. Init => FloorKept
    BY DEF Init, FloorKept
  <1>2. IInv /\ FloorKept /\ [Next]_vars => FloorKept'
    <2> SUFFICES ASSUME IInv, FloorKept, [Next]_vars PROVE FloorKept'
      OBVIOUS
    <2>0. TypeOK /\ registered' \subseteq Variant
      BY NextInv DEF IInv, TypeOK
    <2> SUFFICES ASSUME NEW w \in Variant, w \in registered', w \notin owed'
                 PROVE  Len(idle'[w]) >= Least(config'[w].min, config'[w].max)
      BY <2>0 DEF FloorKept
    <2> USE <2>0
    <2>a. /\ config[w] \in [min : Nat, max : Nat]
          /\ \A u \in Variant : idle[u] \in Seq(VM) /\ Len(idle[u]) \in Nat
          /\ w \in registered /\ w \notin owed =>
               Len(idle[w]) >= Least(config[w].min, config[w].max)
      BY DEF TypeOK, FloorKept
    <2>1. ASSUME NEW v \in Variant, NEW e \in Engine, NEW c \in Config,
                 Register(v, e, c)
          PROVE  Len(idle'[w]) >= Least(config'[w].min, config'[w].max)
      <3>1. CASE w # v
        BY <2>a, <2>1, <3>1 DEF Register, TypeOK
      <3>2. CASE w = v
        <4>1. PICK s \in FreshBatch(c.min, Live) : idle' = [idle EXCEPT ![v] = s]
          BY <2>1, <3>2 DEF Register
        <4>2. c \in [min : Nat, max : Nat] /\ Len(s) = c.min
          BY <4>1, ConfigAssumption, FreshFacts
        <4>3. idle'[w] = s /\ config'[w] = c
          BY <2>1, <3>2, <4>1 DEF Register, TypeOK
        <4> QED BY <4>2, <4>3 DEF Least
      <3> QED BY <3>1, <3>2
    <2>2. ASSUME NEW v \in Variant, NEW x \in VM, Acquire(v, x)
          PROVE  Len(idle'[w]) >= Least(config'[w].min, config'[w].max)
      <3>1. v \in registered /\ UNCHANGED <<registered, config>>
        BY <2>2 DEF Acquire, AcquireWarm, AcquireCold
      <3>2. PICK q \in Seq(VM), S \in SUBSET VM : Refill(v, q, S)
        <4>1. CASE AcquireWarm(v, x)
          <5>1. Tail(idle[v]) \in Seq(VM) /\ {} \in SUBSET VM
            BY <2>a, <4>1 DEF AcquireWarm
          <5> QED BY <4>1, <5>1 DEF AcquireWarm
        <4>2. CASE AcquireCold(v, x)
          <5>1. <<>> \in Seq(VM) /\ {x} \in SUBSET VM
            OBVIOUS
          <5> QED BY <4>2, <5>1 DEF AcquireCold
        <4> QED BY <2>2, <4>1, <4>2 DEF Acquire
      <3>3. CASE w = v
        BY <3>1, <3>2, <3>3, RefillRestoresFloor
      <3>4. CASE w # v
        <4>1. idle'[w] = idle[w] /\ (w \notin owed' => w \notin owed)
          BY <3>2, <3>4 DEF Refill, TypeOK
        <4> QED BY <2>a, <3>1, <4>1
      <3> QED BY <3>3, <3>4
    <2>3. ASSUME NEW v \in Variant, NEW n \in 1..MaxAsk, AcquireBatch(v, n)
          PROVE  Len(idle'[w]) >= Least(config'[w].min, config'[w].max)
      BY <2>a, <2>3 DEF AcquireBatch, TypeOK
    <2>4. ASSUME NEW v \in Variant, NEW t \in 1..MaxAsk, FillTo(v, t)
          PROVE  Len(idle'[w]) >= Least(config'[w].min, config'[w].max)
      <3>1. PICK s \in FreshBatch(t - Len(idle[v]), Live) :
              idle' = [idle EXCEPT ![v] = idle[v] \o s]
        BY <2>4 DEF FillTo
      <3>2. t - Len(idle[v]) \in Nat
        BY <2>a, <2>4, AskAssumption DEF FillTo
      <3>3. s \in Seq(VM) /\ Len(s) \in Nat
        BY <3>1, <3>2, FreshFacts
      <3>4. Len(idle[v] \o s) = Len(idle[v]) + Len(s)
        BY <2>a, <3>3, ConcatFacts
      <3>5. UNCHANGED <<registered, config, owed>>
        BY <2>4 DEF FillTo
      <3>6. Least(config[w].min, config[w].max) \in Nat
        BY <2>a DEF Least
      <3>7. Len(idle'[w]) >= Len(idle[w]) /\ Len(idle'[w]) \in Nat
        BY <2>a, <3>1, <3>3, <3>4 DEF TypeOK
      <3> QED BY <2>a, <3>5, <3>6, <3>7
    <2>5. ASSUME NEW v \in Variant, NEW x \in VM, Release(v, x)
          PROVE  Len(idle'[w]) >= Least(config'[w].min, config'[w].max)
      <3>1. CASE DropHeld(x)
        BY <2>a, <3>1 DEF DropHeld
      <3>2. CASE /\ idle' = [idle EXCEPT ![v] = Append(idle[v], x)]
                 /\ UNCHANGED <<registered, config, owed>>
        <4>1. Least(config[w].min, config[w].max) \in Nat
          BY <2>a DEF Least
        <4>2. Len(Append(idle[v], x)) = Len(idle[v]) + 1
          BY <2>a
        <4>3. Len(idle'[w]) >= Len(idle[w]) /\ Len(idle'[w]) \in Nat
          BY <2>a, <3>2, <4>2 DEF TypeOK
        <4> QED BY <2>a, <3>2, <4>1, <4>3
      <3> QED BY <2>5, <3>1, <3>2 DEF Release
    <2>6. ASSUME NEW v \in Variant, Remove(v)
          PROVE  Len(idle'[w]) >= Least(config'[w].min, config'[w].max)
      BY <2>a, <2>6 DEF Remove, TypeOK
    <2>7. ASSUME NEW x \in VM, Use(x) \/ DropHeld(x)
          PROVE  Len(idle'[w]) >= Least(config'[w].min, config'[w].max)
      BY <2>a, <2>7 DEF Use, DropHeld
    <2>8. CASE UNCHANGED vars
      BY <2>a, <2>8 DEF vars
    <2> QED BY <2>1, <2>2, <2>3, <2>4, <2>5, <2>6, <2>7, <2>8 DEF Next
  <1> QED BY <1>1, <1>2, Invariance, PTL DEF Spec

-----------------------------------------------------------------------------
(* A refill never makes a FIFO longer than max: it leaves the FIFO it      *)
(* found, or fills it up to max at most.                                   *)
LEMMA RefillWithinMax ==
  ASSUME TypeOK, NEW v \in registered, NEW q \in Seq(VM), NEW S, Refill(v, q, S)
  PROVE  /\ Len(idle'[v]) \in Nat
         /\ Len(idle'[v]) <= Len(q) \/ Len(idle'[v]) <= config[v].max
         /\ \A w \in Variant : w # v => idle'[w] = idle[w]
  <1>1. /\ v \in Variant /\ config[v] \in [min : Nat, max : Nat] /\ Len(q) \in Nat
        /\ config[v].max \in Nat
    BY DEF TypeOK
  <1>2. CASE \E s \in FreshBatch(RefillSize(config[v], Len(q)), Live \cup S) :
               idle' = [idle EXCEPT ![v] = q \o s]
    <2>1. PICK s \in FreshBatch(RefillSize(config[v], Len(q)), Live \cup S) :
            idle' = [idle EXCEPT ![v] = q \o s]
      BY <1>2
    <2>2. /\ RefillSize(config[v], Len(q)) \in Nat
          /\ RefillSize(config[v], Len(q)) > 0
               => Len(q) + RefillSize(config[v], Len(q)) <= config[v].max
      BY <1>1, RefillSizeNat
    <2>3. s \in Seq(VM) /\ Len(s) = RefillSize(config[v], Len(q))
      BY <2>1, <2>2, FreshFacts
    <2>4. Len(q \o s) = Len(q) + RefillSize(config[v], Len(q))
      BY <2>3, ConcatFacts
    <2>5. idle'[v] = q \o s /\ \A w \in Variant : w # v => idle'[w] = idle[w]
      BY <1>1, <2>1 DEF TypeOK
    <2> QED BY <1>1, <2>2, <2>4, <2>5
  <1>3. CASE idle' = [idle EXCEPT ![v] = q]
    BY <1>1, <1>3 DEF TypeOK
  <1> QED BY <1>2, <1>3 DEF Refill

(* acquire() refills what it leaves of the FIFO, which is no longer than   *)
(* it was.                                                                 *)
LEMMA AcquireWithinMax ==
  ASSUME IInv, NEW v \in Variant, NEW x \in VM, Acquire(v, x)
  PROVE  /\ Len(idle'[v]) <= Len(idle[v]) \/ Len(idle'[v]) <= config[v].max
         /\ \A w \in Variant : w # v => idle'[w] = idle[w]
  <1>1. /\ v \in registered /\ TypeOK /\ config[v].max \in Nat
        /\ idle[v] \in Seq(VM) /\ Len(idle[v]) \in Nat /\ Distinct(idle[v])
    BY DEF Acquire, AcquireWarm, AcquireCold, IInv, TypeOK, OneOwner
  <1>2. CASE AcquireWarm(v, x)
    <2>1. Tail(idle[v]) \in Seq(VM) /\ Len(Tail(idle[v])) = Len(idle[v]) - 1
      BY <1>1, <1>2, TailFacts DEF AcquireWarm
    <2>2. Refill(v, Tail(idle[v]), {})
      BY <1>2 DEF AcquireWarm
    <2>3. /\ Len(idle'[v]) \in Nat
          /\ Len(idle'[v]) <= Len(Tail(idle[v])) \/ Len(idle'[v]) <= config[v].max
          /\ \A w \in Variant : w # v => idle'[w] = idle[w]
      BY <1>1, <2>1, <2>2, RefillWithinMax
    <2> QED BY <1>1, <2>1, <2>3
  <1>3. CASE AcquireCold(v, x)
    <2>1. Refill(v, <<>>, {x}) /\ idle[v] = <<>>
      BY <1>3 DEF AcquireCold
    <2>2. /\ Len(idle'[v]) <= Len(<<>>) \/ Len(idle'[v]) <= config[v].max
          /\ \A w \in Variant : w # v => idle'[w] = idle[w]
      BY <1>1, <2>1, EmptyFacts, RefillWithinMax
    <2> QED BY <2>1, <2>2
  <1> QED BY <1>2, <1>3 DEF Acquire

(* max bounds what acquire, acquire_batch, release and their refills leave *)
(* in a FIFO: only fill_to takes a registered pool past it.                *)
THEOREM MaxRespected == Spec => PastMaxOnlyByFill
  <1> DEFINE Grows(v) == Len(idle'[v]) > Len(idle[v]) /\ Len(idle'[v]) > config[v].max
             Step == \A v \in registered :
                       Len(idle'[v]) > Len(idle[v]) /\ Len(idle'[v]) > config[v].max =>
                         \E t \in 1..MaxAsk : FillTo(v, t)
  <1>1. IInv /\ [Next]_vars => [Step]_vars
    <2> SUFFICES ASSUME IInv, Next, NEW w \in registered, Grows(w)
                 PROVE  \E t \in 1..MaxAsk : FillTo(w, t)
      OBVIOUS
    <2>0. /\ w \in Variant /\ registered \subseteq Variant
          /\ config[w].max \in Nat
          /\ \A v \in Variant : idle[v] \in Seq(VM) /\ Len(idle[v]) \in Nat
          /\ idle'[w] # idle[w]
      BY DEF IInv, TypeOK
    <2>1. ASSUME NEW v \in Variant, NEW e \in Engine, NEW c \in Config,
                 Register(v, e, c)
          PROVE  FALSE
      <3>1. v # w /\ (idle' = idle \/ \E s : idle' = [idle EXCEPT ![v] = s])
        BY <2>1 DEF Register
      <3> QED BY <2>0, <3>1 DEF IInv, TypeOK
    <2>2. ASSUME NEW v \in Variant, NEW x \in VM, Acquire(v, x)
          PROVE  FALSE
      <3>1. /\ Len(idle'[v]) <= Len(idle[v]) \/ Len(idle'[v]) <= config[v].max
            /\ \A u \in Variant : u # v => idle'[u] = idle[u]
        BY <2>2, AcquireWithinMax
      <3>2. v = w
        BY <2>0, <3>1
      <3>3. Len(idle'[w]) \in Nat
        BY NextInv, <2>0 DEF IInv, TypeOK
      <3> QED BY <2>0, <3>1, <3>2, <3>3
    <2>3. ASSUME NEW v \in Variant, NEW n \in 1..MaxAsk, AcquireBatch(v, n)
          PROVE  FALSE
      <3> DEFINE k == Least(n, Len(idle[v]))
                 rest == SubSeq(idle[v], k + 1, Len(idle[v]))
      <3>1. idle' = [idle EXCEPT ![v] = rest]
        BY <2>3 DEF AcquireBatch
      <3>2. k \in 0..Len(idle[v]) /\ Distinct(idle[v])
        BY <2>0, AskAssumption DEF Least, IInv, OneOwner
      <3>3. Len(rest) = Len(idle[v]) - k
        BY <2>0, <3>2, SplitFacts
      <3> HIDE DEF rest, k
      <3>4. v = w /\ idle'[w] = rest
        BY <2>0, <3>1 DEF IInv, TypeOK
      <3> QED BY <2>0, <3>2, <3>3, <3>4
    <2>4. ASSUME NEW v \in Variant, NEW t \in 1..MaxAsk, FillTo(v, t)
          PROVE  \E u \in 1..MaxAsk : FillTo(w, u)
      <3>1. v = w
        BY <2>0, <2>4 DEF FillTo, IInv, TypeOK
      <3> QED BY <2>4, <3>1
    <2>5. ASSUME NEW v \in Variant, NEW x \in VM, Release(v, x)
          PROVE  FALSE
      <3>1. /\ idle' = [idle EXCEPT ![v] = Append(idle[v], x)]
            /\ v \in registered /\ Len(idle[v]) < config[v].max
        BY <2>0, <2>5 DEF Release, DropHeld
      <3>2. v = w /\ idle'[w] = Append(idle[w], x)
        BY <2>0, <3>1 DEF IInv, TypeOK
      <3>3. Len(Append(idle[w], x)) = Len(idle[w]) + 1
        BY <2>0
      <3> QED BY <2>0, <3>1, <3>2, <3>3
    <2>6. ASSUME NEW v \in Variant, Remove(v)
          PROVE  FALSE
      <3>1. idle' = [idle EXCEPT ![v] = <<>>]
        BY <2>6 DEF Remove
      <3>2. idle'[w] = <<>>
        BY <2>0, <3>1 DEF IInv, TypeOK
      <3> QED BY <2>0, <3>2, EmptyFacts
    <2>7. ASSUME NEW x \in VM, Use(x) \/ DropHeld(x)
          PROVE  FALSE
      BY <2>0, <2>7 DEF Use, DropHeld
    <2> QED BY <2>1, <2>2, <2>3, <2>4, <2>5, <2>6, <2>7 DEF Next
  <1> QED BY <1>1, Invariance, PTL DEF Spec, PastMaxOnlyByFill

-----------------------------------------------------------------------------
(* The abstract pool's view of the state.                                  *)

(* A step that gives pool v the FIFO q gives the abstract pool v its VMs.  *)
LEMMA ReadyStep ==
  ASSUME TypeOK, NEW v \in Variant, NEW q, idle' = [idle EXCEPT ![v] = q]
  PROVE  Ready' = [Ready EXCEPT ![v] = Elems(q)]
  BY DEF Ready, TypeOK

(* The abstract pool's sandboxes are the VMs that exist.                   *)
LEMMA ExistingIsLive ==
  ASSUME IInv
  PROVE  /\ Promise!New = VM \ Live
         /\ \A v \in Variant : Ready[v] = Elems(idle[v])
         /\ \A v \in Variant : Ready[v] \subseteq Live
  <1>1. \A v \in Variant : v \notin registered => Elems(idle[v]) = {}
    BY EmptyFacts DEF IInv, TypeOK
  <1>2. registered \subseteq Variant
    BY DEF IInv, TypeOK
  <1>3. \A v \in Variant : Ready[v] = Elems(idle[v])
    BY DEF Ready
  <1>4. UNION {Ready[v] : v \in Variant} = UNION {Elems(idle[v]) : v \in registered}
    BY <1>1, <1>2, <1>3
  <1>5. Promise!Existing = Live
    BY <1>4 DEF IInv, NoLeak, Promise!Existing
  <1> QED BY <1>3, <1>4, <1>5 DEF IInv, NoLeak, Promise!New

LEMMA RegisterKeepsPromise ==
  ASSUME IInv, NEW v \in Variant, NEW e \in Engine, NEW c \in Config,
         Register(v, e, c)
  PROVE  Promise!Next \/ UNCHANGED <<Ready, held>>
  <1>1. CASE UNCHANGED <<idle, image>>
    BY <1>1 DEF Register, Ready
  <1>2. CASE \E s \in FreshBatch(c.min, Live) : idle' = [idle EXCEPT ![v] = s]
    <2>1. PICK s \in FreshBatch(c.min, Live) : idle' = [idle EXCEPT ![v] = s]
      BY <1>2
    <2>2. c.min \in Nat
      BY ConfigAssumption
    <2>3. Elems(s) \subseteq VM \ Live
      BY <2>1, <2>2, FreshFacts
    <2>4. Ready[v] = {}
      <3>1. idle[v] = <<>>
        BY DEF Register, IInv, TypeOK
      <3> QED BY <3>1, ExistingIsLive, EmptyFacts
    <2>5. Ready' = [Ready EXCEPT ![v] = Elems(s)]
      BY <2>1, ReadyStep DEF IInv
    <2>6. Ready' = [Ready EXCEPT ![v] = Ready[v] \cup Elems(s)]
      BY <2>4, <2>5
    <2>7. Promise!Warm(v, Elems(s))
      BY <2>3, <2>6, ExistingIsLive DEF Register, Promise!Warm
    <2> QED BY <2>3, <2>7 DEF Promise!Next
  <1> QED BY <1>1, <1>2 DEF Register

LEMMA AcquireKeepsPromise ==
  ASSUME IInv, NEW v \in Variant, NEW x \in VM, Acquire(v, x)
  PROVE  Promise!Next
  <1>1. v \in registered /\ held' = held \cup {x}
    BY DEF Acquire, AcquireWarm, AcquireCold
  <1>2. /\ Distinct(idle[v]) /\ idle[v] \in Seq(VM)
        /\ Elems(idle[v]) \subseteq Live /\ Live \subseteq VM
    BY Parts
  <1>3. PICK q \in Seq(VM), S \in SUBSET {x} :
          /\ Refill(v, q, S) /\ Distinct(q)
          /\ Elems(q) = Elems(idle[v]) \ {x}
          /\ \/ S = {} /\ x \in Elems(idle[v])
             \/ S = {x} /\ x \notin Live /\ Elems(idle[v]) = {}
    <2>1. CASE AcquireWarm(v, x)
      <3>1. /\ Tail(idle[v]) \in Seq(VM) /\ Distinct(Tail(idle[v]))
            /\ Elems(idle[v]) = {x} \cup Elems(Tail(idle[v]))
            /\ x \notin Elems(Tail(idle[v]))
        BY <1>2, <2>1, TailFacts DEF AcquireWarm
      <3>2. Elems(Tail(idle[v])) = Elems(idle[v]) \ {x} /\ {} \in SUBSET {x}
        BY <3>1
      <3> QED BY <2>1, <3>1, <3>2 DEF AcquireWarm
    <2>2. CASE AcquireCold(v, x)
      <3>1. Elems(<<>>) = Elems(idle[v]) \ {x} /\ {x} \in SUBSET {x}
        BY <2>2, EmptyFacts DEF AcquireCold
      <3> QED BY <2>2, <3>1, EmptyFacts DEF AcquireCold
    <2> QED BY <2>1, <2>2 DEF Acquire
  <1>4. PICK r \in Seq(VM), N \in SUBSET VM :
           /\ idle' = [idle EXCEPT ![v] = r]
           /\ Distinct(r)
           /\ Elems(r) = Elems(q) \cup N
           /\ N \cap (Live \cup S) = {}
           /\ image' = Forked(S \cup N, engine[v])
           /\ owed' \subseteq owed \cup {v}
    <2>1. Elems(q) \subseteq Live /\ S \in SUBSET VM
      BY <1>2, <1>3
    <2> QED BY <1>1, <1>3, <2>1, RefillFacts
  <1>5. x \notin N
    BY <1>2, <1>3, <1>4
  <1>6. /\ Ready[v] = Elems(idle[v]) /\ Promise!New = VM \ Live
        /\ Ready' = [Ready EXCEPT ![v] = (Ready[v] \ {x}) \cup N]
    <2>1. Ready' = [Ready EXCEPT ![v] = Elems(r)]
      BY <1>4, ReadyStep DEF IInv
    <2>2. Elems(r) = (Ready[v] \ {x}) \cup N
      BY <1>3, <1>4, ExistingIsLive
    <2> QED BY <2>1, <2>2, ExistingIsLive
  <1>7. /\ {x} # {}
        /\ {x} \subseteq Ready[v] \cup (VM \ Live)
        /\ {x} \cap (VM \ Live) # {} => Ready[v] \subseteq {x}
        /\ N \subseteq (VM \ Live) \ {x}
    BY <1>2, <1>3, <1>4, <1>5, <1>6
  <1>8. Promise!Provide(v, {x}, N)
    BY <1>1, <1>6, <1>7 DEF Promise!Provide
  <1> QED BY <1>8 DEF Promise!Next

LEMMA AcquireBatchKeepsPromise ==
  ASSUME IInv, NEW v \in Variant, NEW n \in Nat \ {0}, AcquireBatch(v, n)
  PROVE  Promise!Next
  <1> DEFINE k    == Least(n, Len(idle[v]))
             warm == SubSeq(idle[v], 1, k)
             rest == SubSeq(idle[v], k + 1, Len(idle[v]))
  <1>1. /\ Distinct(idle[v]) /\ idle[v] \in Seq(VM)
        /\ Elems(idle[v]) \subseteq Live /\ Live \subseteq VM
    BY Parts
  <1>2. k \in 0..Len(idle[v]) /\ n - k \in Nat
    BY <1>1 DEF Least
  <1>3. /\ warm \in Seq(VM) /\ rest \in Seq(VM) /\ Len(rest) = Len(idle[v]) - k
        /\ Elems(idle[v]) = Elems(warm) \cup Elems(rest)
        /\ Elems(warm) \cap Elems(rest) = {}
    BY <1>1, <1>2, SplitFacts
  <1>4. /\ Ready[v] = Elems(idle[v]) /\ Promise!New = VM \ Live
        /\ Ready' = [Ready EXCEPT ![v] = Ready[v] \ Elems(warm)]
    <2>1. idle' = [idle EXCEPT ![v] = rest]
      BY DEF AcquireBatch
    <2>2. Ready' = [Ready EXCEPT ![v] = Elems(rest)]
      BY <2>1, ReadyStep DEF IInv
    <2>3. Elems(rest) = Ready[v] \ Elems(warm)
      BY <1>3, ExistingIsLive
    <2> QED BY <2>2, <2>3, ExistingIsLive
  <1>5. CASE \E s \in FreshBatch(n - k, Live) :
               held' = held \cup Elems(warm) \cup Elems(s)
    <2>1. PICK s \in FreshBatch(n - k, Live) :
               held' = held \cup Elems(warm) \cup Elems(s)
      BY <1>5
    <2>2. /\ Elems(s) \subseteq VM \ Live /\ Len(s) = n - k /\ DOMAIN s = 1..(n - k)
      BY <1>2, <2>1, FreshFacts
    <2>3. Elems(warm) \cup Elems(s) # {}
      <3>1. CASE k = 0
        <4>1. 1 \in DOMAIN s
          BY <1>2, <2>2, <3>1
        <4> QED BY <4>1 DEF Elems
      <3>2. CASE k # 0
        <4>1. 1 \in DOMAIN warm
          BY <1>1, <1>2, <3>2
        <4> QED BY <4>1 DEF Elems
      <3> QED BY <3>1, <3>2
    <2>4. Elems(s) # {} => Elems(rest) = {}
      <3>1. Elems(s) # {} => n - k >= 1
        BY <1>2, <2>2 DEF Elems
      <3>2. n - k >= 1 => k = Len(idle[v])
        BY <1>1 DEF Least
      <3>3. k = Len(idle[v]) => rest = <<>>
        BY <1>1
      <3> QED BY <3>1, <3>2, <3>3, EmptyFacts
    <2> DEFINE G == Elems(warm) \cup Elems(s)
    <2>5. /\ G # {} /\ G \in SUBSET VM
          /\ G \subseteq Ready[v] \cup Promise!New
          /\ G \cap Promise!New # {} => Ready[v] \subseteq G
          /\ {} \subseteq Promise!New \ G
          /\ held' = held \cup G
          /\ Ready' = [Ready EXCEPT ![v] = (Ready[v] \ G) \cup {}]
      <3> HIDE DEF k, warm, rest
      <3>1. Ready[v] \ G = Ready[v] \ Elems(warm) /\ (Ready[v] \ G) \cup {} = Ready[v] \ G
        BY <1>1, <1>4, <2>2
      <3>2. G \cap Promise!New # {} => Elems(s) # {}
        BY <1>1, <1>3, <1>4
      <3>3. Elems(warm) \subseteq VM
        BY <1>1, <1>3
      <3> QED BY <1>1, <1>3, <1>4, <2>1, <2>2, <2>3, <2>4, <3>1, <3>2, <3>3
    <2>6. Promise!Provide(v, G, {})
      BY <2>5 DEF Promise!Provide
    <2> HIDE DEF G
    <2> QED BY <2>5, <2>6 DEF Promise!Next
  <1>6. CASE UNCHANGED held
    <2>1. Elems(warm) \subseteq Ready[v] /\ Elems(warm) \in SUBSET VM
      BY <1>1, <1>3, <1>4
    <2>2. Promise!Discard(v, Elems(warm))
      BY <1>4, <1>6, <2>1 DEF Promise!Discard
    <2> QED BY <2>1, <2>2 DEF Promise!Next
  <1> QED BY <1>5, <1>6 DEF AcquireBatch

LEMMA FillToKeepsPromise ==
  ASSUME IInv, NEW v \in Variant, NEW t \in Nat, FillTo(v, t)
  PROVE  Promise!Next
  <1>1. idle[v] \in Seq(VM) /\ t - Len(idle[v]) \in Nat
    BY DEF FillTo, IInv, TypeOK
  <1>2. PICK s \in FreshBatch(t - Len(idle[v]), Live) :
          idle' = [idle EXCEPT ![v] = idle[v] \o s]
    BY DEF FillTo
  <1>3. s \in Seq(VM) /\ Elems(s) \subseteq VM \ Live
    BY <1>1, <1>2, FreshFacts
  <1>4. Elems(idle[v] \o s) = Ready[v] \cup Elems(s)
    BY <1>1, <1>3, ConcatFacts, ExistingIsLive
  <1>5. Ready' = [Ready EXCEPT ![v] = Ready[v] \cup Elems(s)]
    BY <1>2, <1>4, ReadyStep DEF IInv
  <1>6. Promise!Warm(v, Elems(s))
    BY <1>3, <1>5, ExistingIsLive DEF FillTo, Promise!Warm
  <1> QED BY <1>3, <1>6 DEF Promise!Next

LEMMA DropHeldKeepsPromise ==
  ASSUME IInv, NEW x \in VM, DropHeld(x)
  PROVE  Promise!Next
  <1>1. Promise!TakeBack(x)
    BY DEF DropHeld, Promise!TakeBack, Ready
  <1> QED BY <1>1 DEF Promise!Next

LEMMA ReleaseKeepsPromise ==
  ASSUME IInv, NEW v \in Variant, NEW x \in VM, Release(v, x)
  PROVE  Promise!Next
  <1>1. CASE DropHeld(x)
    BY <1>1, DropHeldKeepsPromise
  <1>2. CASE /\ x \in held /\ held' = held \ {x}
             /\ idle' = [idle EXCEPT ![v] = Append(idle[v], x)]
    <2>1. /\ held \cap Elems(idle[v]) = {}
          /\ Distinct(idle[v]) /\ idle[v] \in Seq(VM)
      BY Parts
    <2>2. Elems(Append(idle[v], x)) = Ready[v] \cup {x}
      BY <1>2, <2>1, AppendFacts, ExistingIsLive
    <2>3. Ready' = [Ready EXCEPT ![v] = Ready[v] \cup {x}]
      BY <1>2, <2>2, ReadyStep DEF IInv
    <2>4. Promise!TakeBack(x)
      BY <1>2, <2>3 DEF Promise!TakeBack
    <2> QED BY <2>4 DEF Promise!Next
  <1> QED BY <1>1, <1>2 DEF Release

LEMMA RemoveKeepsPromise ==
  ASSUME IInv, NEW v \in Variant, Remove(v)
  PROVE  Promise!Next
  <1>1. idle' = [idle EXCEPT ![v] = <<>>] /\ held' = held
    BY DEF Remove
  <1>2. Ready[v] \ Ready[v] = Elems(<<>>) /\ Ready[v] \in SUBSET VM
    BY ExistingIsLive, EmptyFacts DEF Live
  <1>3. Ready' = [Ready EXCEPT ![v] = Ready[v] \ Ready[v]]
    BY <1>1, <1>2, ReadyStep DEF IInv
  <1>4. Promise!Discard(v, Ready[v])
    BY <1>1, <1>3 DEF Promise!Discard
  <1> QED BY <1>2, <1>4 DEF Promise!Next

(* The pools of pool.rs implement the abstract pool: an acquire takes new  *)
(* VMs only with everything that was ready, no VM is handed out twice, and *)
(* one that was destroyed comes back only as a new one.                    *)
THEOREM Refinement == Spec => KeepsPromise
  <1>1. Init => Promise!Init
    BY EmptyFacts DEF Init, Promise!Init, Ready
  <1>2. IInv /\ [Next]_vars => [Promise!Next]_<<Ready, held>>
    <2> SUFFICES ASSUME IInv, [Next]_vars
                 PROVE  Promise!Next \/ UNCHANGED <<Ready, held>>
      OBVIOUS
    <2> USE AskAssumption
    <2>1. ASSUME NEW v \in Variant, NEW e \in Engine, NEW c \in Config,
                 Register(v, e, c)
          PROVE  Promise!Next \/ UNCHANGED <<Ready, held>>
      BY <2>1, RegisterKeepsPromise
    <2>2. ASSUME NEW v \in Variant, NEW x \in VM, Acquire(v, x)
          PROVE  Promise!Next
      BY <2>2, AcquireKeepsPromise
    <2>3. ASSUME NEW v \in Variant, NEW n \in 1..MaxAsk, AcquireBatch(v, n)
          PROVE  Promise!Next
      BY <2>3, AcquireBatchKeepsPromise
    <2>4. ASSUME NEW v \in Variant, NEW t \in 1..MaxAsk, FillTo(v, t)
          PROVE  Promise!Next
      BY <2>4, FillToKeepsPromise
    <2>5. ASSUME NEW v \in Variant, NEW x \in VM, Release(v, x)
          PROVE  Promise!Next
      BY <2>5, ReleaseKeepsPromise
    <2>6. ASSUME NEW v \in Variant, Remove(v)
          PROVE  Promise!Next
      BY <2>6, RemoveKeepsPromise
    <2>7. ASSUME NEW x \in VM, Use(x) \/ DropHeld(x)
          PROVE  Promise!Next \/ UNCHANGED <<Ready, held>>
      BY <2>7, DropHeldKeepsPromise DEF Use, Ready
    <2>8. CASE UNCHANGED vars
      BY <2>8 DEF vars, Ready
    <2> QED BY <2>1, <2>2, <2>3, <2>4, <2>5, <2>6, <2>7, <2>8 DEF Next
  <1> QED BY <1>1, <1>2, Invariance, PTL DEF Spec, KeepsPromise, Promise!Spec, Promise!vars

-----------------------------------------------------------------------------
(***************************************************************************)
(* The scheduler of lazy.rs.  While realize() runs, what is held are the   *)
(* VMs of the chunk that are not released yet, each forked from the engine *)
(* its variant still has.  A chunk without a failed acquire has one VM per *)
(* snippet, in order: that is what makes the k-th output the k-th          *)
(* snippet's.                                                              *)
(***************************************************************************)
Outcome ==
  {NoResult} \cup [kind : {"output", "run_error"}, code : Item, own : BOOLEAN]
    \cup [kind : {"acquire_error"}, code : Item]

LazyTypes ==
  /\ LazyTypeOK
  /\ eff \in 1..MaxBatch
  /\ results \in Seq(Outcome)
  /\ acquired \in Seq([variant : Variant, vm : VM])
  /\ failed \subseteq 1..pos

(* What each phase of realize() has in hand.                               *)
Phases ==
  /\ phase = "idle" => items = <<>>
  /\ phase \in {"idle", "done"} => acquired = <<>> /\ base = Len(items)
  /\ phase \in {"acquire", "run"} => base < Len(items)
  /\ phase = "run" => pos = ChunkEnd /\ outputs \in [DOMAIN acquired -> Outcome]
  /\ phase # "run" => running = {} /\ outputs = <<>>

Owned ==
  /\ held \subseteq {acquired[k].vm : k \in DOMAIN acquired}
  /\ phase = "acquire" \/ running # {} => \A k \in DOMAIN acquired : acquired[k].vm \in held
  /\ \A k \in DOMAIN acquired :
       acquired[k].vm \in held => image[acquired[k].vm] = engine[acquired[k].variant]
  /\ \A j, k \in DOMAIN acquired : acquired[j].vm = acquired[k].vm => j = k

(* The chunk at hand, as long as no acquire of it failed.                  *)
Untroubled == failed \cap (base + 1)..pos = {}
OneEach ==
  /\ Len(acquired) <= pos - base
  /\ phase \in {"acquire", "run"} /\ Untroubled =>
       /\ Len(acquired) = pos - base
       /\ \A k \in DOMAIN acquired : acquired[k].variant = VariantOf[items[base + k]]

Good(i) == {[kind |-> k, code |-> i, own |-> TRUE] : k \in {"output", "run_error"}}
ChunkRight ==
  phase = "run" =>
    /\ Untroubled =>
         \A k \in DOMAIN acquired \ running : outputs[k] \in Good(items[base + k])
    /\ \A k \in DOMAIN acquired :
         acquired[k].vm \notin held => results[base + k] = outputs[k]

(* The chunks behind: all are of size eff.                                 *)
InChunk(n) == (n - 1) \div eff
Clean(p) == \A f \in failed : InChunk(f) # InChunk(p)
Aligned == base < Len(items) => \E c \in Nat : base = c * eff
Behind == \A p \in 1..base : Clean(p) => results[p] \in Good(items[p])

LInv ==
  IInv /\ LazyTypes /\ Phases /\ Owned /\ OneEach /\ ChunkRight /\ Aligned /\ Behind /\ IdlePure

-----------------------------------------------------------------------------
(* What an operation of the pools does to the VMs held and to the engines  *)
(* the idle ones come from.                                                *)
LEMMA PureStep ==
  ASSUME IInv, IdlePure, NEW v \in Variant, NEW q \in Seq(VM),
         idle' = [idle EXCEPT ![v] = q],
         registered' \subseteq registered \cup {v},
         \A w \in Variant : w # v => engine'[w] = engine[w],
         v \in registered' => \A y \in Elems(q) : image'[y] = engine'[v],
         \A y \in Others(v) : image'[y] = image[y]
  PROVE  IdlePure'
  <1> SUFFICES ASSUME NEW w \in registered', NEW y \in Elems(idle'[w])
               PROVE  image'[y] = engine'[w]
    BY DEF IdlePure, Elems
  <1>1. w \in Variant /\ idle'[v] = q /\ (w # v => idle'[w] = idle[w] /\ w \in registered)
    BY DEF IInv, TypeOK
  <1>2. CASE w = v
    BY <1>1, <1>2
  <1>3. CASE w # v
    <2>1. y \in Elems(idle[w]) /\ w \in registered
      BY <1>1, <1>3
    <2>2. y \in Others(v)
      BY <1>1, <1>3, <2>1 DEF Others
    <2> QED BY <1>1, <1>3, <2>1, <2>2 DEF IdlePure
  <1> QED BY <1>2, <1>3

LEMMA AcquireEffect ==
  ASSUME IInv, IdlePure, NEW v \in Variant, NEW x \in VM, Acquire(v, x)
  PROVE  /\ x \notin held /\ held' = held \cup {x}
         /\ UNCHANGED engine
         /\ \A y \in held : image'[y] = image[y]
         /\ image'[x] = engine[v]
         /\ IdlePure'
  <1>1. v \in registered /\ engine[v] # NoEngine
    BY DEF Acquire, AcquireWarm, AcquireCold, IInv, TypeOK
  <1>2. /\ Live = held \cup Elems(idle[v]) \cup Others(v)
        /\ held \cap Elems(idle[v]) = {} /\ held \cap Others(v) = {}
        /\ Elems(idle[v]) \cap Others(v) = {}
        /\ Distinct(idle[v]) /\ idle[v] \in Seq(VM) /\ held \subseteq VM /\ Live \subseteq VM
    BY Parts
  <1>3. PICK q \in Seq(VM), S \in SUBSET {x} :
          /\ Refill(v, q, S) /\ Distinct(q)
          /\ Elems(q) = Elems(idle[v]) \ {x}
          /\ \/ S = {} /\ x \in Elems(idle[v])
             \/ S = {x} /\ x \notin Live
    <2>1. CASE AcquireWarm(v, x)
      <3>1. /\ Tail(idle[v]) \in Seq(VM) /\ Distinct(Tail(idle[v]))
            /\ Elems(idle[v]) = {x} \cup Elems(Tail(idle[v]))
            /\ x \notin Elems(Tail(idle[v]))
        BY <1>2, <2>1, TailFacts DEF AcquireWarm
      <3>2. Refill(v, Tail(idle[v]), {}) /\ {} \in SUBSET {x}
        BY <2>1 DEF AcquireWarm
      <3> QED BY <3>1, <3>2
    <2>2. CASE AcquireCold(v, x)
      <3>1. Refill(v, <<>>, {x}) /\ x \notin Live /\ idle[v] = <<>>
        BY <2>2 DEF AcquireCold
      <3> QED BY <3>1, EmptyFacts
    <2> QED BY <2>1, <2>2 DEF Acquire
  <1>4. Elems(q) \subseteq Live /\ S \in SUBSET VM
    BY <1>2, <1>3
  <1>5. PICK r \in Seq(VM), N \in SUBSET VM :
           /\ idle' = [idle EXCEPT ![v] = r]
           /\ Distinct(r)
           /\ Elems(r) = Elems(q) \cup N
           /\ N \cap (Live \cup S) = {}
           /\ image' = Forked(S \cup N, engine[v])
           /\ owed' \subseteq owed \cup {v}
    BY <1>1, <1>3, <1>4, RefillFacts
  <1>6. held' = held \cup {x} /\ UNCHANGED <<registered, engine>>
    BY DEF Acquire, AcquireWarm, AcquireCold
  <1>7. \A y \in Live : y \notin S \cup N
    BY <1>3, <1>5
  <1>8. \A y \in Live : image'[y] = image[y]
    BY <1>2, <1>5, <1>7 DEF Forked
  <1>9. \A y \in Elems(idle[v]) : image[y] = engine[v]
    BY <1>1 DEF IdlePure
  <1>10. image'[x] = engine[v]
    BY <1>2, <1>3, <1>5, <1>8, <1>9 DEF Forked
  <1>11. \A y \in Elems(r) : image'[y] = engine[v]
    BY <1>2, <1>3, <1>5, <1>8, <1>9 DEF Forked
  <1>12. \A y \in Others(v) : image'[y] = image[y]
    BY <1>2, <1>8
  <1>13. IdlePure'
    BY <1>5, <1>6, <1>11, <1>12, PureStep
  <1>14. x \notin held
    BY <1>2, <1>3
  <1> QED BY <1>2, <1>6, <1>8, <1>10, <1>13, <1>14

LEMMA ReleaseEffect ==
  ASSUME IInv, IdlePure, NEW v \in Variant, NEW x \in VM, Release(v, x),
         image[x] = engine[v]
  PROVE  /\ held' = held \ {x}
         /\ UNCHANGED engine
         /\ \A y \in held : y # x => image'[y] = image[y]
         /\ IdlePure'
  <1>1. CASE DropHeld(x)
    <2>1. /\ x \in held /\ held' = held \ {x} /\ image' = Dropped({x})
          /\ UNCHANGED <<registered, engine, idle>>
      BY <1>1 DEF DropHeld
    <2>2. held \subseteq VM /\ \A w \in Variant : Elems(idle[w]) \cap held = {} /\ Elems(idle[w]) \subseteq VM
      BY DEF IInv, TypeOK, OneOwner, Elems
    <2>3. \A y \in VM : y # x => image'[y] = image[y]
      BY <2>1 DEF Dropped
    <2>4. registered \subseteq Variant
      BY DEF IInv, TypeOK
    <2>5. \A w \in registered : \A y \in Elems(idle[w]) : y \in VM /\ y # x
      BY <2>1, <2>2, <2>4
    <2>6. IdlePure'
      <3> SUFFICES ASSUME NEW w \in registered', NEW y \in Elems(idle'[w])
                   PROVE  image'[y] = engine'[w]
        BY DEF IdlePure, Elems
      <3>1. w \in registered /\ y \in Elems(idle[w])
        BY <2>1
      <3> QED BY <2>1, <2>3, <2>5, <3>1 DEF IdlePure
    <2> QED BY <2>1, <2>2, <2>3, <2>6
  <1>2. CASE /\ x \in held
             /\ v \in registered
             /\ held' = held \ {x}
             /\ idle' = [idle EXCEPT ![v] = Append(idle[v], x)]
             /\ UNCHANGED <<registered, engine, config, image, used, owed>>
    <2>1. /\ held \cap Elems(idle[v]) = {} /\ Distinct(idle[v]) /\ idle[v] \in Seq(VM)
      BY Parts
    <2>2. Append(idle[v], x) \in Seq(VM) /\ Elems(Append(idle[v], x)) = Elems(idle[v]) \cup {x}
      BY <1>2, <2>1, AppendFacts
    <2>3. \A y \in Elems(Append(idle[v], x)) : image'[y] = engine'[v]
      BY <1>2, <2>2 DEF IdlePure
    <2>4. IdlePure'
      BY <1>2, <2>2, <2>3, PureStep
    <2> QED BY <1>2, <2>4
  <1> QED BY <1>1, <1>2 DEF Release

(* What the owner does to the pools between two calls of realize().        *)
LEMMA ManageKeepsPure ==
  ASSUME IInv, IdlePure, Manage
  PROVE  IInv' /\ IdlePure' /\ held' = held
  <1>1. ASSUME NEW v \in Variant, NEW e \in Engine, NEW c \in Config, Register(v, e, c)
        PROVE  IInv' /\ IdlePure' /\ held' = held
    <2>1. /\ c \in [min : Nat, max : Nat] /\ c.min \in Nat
          /\ v \notin registered /\ idle[v] = <<>> /\ Elems(idle[v]) = {}
      BY <1>1, ConfigAssumption, EmptyFacts DEF Register, IInv, TypeOK
    <2>2. PICK s \in Seq(VM) :
            /\ idle' = [idle EXCEPT ![v] = s] /\ image' = Forked(Elems(s), e)
            /\ Elems(s) \subseteq VM /\ Elems(s) \cap Live = {}
      <3>1. CASE \E s \in FreshBatch(c.min, Live) :
                   /\ idle' = [idle EXCEPT ![v] = s]
                   /\ image' = Forked(Elems(s), e)
        <4>1. PICK s \in FreshBatch(c.min, Live) :
                /\ idle' = [idle EXCEPT ![v] = s]
                /\ image' = Forked(Elems(s), e)
          BY <3>1
        <4>2. s \in Seq(VM) /\ Elems(s) \subseteq VM /\ Elems(s) \cap Live = {}
          BY <2>1, <4>1, FreshFacts
        <4> QED BY <4>1, <4>2
      <3>2. CASE UNCHANGED <<idle, image>>
        <4>1. idle = [idle EXCEPT ![v] = <<>>] /\ image = Forked({}, e)
          BY <2>1 DEF IInv, TypeOK, Forked
        <4> QED BY <3>2, <4>1, EmptyFacts
      <3> QED BY <1>1, <3>1, <3>2 DEF Register
    <2>3. Others(v) \subseteq Live /\ Live \subseteq VM
      BY Parts
    <2>4. \A y \in Others(v) : image'[y] = image[y]
      BY <2>2, <2>3 DEF Forked
    <2>5. /\ registered' = registered \cup {v} /\ held' = held
          /\ engine' = [engine EXCEPT ![v] = e] /\ engine'[v] = e
          /\ \A w \in Variant : w # v => engine'[w] = engine[w]
      BY <1>1 DEF Register, IInv, TypeOK
    <2>6. \A y \in Elems(s) : image'[y] = engine'[v]
      BY <2>2, <2>5 DEF Forked
    <2>7. IdlePure'
      BY <2>2, <2>4, <2>5, <2>6, PureStep
    <2> QED BY <1>1, <2>5, <2>7, RegisterStep
  <1>2. ASSUME NEW v \in Variant, NEW t \in 1..MaxAsk, FillTo(v, t)
        PROVE  IInv' /\ IdlePure' /\ held' = held
    <2>1. /\ Live = held \cup Elems(idle[v]) \cup Others(v)
          /\ Elems(idle[v]) \cap Others(v) = {} /\ Live \subseteq VM
          /\ idle[v] \in Seq(VM) /\ t \in Nat
      BY Parts, AskAssumption
    <2>2. PICK s \in FreshBatch(t - Len(idle[v]), Live) :
            /\ idle' = [idle EXCEPT ![v] = idle[v] \o s]
            /\ image' = Forked(Elems(s), engine[v])
      BY <1>2 DEF FillTo
    <2>3. t - Len(idle[v]) \in Nat
      BY <1>2, <2>1 DEF FillTo
    <2>4. s \in Seq(VM) /\ Elems(s) \subseteq VM /\ Elems(s) \cap Live = {}
      BY <2>2, <2>3, FreshFacts
    <2>5. idle[v] \o s \in Seq(VM) /\ Elems(idle[v] \o s) = Elems(idle[v]) \cup Elems(s)
      BY <2>1, <2>4, ConcatFacts
    <2>6. \A y \in Live : image'[y] = image[y]
      BY <2>1, <2>2, <2>4 DEF Forked
    <2>7. v \in registered /\ UNCHANGED <<registered, engine, held>>
      BY <1>2 DEF FillTo
    <2>8. \A y \in Elems(idle[v] \o s) : image'[y] = engine'[v]
      BY <2>1, <2>2, <2>4, <2>5, <2>6, <2>7 DEF Forked, IdlePure
    <2>9. \A y \in Others(v) : image'[y] = image[y]
      BY <2>1, <2>6
    <2>10. IdlePure'
      BY <2>2, <2>5, <2>7, <2>8, <2>9, PureStep
    <2> QED BY <1>2, <2>1, <2>7, <2>10, FillToStep
  <1>3. ASSUME NEW v \in Variant, Remove(v)
        PROVE  IInv' /\ IdlePure' /\ held' = held
    <2>1. Elems(idle[v]) \cap Others(v) = {} /\ Others(v) \subseteq VM
      BY Parts
    <2>2. /\ registered' = registered \ {v} /\ engine' = [engine EXCEPT ![v] = NoEngine]
          /\ idle' = [idle EXCEPT ![v] = <<>>] /\ image' = Dropped(Elems(idle[v]))
          /\ held' = held
      BY <1>3 DEF Remove
    <2>3. \A y \in Others(v) : image'[y] = image[y]
      BY <2>1, <2>2 DEF Dropped
    <2>4. \A w \in Variant : w # v => engine'[w] = engine[w]
      BY <2>2 DEF IInv, TypeOK
    <2>5. v \notin registered' /\ registered' \subseteq registered \cup {v}
      BY <2>2
    <2>6. IdlePure'
      BY <2>2, <2>3, <2>4, <2>5, EmptyFacts, PureStep
    <2> QED BY <1>3, <2>2, <2>6, RemoveStep
  <1> QED BY <1>1, <1>2, <1>3 DEF Manage

LEMMA ReplaceKeepsPure ==
  ASSUME IInv, SetPoolManager
  PROVE  IInv' /\ IdlePure' /\ held' = held
  <1> DEFINE gone == UNION {Elems(idle[v]) : v \in Variant}
  <1>1. /\ registered' = {} /\ owed' = {} /\ held' = held
        /\ engine' = [v \in Variant |-> NoEngine]
        /\ config' = [v \in Variant |-> [min |-> 0, max |-> 0]]
        /\ idle' = [v \in Variant |-> <<>>]
        /\ image' = Dropped(gone) /\ used' = used \ gone
    BY DEF SetPoolManager
  <1>2. \A v \in Variant : v \notin registered => Elems(idle[v]) = {}
    BY EmptyFacts DEF IInv, TypeOK
  <1>3. registered \subseteq Variant /\ held \subseteq VM
    BY DEF IInv, TypeOK
  <1>4. Live = held \cup gone
    BY <1>2, <1>3 DEF IInv, NoLeak
  <1>5. held \cap gone = {}
    BY DEF IInv, OneOwner
  <1>6. Live' = Live \ gone
    BY <1>1 DEF Live, Dropped
  <1>7. NoLeak'
    BY <1>1, <1>4, <1>5, <1>6 DEF NoLeak
  <1>8. OneOwner'
    BY <1>1, EmptyFacts DEF OneOwner
  <1>9. TypeOK'
    <2>1. image' \in [VM -> Engine \cup {NoEngine}]
      BY <1>1 DEF Dropped, IInv, TypeOK
    <2>2. /\ engine' \in [Variant -> Engine \cup {NoEngine}]
          /\ config' \in [Variant -> [min : Nat, max : Nat]]
          /\ idle' \in [Variant -> Seq(VM)]
      BY <1>1, EmptyFacts
    <2>3. used' \subseteq VM
      BY <1>1 DEF IInv, TypeOK
    <2> HIDE DEF gone
    <2> QED BY <1>1, <1>3, <2>1, <2>2, <2>3 DEF TypeOK
  <1>10. IdlePure'
    BY <1>1 DEF IdlePure
  <1> QED BY <1>1, <1>7, <1>8, <1>9, <1>10 DEF IInv

-----------------------------------------------------------------------------
(* The n-th snippet is in the c-th chunk.                                  *)
LEMMA ChunkNumber ==
  ASSUME NEW e \in Nat, e > 0, NEW c \in Nat, NEW n \in Int, c * e < n, n <= c * e + e
  PROVE  (n - 1) \div e = c
  <1> DEFINE m == c * e
  <1>1. m \in Nat /\ m <= n - 1 /\ n - 1 < m + e
    OBVIOUS
  <1>2. (c + 1) * e = m + e
    OBVIOUS
  <1> QED BY <1>1, <1>2

LEMMA PoolsRest ==
  ASSUME IInv, IdlePure, UNCHANGED vars
  PROVE  IInv' /\ IdlePure' /\ UNCHANGED <<held, image, engine>>
  BY DEF vars, IInv, IdlePure, TypeOK, NoLeak, OneOwner, Live

LEMMA LazyStart ==
  ASSUME ItemAssumption, BatchAssumption, LazyInit
  PROVE  LInv
  <1>1. IInv
    BY InitInv DEF LazyInit
  <1>2. /\ queue = <<>> /\ timer = FALSE /\ manager = FALSE
        /\ phase = "idle" /\ items = <<>> /\ eff = 1 /\ base = 0 /\ pos = 0
        /\ acquired = <<>> /\ running = {} /\ outputs = <<>>
        /\ results = <<>> /\ failed = {} /\ held = {} /\ registered = {}
    BY DEF LazyInit, Init
  <1>3. /\ <<>> \in Seq(Item) /\ <<>> \in Seq(Outcome)
        /\ <<>> \in Seq([variant : Variant, vm : VM])
        /\ Len(<<>>) = 0 /\ DOMAIN <<>> = {}
    OBVIOUS
  <1>4. MaxBatch \in Nat /\ MaxBatch > 0
    BY DEF BatchAssumption
  <1>5. ChunkEnd = 0 /\ eff \in 1..MaxBatch /\ pos \in base..ChunkEnd /\ base \in 0..Len(items)
    BY <1>2, <1>3, <1>4 DEF ChunkEnd, Least
  <1>6. LazyTypeOK
    BY <1>1, <1>2, <1>3, <1>4, <1>5 DEF LazyTypeOK, IInv
  <1>7. LazyTypes
    BY <1>2, <1>3, <1>5, <1>6 DEF LazyTypes
  <1>8. Phases
    BY <1>2, <1>3 DEF Phases
  <1>9. Owned /\ OneEach /\ ChunkRight /\ Aligned /\ Behind /\ IdlePure
    BY <1>2, <1>3 DEF Owned, OneEach, ChunkRight, Aligned, Behind, IdlePure
  <1> QED BY <1>1, <1>7, <1>8, <1>9 DEF LInv

(* The state between two calls of realize().                               *)
LEMMA AtRest ==
  ASSUME LInv, phase = "idle"
  PROVE  /\ items = <<>> /\ results = <<>> /\ base = 0 /\ pos = 0 /\ acquired = <<>>
         /\ running = {} /\ outputs = <<>> /\ held = {} /\ failed = {}
  <1>1. items = <<>> /\ acquired = <<>> /\ running = {} /\ outputs = <<>> /\ base = Len(items)
    BY DEF LInv, Phases
  <1>2. base = 0 /\ ChunkEnd = 0 /\ pos = 0 /\ Len(results) = 0 /\ results \in Seq(Outcome)
    <2>1. eff \in Nat /\ Len(items) = 0
      BY <1>1 DEF LInv, LazyTypes
    <2> QED BY <1>1, <2>1 DEF LInv, LazyTypes, LazyTypeOK, ChunkEnd, Least
  <1>3. results = <<>>
    BY <1>2
  <1>4. failed = {}
    BY <1>2 DEF LInv, LazyTypes
  <1>5. held = {}
    BY <1>1 DEF LInv, Owned
  <1> QED BY <1>1, <1>2, <1>3, <1>4, <1>5

(* Whatever the pools do between two calls leaves the scheduler alone.     *)
LEMMA LazyIdles ==
  ASSUME LInv, phase = "idle", IInv', IdlePure', held' = held,
         UNCHANGED chunkVars,
         queue' \in Seq(Item), Len(queue') < MaxBatch, timer' = (queue' # <<>>),
         manager' \in BOOLEAN
  PROVE  LInv'
  <1>1. /\ items = <<>> /\ results = <<>> /\ base = 0 /\ pos = 0 /\ acquired = <<>>
        /\ running = {} /\ outputs = <<>> /\ held = {} /\ failed = {}
    BY AtRest
  <1>2. /\ phase' = phase /\ items' = items /\ results' = results /\ base' = base
        /\ pos' = pos /\ acquired' = acquired /\ eff' = eff
        /\ running' = running /\ outputs' = outputs /\ failed' = failed
    BY DEF chunkVars
  <1>3. LazyTypes'
    BY <1>2 DEF LInv, LazyTypes, LazyTypeOK, IInv, ChunkEnd
  <1>4. Phases'
    BY <1>1, <1>2 DEF LInv, Phases, ChunkEnd
  <1>5. DOMAIN <<>> = {} /\ Len(<<>>) = 0
    OBVIOUS
  <1>6. Owned' /\ OneEach' /\ ChunkRight' /\ Aligned' /\ Behind'
    BY <1>1, <1>2, <1>5 DEF Owned, OneEach, ChunkRight, Aligned, Behind
  <1> QED BY <1>3, <1>4, <1>6 DEF LInv

LEMMA DrainStep ==
  ASSUME BatchAssumption, LInv, phase = "idle", NEW q \in Seq(Item), q # <<>>, Drain(q),
         UNCHANGED vars
  PROVE  LInv'
  <1>1. /\ items = <<>> /\ results = <<>> /\ base = 0 /\ pos = 0 /\ acquired = <<>>
        /\ running = {} /\ outputs = <<>> /\ held = {} /\ failed = {}
    BY AtRest
  <1>2. IInv' /\ IdlePure' /\ UNCHANGED <<held, image, engine>>
    BY PoolsRest DEF LInv
  <1>3. /\ queue' = <<>> /\ timer' = FALSE /\ failed' = {}
        /\ UNCHANGED <<manager, base, pos, acquired, running, outputs>>
    BY DEF Drain
  <1>4. /\ <<>> \in Seq(Item) /\ Len(<<>>) = 0 /\ MaxBatch \in Nat /\ MaxBatch > 0
        /\ DOMAIN <<>> = {} /\ Len(q) \in Nat /\ Len(q) > 0
    BY DEF BatchAssumption
  <1>5. CASE ~manager
    <2>1. UNCHANGED <<phase, items, eff, results>>
      BY <1>5 DEF Drain
    <2>2. UNCHANGED chunkVars
      BY <1>1, <1>3, <2>1 DEF chunkVars
    <2>3. manager' \in BOOLEAN
      BY <1>3 DEF LInv, LazyTypes, LazyTypeOK
    <2> QED BY <1>2, <1>3, <1>4, <2>2, <2>3, LazyIdles
  <1>6. CASE manager
    <2>1. /\ phase' = "acquire" /\ items' = q /\ eff' \in 1..MaxBatch
          /\ results' = [k \in 1..Len(q) |-> NoResult]
      BY <1>6 DEF Drain, EffectiveSizes
    <2>2. Len(q) \in Nat /\ Len(q) > 0 /\ eff' \in Nat /\ eff' > 0
      BY <1>4, <2>1
    <2>3. results' \in Seq(Outcome) /\ Len(results') = Len(q)
      <3>1. NoResult \in Outcome
        BY DEF Outcome
      <3> QED BY <2>1, <2>2, <3>1
    <2>4. base' = 0 /\ pos' = 0 /\ acquired' = <<>> /\ running' = {} /\ outputs' = <<>> /\ held' = {}
      BY <1>1, <1>2, <1>3
    <2>5. pos' \in base' .. ChunkEnd'
      <3>1. ChunkEnd' = Least(0 + eff', Len(q))
        BY <2>1, <2>4 DEF ChunkEnd
      <3>2. \A a, b \in Nat : Least(0 + a, b) \in Nat
        BY DEF Least
      <3>3. ChunkEnd' \in Nat
        BY <2>2, <3>1, <3>2
      <3> QED BY <2>4, <3>3
    <2>6. LazyTypes'
      <3>1. manager' \in BOOLEAN
        BY <1>3 DEF LInv, LazyTypes, LazyTypeOK
      <3>2. base' \in 0..Len(items')
        BY <2>1, <2>2, <2>4
      <3>3. LazyTypeOK'
        BY <1>2, <1>3, <1>4, <2>1, <2>3, <2>4, <2>5, <3>1, <3>2 DEF LazyTypeOK, IInv
      <3>4. <<>> \in Seq([variant : Variant, vm : VM])
        OBVIOUS
      <3> QED BY <1>3, <2>1, <2>3, <2>4, <3>3, <3>4 DEF LazyTypes
    <2>7. Phases'
      BY <2>1, <2>2, <2>4 DEF Phases
    <2>8. Owned' /\ OneEach' /\ ChunkRight' /\ Behind'
      BY <1>4, <2>1, <2>4 DEF Owned, OneEach, ChunkRight, Behind
    <2>9. Aligned'
      <3>0. \A e \in Nat : 0 = 0 * e
        OBVIOUS
      <3>1. 0 \in Nat /\ 0 = 0 * eff'
        BY <2>2, <3>0
      <3> QED BY <2>4, <3>1 DEF Aligned
    <2> QED BY <1>2, <2>6, <2>7, <2>8, <2>9 DEF LInv
  <1>7. manager \in BOOLEAN
    BY DEF LInv, LazyTypes, LazyTypeOK
  <1> QED BY <1>5, <1>6, <1>7

(* The chunk in hand: its bounds and what is known of its VMs.             *)
LEMMA InHand ==
  ASSUME LInv, phase \in {"acquire", "run"}
  PROVE  /\ base \in Nat /\ pos \in Nat /\ eff \in Nat /\ eff > 0 /\ Len(items) \in Nat
         /\ base < Len(items) /\ base <= pos /\ pos <= ChunkEnd
         /\ ChunkEnd = Least(base + eff, Len(items)) /\ ChunkEnd \in Nat
         /\ ChunkEnd <= Len(items) /\ ChunkEnd <= base + eff /\ base < ChunkEnd
         /\ DOMAIN items = 1..Len(items)
         /\ DOMAIN results = 1..Len(items)
         /\ Len(acquired) \in Nat /\ DOMAIN acquired = 1..Len(acquired)
         /\ Len(acquired) <= pos - base
         /\ \A k \in DOMAIN acquired : acquired[k].variant \in Variant /\ acquired[k].vm \in VM
         /\ \A p \in 1..Len(items) : items[p] \in Item
  <1>1. /\ base \in Nat /\ eff \in Nat /\ eff > 0 /\ Len(items) \in Nat /\ base < Len(items)
        /\ pos \in base..ChunkEnd /\ items \in Seq(Item) /\ results \in Seq(Outcome)
        /\ Len(results) = Len(items) /\ acquired \in Seq([variant : Variant, vm : VM])
        /\ Len(acquired) <= pos - base
    BY DEF LInv, LazyTypes, LazyTypeOK, Phases, OneEach
  <1>2. ChunkEnd = Least(base + eff, Len(items))
    BY DEF ChunkEnd
  <1>3. \A a, b \in Nat : /\ Least(a, b) \in Nat /\ Least(a, b) <= a /\ Least(a, b) <= b
                          /\ Least(a, b) \in {a, b}
    BY DEF Least
  <1>4. base + eff \in Nat
    BY <1>1
  <1>5. /\ ChunkEnd \in Nat /\ ChunkEnd <= base + eff /\ ChunkEnd <= Len(items)
        /\ ChunkEnd \in {base + eff, Len(items)}
    BY <1>1, <1>2, <1>3, <1>4
  <1>6. base < ChunkEnd
    BY <1>1, <1>5
  <1>7. pos \in Nat /\ base <= pos /\ pos <= ChunkEnd
    BY <1>1, <1>5
  <1>8. /\ DOMAIN items = 1..Len(items) /\ \A p \in 1..Len(items) : items[p] \in Item
        /\ DOMAIN results = 1..Len(items)
        /\ Len(acquired) \in Nat /\ DOMAIN acquired = 1..Len(acquired)
        /\ \A k \in DOMAIN acquired : acquired[k] \in [variant : Variant, vm : VM]
    <2>1. items \in Seq(Item) /\ results \in Seq(Outcome) /\ Len(results) = Len(items)
      BY <1>1
    <2>2. acquired \in Seq([variant : Variant, vm : VM])
      BY <1>1
    <2>3. /\ DOMAIN items = 1..Len(items) /\ \A p \in 1..Len(items) : items[p] \in Item
      BY <2>1
    <2>4. DOMAIN results = 1..Len(items)
      BY <2>1
    <2>5. /\ Len(acquired) \in Nat /\ DOMAIN acquired = 1..Len(acquired)
          /\ \A k \in DOMAIN acquired : acquired[k] \in [variant : Variant, vm : VM]
      <3>1. ASSUME NEW S, NEW s \in Seq(S)
            PROVE  Len(s) \in Nat /\ DOMAIN s = 1..Len(s) /\ \A k \in DOMAIN s : s[k] \in S
        OBVIOUS
      <3> QED BY <2>2, <3>1
    <2> QED BY <2>3, <2>4, <2>5
  <1> QED BY <1>1, <1>2, <1>5, <1>6, <1>7, <1>8

(* Two snippets of the chunk in hand are in one chunk, those behind it not *)
(* further on.                                                             *)
LEMMA SameChunk ==
  ASSUME LInv, phase \in {"acquire", "run"}, NEW p \in base + 1 .. ChunkEnd,
         NEW f \in base + 1 .. ChunkEnd
  PROVE  InChunk(f) = InChunk(p)
  <1>1. /\ base \in Nat /\ eff \in Nat /\ eff > 0 /\ base < Len(items)
        /\ ChunkEnd \in Nat /\ ChunkEnd <= base + eff
    BY InHand
  <1>2. PICK c \in Nat : base = c * eff
    BY <1>1 DEF LInv, Aligned
  <1>3. /\ p \in Int /\ f \in Int /\ base < p /\ base < f /\ p <= base + eff /\ f <= base + eff
    BY <1>1
  <1>4. (p - 1) \div eff = c
    BY <1>1, <1>2, <1>3, ChunkNumber
  <1>5. (f - 1) \div eff = c
    BY <1>1, <1>2, <1>3, ChunkNumber
  <1> QED BY <1>4, <1>5 DEF InChunk

(* A snippet of a finished chunk with no failed acquire: the chunk was     *)
(* untroubled.                                                             *)
LEMMA CleanIsUntroubled ==
  ASSUME LInv, phase \in {"acquire", "run"}, pos = ChunkEnd,
         NEW p \in base + 1 .. ChunkEnd, Clean(p)
  PROVE  Untroubled
  <1> SUFFICES ASSUME NEW f \in failed, f \in (base + 1) .. pos PROVE FALSE
    BY DEF Untroubled
  <1>1. InChunk(f) = InChunk(p)
    BY SameChunk
  <1> QED BY <1>1 DEF Clean

(* One turn of the acquire loop.                                           *)
LEMMA AcquireNextStep ==
  ASSUME ItemAssumption, LInv, AcquireNext
  PROVE  LInv'
  <1> DEFINE i == items[pos + 1]
             v == VariantOf[i]
  <1>1. /\ phase = "acquire" /\ pos < ChunkEnd /\ pos' = pos + 1
        /\ UNCHANGED <<queue, timer, manager, phase, items, eff, base, running, outputs>>
    BY DEF AcquireNext
  <1>2. /\ base \in Nat /\ pos \in Nat /\ eff \in Nat /\ eff > 0 /\ Len(items) \in Nat
        /\ base < Len(items) /\ base <= pos
        /\ ChunkEnd \in Nat /\ ChunkEnd <= Len(items) /\ base < ChunkEnd
        /\ DOMAIN items = 1..Len(items) /\ DOMAIN results = 1..Len(items)
        /\ Len(acquired) \in Nat /\ DOMAIN acquired = 1..Len(acquired)
        /\ Len(acquired) <= pos - base
        /\ \A p \in 1..Len(items) : items[p] \in Item
    BY <1>1, InHand
  <1>3. pos + 1 \in 1..Len(items) /\ i \in Item /\ v \in Variant
    BY <1>1, <1>2 DEF ItemAssumption
  <1>4. ChunkEnd' = ChunkEnd /\ running = {} /\ outputs = <<>>
    BY <1>1 DEF ChunkEnd, LInv, Phases
  <1>5. /\ results \in Seq(Outcome) /\ Len(results) = Len(items)
        /\ acquired \in Seq([variant : Variant, vm : VM]) /\ failed \subseteq 1..pos
    BY DEF LInv, LazyTypes, LazyTypeOK
  <1>6. Phases' /\ Aligned' /\ ChunkRight'
    BY <1>1, <1>4 DEF LInv, Phases, Aligned, ChunkRight
  <1> HIDE DEF i, v
  <1>7. CASE \E x \in VM : /\ Acquire(v, x)
                           /\ acquired' = Append(acquired, [variant |-> v, vm |-> x])
                           /\ UNCHANGED <<results, failed>>
    <2>1. PICK x \in VM : /\ Acquire(v, x)
                          /\ acquired' = Append(acquired, [variant |-> v, vm |-> x])
                          /\ UNCHANGED <<results, failed>>
      BY <1>7
    <2> DEFINE r == [variant |-> v, vm |-> x]
               n == Len(acquired)
    <2>2. IInv'
      BY <1>3, <2>1, AcquireStep DEF LInv
    <2>3. /\ x \notin held /\ held' = held \cup {x} /\ UNCHANGED engine
          /\ \A y \in held : image'[y] = image[y]
          /\ image'[x] = engine[v] /\ IdlePure'
      BY <1>3, <2>1, AcquireEffect DEF LInv
    <2>4. r \in [variant : Variant, vm : VM] /\ r.variant = v /\ r.vm = x
      BY <1>3
    <2> HIDE DEF r
    <2>5. acquired' = Append(acquired, r)
      BY <2>1 DEF r
    <2>6. /\ acquired' \in Seq([variant : Variant, vm : VM]) /\ DOMAIN acquired' = 1..(n + 1)
          /\ Len(acquired') = n + 1
          /\ acquired'[n + 1] = r /\ \A k \in 1..n : acquired'[k] = acquired[k]
      BY <1>2, <1>5, <2>4, <2>5
    <2>7. n \in Nat /\ DOMAIN acquired = 1..n /\ n <= pos - base
      BY <1>2
    <2> HIDE DEF n
    <2>8. LazyTypes'
      <3>1. running' \subseteq DOMAIN acquired' /\ DOMAIN outputs' \subseteq DOMAIN acquired'
        BY <1>1, <1>4
      <3>2. pos' \in base' .. ChunkEnd'
        BY <1>1, <1>2, <1>4
      <3>3. LazyTypeOK'
        BY <1>1, <2>1, <2>2, <3>1, <3>2 DEF LInv, LazyTypes, LazyTypeOK, IInv
      <3>4. failed' \subseteq 1..pos'
        BY <1>1, <1>2, <1>5, <2>1
      <3> QED BY <1>1, <1>5, <2>1, <2>6, <3>3, <3>4 DEF LInv, LazyTypes
    <2>9. Owned'
      <3>1. /\ held \subseteq {acquired[k].vm : k \in 1..n}
            /\ \A k \in 1..n : acquired[k].vm \in held
            /\ \A k \in 1..n : image[acquired[k].vm] = engine[acquired[k].variant]
            /\ \A j, k \in 1..n : acquired[j].vm = acquired[k].vm => j = k
        BY <1>1, <2>7 DEF LInv, Owned
      <3>2. \A k \in 1..(n + 1) : k \in 1..n \/ k = n + 1
        BY <2>7
      <3>3. n + 1 \in 1..(n + 1) /\ 1..n \subseteq 1..(n + 1)
        BY <2>7
      <3>4. \A k \in 1..(n + 1) : acquired'[k].vm \in held'
        BY <2>3, <2>4, <2>6, <3>1, <3>2
      <3>5. held' \subseteq {acquired'[k].vm : k \in 1..(n + 1)}
        BY <2>3, <2>4, <2>6, <3>1, <3>3
      <3>6. \A k \in 1..(n + 1) : image'[acquired'[k].vm] = engine'[acquired'[k].variant]
        BY <2>3, <2>4, <2>6, <3>1, <3>2
      <3>7. \A j, k \in 1..(n + 1) : acquired'[j].vm = acquired'[k].vm => j = k
        BY <2>3, <2>4, <2>6, <3>1, <3>2
      <3> QED BY <2>6, <3>4, <3>5, <3>6, <3>7 DEF Owned
    <2>10. OneEach'
      <3>1. Len(acquired') <= pos' - base'
        BY <1>1, <1>2, <2>6, <2>7
      <3> SUFFICES ASSUME Untroubled'
                   PROVE  /\ Len(acquired') = pos' - base'
                          /\ \A k \in DOMAIN acquired' :
                               acquired'[k].variant = VariantOf[items'[base' + k]]
        BY <3>1 DEF OneEach
      <3>2. Untroubled
        BY <1>1, <1>2, <2>1 DEF Untroubled
      <3>3. /\ n = pos - base
            /\ \A k \in 1..n : acquired[k].variant = VariantOf[items[base + k]]
        BY <1>1, <2>7, <3>2 DEF LInv, OneEach, n
      <3>4. base + (n + 1) = pos + 1 /\ v = VariantOf[items[base + (n + 1)]]
        BY <1>2, <3>3 DEF v, i
      <3>5. Len(acquired') = pos' - base'
        BY <1>1, <1>2, <2>6, <3>3
      <3>6. \A k \in 1..(n + 1) : k \in 1..n \/ k = n + 1
        BY <2>7
      <3> QED BY <1>1, <2>4, <2>6, <3>3, <3>4, <3>5, <3>6
    <2>11. Behind'
      BY <1>1, <2>1 DEF LInv, Behind, Clean, InChunk
    <2> QED BY <1>6, <2>2, <2>3, <2>8, <2>9, <2>10, <2>11 DEF LInv
  <1>8. CASE /\ AcquireFails(v)
             /\ results' = [results EXCEPT ![pos + 1] = AcquireError(i)]
             /\ failed' = failed \cup {pos + 1}
             /\ UNCHANGED acquired
    <2>1. IInv' /\ IdlePure' /\ UNCHANGED <<held, image, engine>>
      BY <1>8, PoolsRest DEF AcquireFails, LInv
    <2>2. AcquireError(i) \in Outcome
      BY <1>3 DEF AcquireError, Outcome
    <2>3. /\ results' \in Seq(Outcome) /\ Len(results') = Len(items)
          /\ \A p \in 1..base : results'[p] = results[p]
      BY <1>2, <1>3, <1>5, <1>8, <2>2
    <2>4. failed' \subseteq 1..pos'
      BY <1>1, <1>2, <1>5, <1>8
    <2>5. LazyTypes'
      <3>1. pos' \in base' .. ChunkEnd'
        BY <1>1, <1>2, <1>4
      <3>2. LazyTypeOK'
        BY <1>1, <1>8, <2>1, <2>3, <3>1 DEF LInv, LazyTypes, LazyTypeOK, IInv
      <3> QED BY <1>1, <1>5, <1>8, <2>3, <2>4, <3>2 DEF LInv, LazyTypes
    <2>6. Owned'
      BY <1>1, <1>8, <2>1 DEF LInv, Owned
    <2>7. OneEach'
      <3>1. pos + 1 \in failed' \cap (base' + 1) .. pos'
        BY <1>1, <1>2, <1>8
      <3>2. ~Untroubled'
        BY <3>1 DEF Untroubled
      <3>3. Len(acquired') <= pos' - base'
        BY <1>1, <1>2, <1>8
      <3> QED BY <3>2, <3>3 DEF OneEach
    <2>8. Behind'
      <3>1. \A p : Clean(p)' => Clean(p)
        BY <1>1, <1>8 DEF Clean, InChunk
      <3> QED BY <1>1, <2>3, <3>1 DEF LInv, Behind
    <2> QED BY <1>6, <2>1, <2>5, <2>6, <2>7, <2>8 DEF LInv
  <1> QED BY <1>7, <1>8 DEF AcquireNext, i, v

(* The chunk is behind: nothing is held, and if no acquire failed its      *)
(* results are its snippets'.                                              *)
LEMMA AdvanceStep ==
  ASSUME LInv, phase \in {"acquire", "run"}, pos = ChunkEnd, running = {}, held = {},
         Untroubled => \A p \in base + 1 .. ChunkEnd : results[p] \in Good(items[p]),
         Advance, UNCHANGED <<vars, queue, timer, manager, running, results>>
  PROVE  LInv'
  <1>1. /\ base' = ChunkEnd /\ pos' = ChunkEnd /\ acquired' = <<>> /\ outputs' = <<>>
        /\ phase' = (IF ChunkEnd < Len(items) THEN "acquire" ELSE "done")
        /\ UNCHANGED <<items, eff, failed, queue, timer, manager, running, results>>
    BY DEF Advance
  <1>2. /\ base \in Nat /\ eff \in Nat /\ eff > 0 /\ Len(items) \in Nat
        /\ base < Len(items) /\ ChunkEnd = Least(base + eff, Len(items))
        /\ ChunkEnd \in Nat /\ ChunkEnd <= Len(items) /\ base < ChunkEnd
    BY InHand
  <1>3. IInv' /\ IdlePure' /\ UNCHANGED <<held, image, engine>>
    BY PoolsRest DEF LInv
  <1> DEFINE c == ChunkEnd
  <1>4. c \in Nat /\ c <= Len(items) /\ base < c /\ base' = c /\ pos' = c
    BY <1>1, <1>2
  <1>5. ChunkEnd' = Least(c + eff, Len(items))
    BY <1>1 DEF ChunkEnd
  <1>6. c = Least(base + eff, Len(items)) /\ (c < Len(items) => c = base + eff)
    BY <1>2 DEF Least
  <1> HIDE DEF c
  <1>7. ChunkEnd' \in Nat /\ c <= ChunkEnd'
    BY <1>2, <1>4, <1>5 DEF Least
  <1>8. <<>> \in Seq([variant : Variant, vm : VM]) /\ DOMAIN <<>> = {} /\ Len(<<>>) = 0
    OBVIOUS
  <1>9. LazyTypes'
    <2>1. /\ results \in Seq(Outcome) /\ Len(results) = Len(items) /\ failed \subseteq 1..pos
          /\ items \in Seq(Item) /\ queue \in Seq(Item) /\ Len(queue) < MaxBatch
          /\ timer = (queue # <<>>) /\ manager \in BOOLEAN /\ eff \in 1..MaxBatch
      BY DEF LInv, LazyTypes, LazyTypeOK
    <2>2. base' \in 0..Len(items') /\ pos' \in base'..ChunkEnd'
      BY <1>1, <1>2, <1>4, <1>7
    <2>3. phase' \in {"idle", "acquire", "run", "done"}
      BY <1>1
    <2>4. running' \subseteq DOMAIN acquired' /\ DOMAIN outputs' \subseteq DOMAIN acquired'
      BY <1>1, <1>8
    <2>5. LazyTypeOK'
      BY <1>1, <1>3, <2>1, <2>2, <2>3, <2>4 DEF LazyTypeOK, IInv
    <2>6. failed' \subseteq 1..pos'
      BY <1>1, <2>1
    <2> QED BY <1>1, <1>8, <2>1, <2>5, <2>6 DEF LazyTypes
  <1>10. Phases'
    <2>1. phase' = "acquire" => c < Len(items)
      BY <1>1 DEF c
    <2>2. phase' = "done" => c = Len(items)
      BY <1>1, <1>2, <1>4 DEF c
    <2> QED BY <1>1, <1>4, <2>1, <2>2 DEF Phases
  <1>11. Owned' /\ ChunkRight'
    BY <1>1, <1>3, <1>8 DEF Owned, ChunkRight
  <1>12. OneEach'
    BY <1>1, <1>4, <1>8 DEF OneEach
  <1>13. Aligned'
    <2> SUFFICES ASSUME c < Len(items) PROVE \E d \in Nat : c = d * eff
      BY <1>1, <1>4 DEF Aligned
    <2>1. PICK d \in Nat : base = d * eff
      BY <1>2 DEF LInv, Aligned
    <2>2. c = (d + 1) * eff /\ d + 1 \in Nat
      BY <1>2, <1>6, <2>1
    <2> QED BY <2>2
  <1>14. Behind'
    <2> SUFFICES ASSUME NEW p \in 1..c, Clean(p) PROVE results[p] \in Good(items[p])
      BY <1>1, <1>4 DEF Behind, Clean, InChunk
    <2>1. CASE p \in 1..base
      BY <2>1 DEF LInv, Behind
    <2>2. CASE p \in base + 1 .. ChunkEnd
      <3>1. Untroubled
        BY <2>2, CleanIsUntroubled
      <3> QED BY <2>2, <3>1
    <2>3. p \in 1..base \/ p \in base + 1 .. ChunkEnd
      BY <1>2, <1>4 DEF c
    <2> QED BY <2>1, <2>2, <2>3
  <1> QED BY <1>3, <1>9, <1>10, <1>11, <1>12, <1>13, <1>14 DEF LInv

LEMMA EndAcquireStep ==
  ASSUME LInv, EndAcquire
  PROVE  LInv'
  <1>1. /\ phase = "acquire" /\ pos = ChunkEnd
        /\ UNCHANGED <<vars, queue, timer, manager, results>>
    BY DEF EndAcquire
  <1>2. running = {} /\ outputs = <<>>
    BY <1>1 DEF LInv, Phases
  <1>3. /\ base \in Nat /\ base < pos /\ DOMAIN acquired = 1..Len(acquired)
        /\ Len(acquired) \in Nat /\ pos \in Nat
    BY <1>1, InHand
  <1>4. CASE acquired = <<>>
    <2>1. Advance /\ UNCHANGED running
      BY <1>4 DEF EndAcquire
    <2>2. held = {}
      BY <1>4 DEF LInv, Owned
    <2>3. ~Untroubled
      BY <1>1, <1>3, <1>4 DEF LInv, OneEach
    <2> QED BY <1>1, <1>2, <2>1, <2>2, <2>3, AdvanceStep
  <1>5. CASE acquired # <<>>
    <2>1. /\ phase' = "run" /\ running' = DOMAIN acquired
          /\ outputs' = [k \in DOMAIN acquired |-> NoResult]
          /\ UNCHANGED <<items, eff, base, pos, acquired, failed>>
      BY <1>5 DEF EndAcquire
    <2>2. IInv' /\ IdlePure' /\ UNCHANGED <<held, image, engine>>
      BY <1>1, PoolsRest DEF LInv
    <2>3. ChunkEnd' = ChunkEnd
      BY <2>1 DEF ChunkEnd
    <2>4. outputs' \in [DOMAIN acquired' -> Outcome]
      <3>1. NoResult \in Outcome
        BY DEF Outcome
      <3> QED BY <2>1, <3>1
    <2>5. LazyTypes'
      <3>1. LazyTypeOK'
        BY <1>1, <2>1, <2>2, <2>3 DEF LInv, LazyTypes, LazyTypeOK, IInv
      <3> QED BY <1>1, <2>1, <3>1 DEF LInv, LazyTypes
    <2>6. Phases'
      BY <1>1, <2>1, <2>3, <2>4 DEF LInv, Phases
    <2>7. Owned'
      BY <1>1, <2>1, <2>2 DEF LInv, Owned
    <2>8. OneEach'
      BY <1>1, <2>1 DEF LInv, OneEach, Untroubled
    <2>9. ChunkRight'
      <3>1. \A k \in DOMAIN acquired : acquired[k].vm \in held
        BY <1>1 DEF LInv, Owned
      <3> QED BY <2>1, <2>2, <3>1 DEF ChunkRight
    <2>10. Aligned' /\ Behind'
      BY <1>1, <2>1 DEF LInv, Aligned, Behind, Clean, InChunk
    <2> QED BY <2>2, <2>5, <2>6, <2>7, <2>8, <2>9, <2>10 DEF LInv
  <1> QED BY <1>4, <1>5

LEMMA RunThreadStep ==
  ASSUME LInv, NEW k \in running, RunThread(k)
  PROVE  LInv'
  <1> DEFINE i == items[base + k]
             x == acquired[k].vm
  <1>1. /\ phase = "run" /\ running' = running \ {k} /\ Use(x)
        /\ UNCHANGED <<queue, timer, manager, phase, items, eff, base, pos, acquired,
                       results, failed>>
    BY DEF RunThread
  <1>2. PICK r \in Ran(i, x) : outputs' = [outputs EXCEPT ![k] = r]
    BY DEF RunThread
  <1>3. /\ base \in Nat /\ pos \in Nat /\ Len(items) \in Nat /\ pos <= ChunkEnd
        /\ ChunkEnd <= Len(items) /\ ChunkEnd \in Nat
        /\ Len(acquired) \in Nat /\ DOMAIN acquired = 1..Len(acquired)
        /\ Len(acquired) <= pos - base
        /\ \A j \in DOMAIN acquired : acquired[j].variant \in Variant /\ acquired[j].vm \in VM
        /\ \A p \in 1..Len(items) : items[p] \in Item
    BY <1>1, InHand
  <1>4. k \in DOMAIN acquired /\ x \in VM
    BY <1>3 DEF LInv, LazyTypes, LazyTypeOK
  <1>5. base + k \in 1..Len(items) /\ i \in Item
    BY <1>3, <1>4
  <1>6. /\ x \in held
        /\ UNCHANGED <<registered, engine, config, idle, held, image, owed>>
    BY <1>1 DEF Use
  <1>7. IInv' /\ IdlePure'
    BY <1>1, <1>4, <1>6, UseStep DEF LInv, IdlePure
  <1>8. ChunkEnd' = ChunkEnd
    BY <1>1 DEF ChunkEnd
  <1>9. outputs \in [DOMAIN acquired -> Outcome] /\ pos = ChunkEnd
    BY <1>1 DEF LInv, Phases
  <1>10. /\ r \in [kind : {"output", "run_error"}, code : {i},
                   own : {image[x] = engine[VariantOf[i]]}]
    BY DEF Ran
  <1> HIDE DEF i, x
  <1>11. r \in Outcome
    <2>1. {image[x] = engine[VariantOf[i]]} \subseteq BOOLEAN
      OBVIOUS
    <2> QED BY <1>5, <1>10, <2>1 DEF Outcome
  <1>12. /\ outputs' \in [DOMAIN acquired -> Outcome] /\ outputs'[k] = r
         /\ \A j \in DOMAIN acquired : j # k => outputs'[j] = outputs[j]
    BY <1>2, <1>4, <1>9, <1>11
  <1>13. LazyTypes'
    <2>1. running' \subseteq DOMAIN acquired' /\ DOMAIN outputs' \subseteq DOMAIN acquired'
      BY <1>1, <1>12 DEF LInv, LazyTypes, LazyTypeOK
    <2>2. LazyTypeOK'
      BY <1>1, <1>7, <1>8, <2>1 DEF LInv, LazyTypes, LazyTypeOK, IInv
    <2> QED BY <1>1, <2>2 DEF LInv, LazyTypes
  <1>14. Phases'
    BY <1>1, <1>8, <1>9, <1>12 DEF LInv, Phases
  <1>15. Owned'
    BY <1>1, <1>6 DEF LInv, Owned
  <1>16. OneEach'
    BY <1>1 DEF LInv, OneEach, Untroubled
  <1>17. ChunkRight'
    <2>1. \A j \in DOMAIN acquired : acquired[j].vm \in held
      BY DEF LInv, Owned
    <2> SUFFICES ASSUME Untroubled, NEW j \in DOMAIN acquired, j \notin running'
                 PROVE  outputs'[j] \in Good(items[base + j])
      BY <1>1, <1>6, <2>1 DEF ChunkRight, Untroubled
    <2>2. CASE j # k
      BY <1>1, <1>12, <2>2 DEF LInv, ChunkRight
    <2>3. CASE j = k
      <3>1. acquired[k].variant = VariantOf[i]
        BY <1>1, <1>4 DEF LInv, OneEach, i
      <3>2. image[x] = engine[acquired[k].variant]
        BY <1>4, <1>6 DEF LInv, Owned, x
      <3>3. (image[x] = engine[VariantOf[i]]) = TRUE
        BY <3>1, <3>2
      <3>4. r \in [kind : {"output", "run_error"}, code : {i}, own : {TRUE}]
        BY <1>10, <3>3
      <3>5. r = [kind |-> r.kind, code |-> i, own |-> TRUE] /\ r.kind \in {"output", "run_error"}
        BY <3>4
      <3>6. r \in Good(i)
        BY <3>5 DEF Good
      <3> QED BY <1>12, <2>3, <3>6 DEF i
    <2> QED BY <2>2, <2>3
  <1>18. Aligned' /\ Behind'
    BY <1>1 DEF LInv, Aligned, Behind, Clean, InChunk
  <1> QED BY <1>7, <1>13, <1>14, <1>15, <1>16, <1>17, <1>18 DEF LInv

LEMMA ReleaseNextStep ==
  ASSUME LInv, ReleaseNext
  PROVE  LInv'
  <1>1. /\ phase = "run" /\ running = {}
        /\ UNCHANGED <<queue, timer, manager, phase, items, eff, base, pos, acquired,
                       running, outputs, failed>>
    BY DEF ReleaseNext
  <1>2. PICK k \in DOMAIN acquired :
          /\ acquired[k].vm \in held
          /\ Release(acquired[k].variant, acquired[k].vm)
          /\ results' = [results EXCEPT ![base + k] = outputs[k]]
    BY DEF ReleaseNext
  <1> DEFINE x == acquired[k].vm
             v == acquired[k].variant
  <1>3. /\ base \in Nat /\ pos \in Nat /\ Len(items) \in Nat /\ pos <= ChunkEnd
        /\ ChunkEnd <= Len(items) /\ ChunkEnd \in Nat
        /\ Len(acquired) \in Nat /\ DOMAIN acquired = 1..Len(acquired)
        /\ Len(acquired) <= pos - base
        /\ \A j \in DOMAIN acquired : acquired[j].variant \in Variant /\ acquired[j].vm \in VM
    BY <1>1, InHand
  <1>4. base + k \in 1..Len(items) /\ v \in Variant /\ x \in VM /\ k \in 1..Len(acquired)
    BY <1>3
  <1>5. image[x] = engine[v]
    BY <1>2 DEF LInv, Owned
  <1>6. Release(v, x) /\ x \in held
    BY <1>2
  <1> HIDE DEF x, v
  <1>7. IInv'
    BY <1>4, <1>6, ReleaseStep DEF LInv
  <1>8. /\ held' = held \ {x} /\ UNCHANGED engine
        /\ \A y \in held : y # x => image'[y] = image[y]
        /\ IdlePure'
    BY <1>4, <1>5, <1>6, ReleaseEffect DEF LInv
  <1>9. ChunkEnd' = ChunkEnd
    BY <1>1 DEF ChunkEnd
  <1>10. /\ outputs \in [DOMAIN acquired -> Outcome] /\ results \in Seq(Outcome)
         /\ Len(results) = Len(items)
    BY <1>1 DEF LInv, LazyTypes, LazyTypeOK, Phases
  <1>11. /\ results' \in Seq(Outcome) /\ Len(results') = Len(items)
         /\ results'[base + k] = outputs[k]
         /\ \A p \in 1..Len(items) : p # base + k => results'[p] = results[p]
    <2>1. outputs[k] \in Outcome
      BY <1>10
    <2> QED BY <1>2, <1>4, <1>10, <2>1
  <1>12. LazyTypes'
    <2>1. LazyTypeOK'
      BY <1>1, <1>7, <1>9, <1>11 DEF LInv, LazyTypes, LazyTypeOK, IInv
    <2> QED BY <1>1, <1>11, <2>1 DEF LInv, LazyTypes
  <1>13. Phases' /\ OneEach' /\ Aligned'
    BY <1>1, <1>9 DEF LInv, Phases, OneEach, Untroubled, Aligned
  <1>14. Owned'
    <2>1. /\ held \subseteq {acquired[j].vm : j \in DOMAIN acquired}
          /\ \A j \in DOMAIN acquired :
               acquired[j].vm \in held => image[acquired[j].vm] = engine[acquired[j].variant]
          /\ \A j, l \in DOMAIN acquired : acquired[j].vm = acquired[l].vm => j = l
      BY DEF LInv, Owned
    <2>2. held' \subseteq {acquired[j].vm : j \in DOMAIN acquired}
      BY <1>8, <2>1
    <2>3. \A j \in DOMAIN acquired :
            acquired[j].vm \in held' => image'[acquired[j].vm] = engine[acquired[j].variant]
      BY <1>8, <2>1
    <2> QED BY <1>1, <1>8, <2>1, <2>2, <2>3 DEF Owned
  <1>15. ChunkRight'
    <2>1. Untroubled => \A j \in DOMAIN acquired \ running : outputs[j] \in Good(items[base + j])
      BY <1>1 DEF LInv, ChunkRight
    <2>2. ASSUME NEW j \in DOMAIN acquired, acquired[j].vm \notin held'
          PROVE  results'[base + j] = outputs[j]
      <3>1. CASE j = k
        BY <1>11, <3>1
      <3>2. CASE j # k
        <4>1. acquired[j].vm # x
          BY <3>2 DEF LInv, Owned, x
        <4>2. acquired[j].vm \notin held
          BY <1>8, <2>2, <4>1
        <4>3. results[base + j] = outputs[j]
          BY <1>1, <4>2 DEF LInv, ChunkRight
        <4>4. base + j \in 1..Len(items) /\ base + j # base + k
          BY <1>3, <1>4, <3>2
        <4> QED BY <1>11, <4>3, <4>4
      <3> QED BY <3>1, <3>2
    <2> QED BY <1>1, <2>1, <2>2 DEF ChunkRight, Untroubled
  <1>16. Behind'
    <2>1. \A p \in 1..base : p \in 1..Len(items) /\ p # base + k
      BY <1>3, <1>4
    <2>2. \A p \in 1..base : results'[p] = results[p]
      BY <1>11, <2>1
    <2> QED BY <1>1, <2>2 DEF LInv, Behind, Clean, InChunk
  <1> QED BY <1>7, <1>8, <1>12, <1>13, <1>14, <1>15, <1>16 DEF LInv

LEMMA EndChunkStep ==
  ASSUME LInv, EndChunk
  PROVE  LInv'
  <1>1. /\ phase = "run" /\ running = {}
        /\ \A k \in DOMAIN acquired : acquired[k].vm \notin held
        /\ Advance /\ UNCHANGED <<vars, queue, timer, manager, running, results>>
    BY DEF EndChunk
  <1>2. held = {}
    BY <1>1 DEF LInv, Owned
  <1>3. pos = ChunkEnd
    BY <1>1 DEF LInv, Phases
  <1>4. ASSUME Untroubled, NEW p \in base + 1 .. ChunkEnd
        PROVE  results[p] \in Good(items[p])
    <2>1. /\ base \in Nat /\ pos \in Nat
          /\ Len(acquired) \in Nat /\ DOMAIN acquired = 1..Len(acquired)
      BY <1>1, InHand
    <2>2. Len(acquired) = pos - base
      BY <1>1, <1>4 DEF LInv, OneEach
    <2>3. p - base \in DOMAIN acquired /\ base + (p - base) = p
      BY <1>3, <2>1, <2>2
    <2>4. outputs[p - base] \in Good(items[base + (p - base)])
      BY <1>1, <1>4, <2>3 DEF LInv, ChunkRight
    <2>5. results[base + (p - base)] = outputs[p - base]
      BY <1>1, <2>3 DEF LInv, ChunkRight
    <2> QED BY <2>3, <2>4, <2>5
  <1> QED BY <1>1, <1>2, <1>3, <1>4, AdvanceStep

LEMMA ReturnStep ==
  ASSUME BatchAssumption, LInv, Return
  PROVE  LInv'
  <1>1. /\ phase = "done" /\ phase' = "idle" /\ items' = <<>> /\ eff' = 1 /\ base' = 0
        /\ pos' = 0 /\ results' = <<>> /\ failed' = {}
        /\ UNCHANGED <<vars, queue, timer, manager, acquired, running, outputs>>
    BY DEF Return
  <1>2. IInv' /\ IdlePure' /\ UNCHANGED <<held, image, engine>>
    BY <1>1, PoolsRest DEF LInv
  <1>3. acquired = <<>> /\ running = {} /\ outputs = <<>>
    BY <1>1 DEF LInv, Phases
  <1>4. /\ <<>> \in Seq(Item) /\ <<>> \in Seq(Outcome)
        /\ <<>> \in Seq([variant : Variant, vm : VM]) /\ Len(<<>>) = 0 /\ DOMAIN <<>> = {}
    OBVIOUS
  <1>5. held = {}
    BY <1>3, <1>4 DEF LInv, Owned
  <1>6. ChunkEnd' = 0
    BY <1>1, <1>4 DEF ChunkEnd, Least
  <1>7. /\ queue \in Seq(Item) /\ Len(queue) < MaxBatch /\ timer = (queue # <<>>)
        /\ manager \in BOOLEAN /\ eff \in 1..MaxBatch
    BY DEF LInv, LazyTypes, LazyTypeOK
  <1>8. 1 \in 1..MaxBatch
    BY DEF BatchAssumption
  <1>9. base' \in 0..Len(items') /\ pos' \in base'..ChunkEnd'
    BY <1>1, <1>4, <1>6
  <1>10. LazyTypes'
    <2>1. LazyTypeOK'
      BY <1>1, <1>2, <1>3, <1>4, <1>7, <1>9 DEF LazyTypeOK, IInv
    <2> QED BY <1>1, <1>3, <1>4, <1>8, <2>1 DEF LazyTypes
  <1>11. Phases'
    BY <1>1, <1>3, <1>4 DEF Phases
  <1>12. Owned' /\ OneEach' /\ ChunkRight' /\ Aligned' /\ Behind'
    BY <1>1, <1>2, <1>3, <1>4, <1>5 DEF Owned, OneEach, ChunkRight, Aligned, Behind
  <1> QED BY <1>2, <1>10, <1>11, <1>12 DEF LInv

LEMMA LazyStays ==
  ASSUME LInv, UNCHANGED allVars
  PROVE  LInv'
  <1>1. /\ IInv' /\ IdlePure' /\ UNCHANGED <<held, image, engine>>
    BY PoolsRest DEF LInv, allVars
  <1>2. ChunkEnd' = ChunkEnd
    BY DEF ChunkEnd, allVars, lazyVars
  <1>3. /\ queue' = queue /\ timer' = timer /\ manager' = manager /\ phase' = phase
        /\ items' = items /\ eff' = eff /\ base' = base /\ pos' = pos
        /\ acquired' = acquired /\ running' = running /\ outputs' = outputs
        /\ results' = results /\ failed' = failed
    BY DEF allVars, lazyVars
  <1>4. LazyTypes'
    BY <1>1, <1>2, <1>3 DEF LInv, LazyTypes, LazyTypeOK, IInv
  <1>5. Phases' /\ Owned' /\ OneEach'
    BY <1>1, <1>2, <1>3 DEF LInv, Phases, Owned, OneEach, Untroubled
  <1>6. ChunkRight' /\ Aligned' /\ Behind'
    BY <1>1, <1>2, <1>3 DEF LInv, ChunkRight, Untroubled, Aligned, Behind, Clean, InChunk
  <1> QED BY <1>1, <1>4, <1>5, <1>6 DEF LInv

LEMMA LazyStep ==
  ASSUME ItemAssumption, BatchAssumption, LInv, [LazyNext]_allVars
  PROVE  LInv'
  <1>1. ASSUME NEW i \in Item, Push(i) PROVE LInv'
    <2>1. /\ phase = "idle" /\ UNCHANGED vars
          /\ queue \in Seq(Item) /\ manager \in BOOLEAN
      BY <1>1 DEF Push, LInv, LazyTypes, LazyTypeOK
    <2>2. /\ Append(queue, i) \in Seq(Item) /\ Append(queue, i) # <<>>
          /\ Len(Append(queue, i)) = Len(queue) + 1
      BY <2>1
    <2>3. CASE Len(queue) + 1 >= MaxBatch
      <3>1. Drain(Append(queue, i))
        BY <1>1, <2>3 DEF Push
      <3> QED BY <2>1, <2>2, <3>1, DrainStep
    <2>4. CASE ~(Len(queue) + 1 >= MaxBatch)
      <3>1. queue' = Append(queue, i) /\ timer' = TRUE /\ UNCHANGED <<manager, chunkVars>>
        BY <1>1, <2>4 DEF Push
      <3>2. IInv' /\ IdlePure' /\ held' = held
        BY <2>1, PoolsRest DEF LInv
      <3>3. Len(queue') < MaxBatch
        BY <2>1, <2>2, <2>4, <3>1 DEF BatchAssumption
      <3>4. /\ UNCHANGED chunkVars /\ queue' \in Seq(Item) /\ timer' = (queue' # <<>>)
            /\ manager' \in BOOLEAN
        BY <2>1, <2>2, <3>1
      <3> QED BY <2>1, <3>2, <3>3, <3>4, LazyIdles
    <2> QED BY <2>3, <2>4
  <1>2. ASSUME Realize PROVE LInv'
    <2>1. /\ phase = "idle" /\ UNCHANGED vars /\ queue \in Seq(Item) /\ queue # <<>>
          /\ Drain(queue)
      BY <1>2 DEF Realize, LInv, LazyTypes, LazyTypeOK
    <2> QED BY <2>1, DrainStep
  <1>3. ASSUME Clear PROVE LInv'
    <2>1. /\ phase = "idle" /\ UNCHANGED vars /\ queue' = <<>> /\ timer' = FALSE
          /\ UNCHANGED chunkVars /\ manager' = manager
      BY <1>3 DEF Clear
    <2>2. IInv' /\ IdlePure' /\ held' = held
      BY <2>1, PoolsRest DEF LInv
    <2>3. /\ queue' \in Seq(Item) /\ Len(queue') < MaxBatch /\ timer' = (queue' # <<>>)
          /\ manager' \in BOOLEAN
      <3>1. <<>> \in Seq(Item) /\ Len(<<>>) = 0
        OBVIOUS
      <3>2. MaxBatch \in Nat /\ 0 < MaxBatch /\ manager \in BOOLEAN
        BY DEF BatchAssumption, LInv, LazyTypes, LazyTypeOK
      <3>3. Len(queue') < MaxBatch /\ queue' \in Seq(Item) /\ manager' \in BOOLEAN
        BY <2>1, <3>1, <3>2
      <3> QED BY <2>1, <3>3
    <2> QED BY <2>1, <2>2, <2>3, LazyIdles
  <1>4. ASSUME SetPoolManager PROVE LInv'
    <2>1. /\ phase = "idle" /\ UNCHANGED <<queue, timer, chunkVars>> /\ manager' = TRUE
      BY <1>4 DEF SetPoolManager
    <2>2. IInv' /\ IdlePure' /\ held' = held
      BY <1>4, ReplaceKeepsPure DEF LInv
    <2>3. /\ queue' \in Seq(Item) /\ Len(queue') < MaxBatch /\ timer' = (queue' # <<>>)
          /\ manager' \in BOOLEAN /\ UNCHANGED chunkVars
      BY <2>1 DEF LInv, LazyTypes, LazyTypeOK
    <2> QED BY <2>1, <2>2, <2>3, LazyIdles
  <1>5. ASSUME Manage PROVE LInv'
    <2>1. phase = "idle" /\ UNCHANGED lazyVars
      BY <1>5 DEF Manage
    <2>2. IInv' /\ IdlePure' /\ held' = held
      BY <1>5, ManageKeepsPure DEF LInv
    <2>3. /\ queue' \in Seq(Item) /\ Len(queue') < MaxBatch /\ timer' = (queue' # <<>>)
          /\ manager' \in BOOLEAN /\ UNCHANGED chunkVars
      BY <2>1 DEF LInv, LazyTypes, LazyTypeOK, lazyVars, chunkVars
    <2> QED BY <2>1, <2>2, <2>3, LazyIdles
  <1>6. ASSUME RealizeStep PROVE LInv'
    BY <1>6, AcquireNextStep, EndAcquireStep, ReleaseNextStep, EndChunkStep, ReturnStep,
       RunThreadStep DEF RealizeStep
  <1>7. ASSUME UNCHANGED allVars PROVE LInv'
    BY <1>7, LazyStays
  <1> QED BY <1>1, <1>2, <1>3, <1>4, <1>5, <1>6, <1>7 DEF LazyNext

(* What the invariant says of a call of realize() that is over.            *)
LEMMA LazySoundness ==
  ASSUME LInv
  PROVE  EveryVmBack /\ IdlePure /\ InOrderUnlessFailed
  <1>1. EveryVmBack
    BY AtRest DEF EveryVmBack
  <1>2. IdlePure
    BY DEF LInv
  <1>3. InOrderUnlessFailed
    <2> SUFFICES ASSUME phase = "done", NEW p \in DOMAIN items, Clean(p)
                 PROVE  results[p] \in Good(items[p])
      BY DEF InOrderUnlessFailed, Clean, InChunk, Good
    <2>1. base = Len(items) /\ items \in Seq(Item)
      BY DEF LInv, Phases, LazyTypes, LazyTypeOK
    <2>2. p \in 1..base
      BY <2>1
    <2> QED BY <2>2 DEF LInv, Behind
  <1> QED BY <1>1, <1>2, <1>3

LEMMA LazyInvariance == ItemAssumption /\ BatchAssumption /\ LazySpec => []LInv
  <1> SUFFICES ASSUME ItemAssumption, BatchAssumption PROVE LazySpec => []LInv
    OBVIOUS
  <1>1. LazyInit => LInv
    BY LazyStart
  <1>2. LInv /\ [LazyNext]_allVars => LInv'
    BY LazyStep
  <1> QED BY <1>1, <1>2, PTL DEF LazySpec

(* Whatever failed or panicked in a batch, realize() leaves no VM behind.  *)
THEOREM EveryVmComesBack == ItemAssumption /\ BatchAssumption /\ LazySpec => []EveryVmBack
  <1>1. LInv => EveryVmBack
    BY LazySoundness
  <1> QED BY <1>1, LazyInvariance, PTL

(* A pool holds VMs of its own engine only.                                *)
THEOREM PoolsStayPure == ItemAssumption /\ BatchAssumption /\ LazySpec => []IdlePure
  <1>1. LInv => IdlePure
    BY LazySoundness
  <1> QED BY <1>1, LazyInvariance, PTL

(* The result at a place is of the snippet queued there, on a VM of its    *)
(* variant, unless an acquire of its chunk failed.                         *)
THEOREM ResultsInOrder == ItemAssumption /\ BatchAssumption /\ LazySpec => []InOrderUnlessFailed
  <1>1. LInv => InOrderUnlessFailed
    BY LazySoundness
  <1> QED BY <1>1, LazyInvariance, PTL
=============================================================================
