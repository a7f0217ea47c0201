--------------------------- MODULE WebhookProofs ----------------------------
(***************************************************************************)
(* Proofs about the admission of a Pod, for every Pod, every container     *)
(* other plugins inject, and every history of calls, edits of the          *)
(* configuration and failures.                                             *)
(***************************************************************************)
EXTENDS Webhook, FiniteSetTheorems, TLAPS

-----------------------------------------------------------------------------
(* Sequences and numbers.                                                  *)

LEMMA AppendSeq ==
  ASSUME NEW s, s \in Seq(Range(s)), NEW e
  PROVE  /\ Append(s, e) \in Seq(Range(Append(s, e)))
         /\ Len(s) \in Nat /\ Len(Append(s, e)) = Len(s) + 1
         /\ \A i \in 1 .. Len(s) : Append(s, e)[i] = s[i]
         /\ Append(s, e)[Len(s) + 1] = e
         /\ Range(Append(s, e)) = Range(s) \cup {e}
  <1> DEFINE T == Range(s) \cup {e}
  <1>1. s \in Seq(T)
    BY DEF T
  <1> HIDE DEF T
  <1>2. e \in T
    BY DEF T
  <1>3. /\ Append(s, e) \in Seq(T) /\ Len(s) \in Nat /\ Len(Append(s, e)) = Len(s) + 1
        /\ \A i \in 1 .. Len(s) : Append(s, e)[i] = s[i]
        /\ Append(s, e)[Len(s) + 1] = e
        /\ DOMAIN s = 1 .. Len(s) /\ DOMAIN Append(s, e) = 1 .. Len(s) + 1
    BY <1>1, <1>2
  <1>4. \A i \in 1 .. Len(s) + 1 : i \in 1 .. Len(s) \/ i = Len(s) + 1
    BY <1>3
  <1>5. Len(s) + 1 \in 1 .. Len(s) + 1 /\ 1 .. Len(s) \subseteq 1 .. Len(s) + 1
    BY <1>3
  <1>6. Range(Append(s, e)) = T
    BY <1>3, <1>4, <1>5 DEF Range, T
  <1> QED
    BY <1>3, <1>6 DEF T

LEMMA SingletonSeq ==
  ASSUME NEW e
  PROVE  <<e>> \in Seq(Range(<<e>>)) /\ Len(<<e>>) = 1 /\ <<e>>[1] = e /\ Range(<<e>>) = {e}
  <1>1. DOMAIN <<e>> = 1 .. 1 /\ Len(<<e>>) = 1 /\ <<e>>[1] = e /\ <<e>> \in Seq({e})
    OBVIOUS
  <1>2. Range(<<e>>) = {e}
    BY <1>1 DEF Range
  <1> QED
    BY <1>1, <1>2

LEMMA ConcatSeq ==
  ASSUME NEW s, s \in Seq(Range(s)), NEW t, t \in Seq(Range(t))
  PROVE  /\ s \o t \in Seq(Range(s \o t))
         /\ Len(s) \in Nat /\ Len(t) \in Nat /\ Len(s \o t) = Len(s) + Len(t)
         /\ \A i \in 1 .. Len(s) : (s \o t)[i] = s[i]
         /\ \A i \in 1 .. Len(t) : (s \o t)[Len(s) + i] = t[i]
         /\ Range(s \o t) = Range(s) \cup Range(t)
  <1> DEFINE T == Range(s) \cup Range(t)
  <1>1. s \in Seq(T) /\ t \in Seq(T)
    BY DEF T
  <1> HIDE DEF T
  <1>2. /\ s \o t \in Seq(T) /\ Len(s) \in Nat /\ Len(t) \in Nat
        /\ Len(s \o t) = Len(s) + Len(t)
        /\ DOMAIN s = 1 .. Len(s) /\ DOMAIN t = 1 .. Len(t)
        /\ DOMAIN (s \o t) = 1 .. Len(s) + Len(t)
    BY <1>1
  <1>3. \A i \in 1 .. Len(s) + Len(t) :
          (s \o t)[i] = IF i <= Len(s) THEN s[i] ELSE t[i - Len(s)]
    BY <1>1
  <1>4. \A i \in 1 .. Len(s) : i \in 1 .. Len(s) + Len(t) /\ i <= Len(s)
    BY <1>2
  <1>5. \A i \in 1 .. Len(t) :
          Len(s) + i \in 1 .. Len(s) + Len(t) /\ ~(Len(s) + i <= Len(s)) /\ (Len(s) + i) - Len(s) = i
    BY <1>2
  <1>6. \A i \in 1 .. Len(s) + Len(t) :
          i \in 1 .. Len(s) \/ \E j \in 1 .. Len(t) : i = Len(s) + j
    <2> TAKE i \in 1 .. Len(s) + Len(t)
    <2>1. CASE i > Len(s)
      <3>1. i - Len(s) \in 1 .. Len(t) /\ i = Len(s) + (i - Len(s))
        BY <1>2, <2>1
      <3> QED
        BY <3>1
    <2> QED
      BY <1>2, <2>1
  <1>7. /\ \A i \in 1 .. Len(s) : (s \o t)[i] = s[i]
        /\ \A i \in 1 .. Len(t) : (s \o t)[Len(s) + i] = t[i]
    BY <1>3, <1>4, <1>5
  <1>8. Range(s \o t) = T
    <2>1. Range(s \o t) = {(s \o t)[i] : i \in 1 .. Len(s) + Len(t)}
      BY <1>2 DEF Range
    <2>2. Range(s) = {s[i] : i \in 1 .. Len(s)} /\ Range(t) = {t[i] : i \in 1 .. Len(t)}
      BY <1>2 DEF Range
    <2>3. ASSUME NEW i \in 1 .. Len(s) + Len(t) PROVE (s \o t)[i] \in T
      BY <1>6, <1>7, <2>2 DEF T
    <2>4. ASSUME NEW e \in T PROVE \E i \in 1 .. Len(s) + Len(t) : (s \o t)[i] = e
      <3>1. CASE e \in Range(s)
        BY <1>4, <1>7, <2>2, <3>1
      <3>2. CASE e \in Range(t)
        <4>1. PICK i \in 1 .. Len(t) : t[i] = e
          BY <2>2, <3>2
        <4>2. Len(s) + i \in 1 .. Len(s) + Len(t) /\ (s \o t)[Len(s) + i] = e
          BY <1>5, <1>7, <4>1
        <4> QED
          BY <4>2
      <3> QED
        BY <3>1, <3>2 DEF T
    <2> QED
      BY <2>1, <2>3, <2>4
  <1> QED
    BY <1>2, <1>7, <1>8 DEF T

LEMMA FunctionSeq ==
  ASSUME NEW n \in Nat, NEW f, f = [i \in 1 .. n |-> f[i]]
  PROVE  f \in Seq(Range(f)) /\ Len(f) = n
  <1>1. DOMAIN f = 1 .. n /\ \A i \in 1 .. n : f[i] \in Range(f)
    BY DEF Range
  <1>2. f \in [1 .. n -> Range(f)]
    BY <1>1
  <1> QED
    BY <1>1, <1>2

(* Every element of a sequence has an index.                               *)
LEMMA SeqIndex ==
  ASSUME NEW s, s \in Seq(Range(s))
  PROVE  /\ Len(s) \in Nat /\ DOMAIN s = 1 .. Len(s)
         /\ \A i \in 1 .. Len(s) : s[i] \in Range(s)
         /\ \A e \in Range(s) : \E i \in 1 .. Len(s) : s[i] = e
  <1>1. Len(s) \in Nat /\ DOMAIN s = 1 .. Len(s)
    OBVIOUS
  <1> QED
    BY <1>1 DEF Range

LEMMA LeastNat ==
  ASSUME NEW T \in SUBSET Nat, T # {}
  PROVE  \E x \in T : \A y \in T : x <= y
  <1>1. IsWellFoundedOn(OpToRel(<, Nat), Nat)
    BY NatLessThanWellFounded
  <1>2. \E x \in T : \A y \in T : ~(<<y, x>> \in OpToRel(<, Nat))
    BY <1>1, WFMin, Zenon
  <1>3. \A x, y \in Nat : <<y, x>> \in OpToRel(<, Nat) <=> y < x
    BY DEF OpToRel
  <1>4. PICK x \in T : \A y \in T : ~(<<y, x>> \in OpToRel(<, Nat))
    BY <1>2
  <1>5. \A y \in T : ~(y < x)
    BY <1>3, <1>4
  <1> QED
    BY <1>5

(* A finite set of numbers that is not empty has a greatest element.       *)
LEMMA FiniteMax ==
  ASSUME NEW S \in SUBSET Nat, IsFiniteSet(S), S # {}
  PROVE  \E m \in S : \A x \in S : x <= m
  <1> DEFINE HasMax(U) == \E m \in U : \A x \in U : x <= m
             Bad == {U \in SUBSET S : U # {} /\ ~HasMax(U)}
             Sizes == {Cardinality(U) : U \in Bad}
  <1>1. \A U \in SUBSET S : IsFiniteSet(U) /\ Cardinality(U) \in Nat
    BY FS_Subset, FS_CardinalityType
  <1> SUFFICES ASSUME ~HasMax(S) PROVE FALSE
    OBVIOUS
  <1>2. Sizes # {} /\ Sizes \in SUBSET Nat
    BY <1>1
  <1>3. PICK n \in Sizes : \A k \in Sizes : n <= k
    <2> HIDE DEF Sizes
    <2> QED
      BY <1>2, LeastNat
  <1>4. PICK U \in Bad : Cardinality(U) = n
    OBVIOUS
  <1>5. PICK u \in U : TRUE
    OBVIOUS
  <1>6. Cardinality(U \ {u}) = Cardinality(U) - 1 /\ U \ {u} \in SUBSET S
    BY <1>1, FS_RemoveElement
  <1>7. U \ {u} \notin Bad
    <2>1. Cardinality(U) \in Nat /\ Cardinality(U \ {u}) \in Nat
      BY <1>1, <1>6
    <2>2. ~(n <= Cardinality(U \ {u}))
      BY <1>4, <1>6, <2>1
    <2>3. U \ {u} \in Bad => Cardinality(U \ {u}) \in Sizes
      OBVIOUS
    <2> HIDE DEF Bad, Sizes
    <2> QED
      BY <1>3, <2>2, <2>3
  <1>8. CASE U \ {u} = {}
    <2>1. \A x \in U : x = u
      BY <1>8
    <2>2. u \in Nat
      OBVIOUS
    <2> QED
      BY <2>1, <2>2
  <1>9. CASE HasMax(U \ {u})
    <2>1. PICK m \in U \ {u} : \A x \in U \ {u} : x <= m
      BY <1>9
    <2>2. m \in Nat /\ u \in Nat /\ U \subseteq Nat
      OBVIOUS
    <2>3. CASE u <= m
      BY <2>1, <2>2, <2>3
    <2>4. CASE m <= u
      <3>1. \A x \in U : x <= u
        BY <2>1, <2>2, <2>4
      <3> QED
        BY <3>1
    <2> QED
      BY <2>2, <2>3, <2>4
  <1> QED
    BY <1>6, <1>7, <1>8, <1>9

LEMMA MaxType ==
  ASSUME NEW S \in SUBSET Nat, IsFiniteSet(S), S # {}
  PROVE  Max(S) \in S /\ \A x \in S : Max(S) >= x
  <1>1. PICK m \in S : \A x \in S : x <= m
    BY FiniteMax
  <1>2. \A x \in S : m >= x
    BY <1>1
  <1> QED
    BY <1>2 DEF Max


-----------------------------------------------------------------------------
(* The quota.                                                              *)

PoolIDs == {SharedPoolID, ExclusivePoolID, CloudphonePoolID}

(* The sizes getMaxSharedPoolLimit compares.                               *)
SizesOf(n) == {0} \cup {1000 * conf[n] : conf \in {x \in configs : n \in DOMAIN x}}

LEMMA SizesType ==
  ASSUME configs \in ConfigSets, NEW n
  PROVE  SizesOf(n) \in SUBSET Nat /\ IsFiniteSet(SizesOf(n)) /\ SizesOf(n) # {}
  <1> DEFINE having == {x \in configs : n \in DOMAIN x}
             image == {1000 * conf[n] : conf \in having}
             f == [conf \in having |-> 1000 * conf[n]]
  <1>1. \A conf \in having : 1000 * conf[n] \in Nat
    <2> TAKE conf \in having
    <2>1. conf[n] \in Nat
      BY WebhookAssumption
    <2> QED
      BY <2>1
  <1>2. IsFiniteSet(having)
    BY WebhookAssumption, FS_Subset
  <1>3. IsFiniteSet(image)
    <2>1. f \in Surjection(having, image)
      BY DEF Surjection
    <2> HIDE DEF having, image, f
    <2> QED
      BY <1>2, <2>1, FS_Surjection
  <1>4. IsFiniteSet({0} \cup image)
    <2> HIDE DEF image
    <2> QED
      BY <1>3, FS_AddElement
  <1> QED
    BY <1>1, <1>4 DEF SizesOf

LEMMA MaxSharedPoolLimitsType ==
  ASSUME configs \in ConfigSets, NEW c, IsContainer(c), NEW readable
  PROVE  MaxSharedPoolLimits(c, readable) \in SUBSET Nat /\ MaxSharedPoolLimits(c, readable) # {}
  <1>1. CPURequests(c, SharedPoolID) \in Nat
    BY DEF IsContainer
  <1>2. \A n : Max(SizesOf(n)) \in Nat
    BY SizesType, MaxType
  <1> DEFINE names == {r \in DOMAIN c.requests : c.requests[r] = CPURequests(c, SharedPoolID)}
  <1>3. MaxSharedPoolLimits(c, readable) =
          IF ~readable THEN {CPURequests(c, SharedPoolID)}
          ELSE IF names = {} THEN {0} ELSE {Max(SizesOf(n)) : n \in names}
    BY DEF MaxSharedPoolLimits, SizesOf
  <1> HIDE DEF names
  <1> QED
    BY <1>1, <1>2, <1>3

LEMMA TotalCFSLimitsType ==
  ASSUME configs \in ConfigSets, NEW c, IsContainer(c), NEW readable
  PROVE  TotalCFSLimits(c, readable) \in SUBSET Nat /\ TotalCFSLimits(c, readable) # {}
  <1>1. /\ CPURequests(c, SharedPoolID) \in Nat /\ CPURequests(c, ExclusivePoolID) \in Nat
        /\ CPURequests(c, CloudphonePoolID) \in Nat
    BY DEF IsContainer
  <1>2. /\ MaxSharedPoolLimits(c, readable) \in SUBSET Nat
        /\ MaxSharedPoolLimits(c, readable) # {}
    BY MaxSharedPoolLimitsType
  <1> DEFINE ex == CPURequests(c, ExclusivePoolID)
             sh == CPURequests(c, SharedPoolID)
             cl == CPURequests(c, CloudphonePoolID)
             ms == MaxSharedPoolLimits(c, readable)
  <1>3. TotalCFSLimits(c, readable) \in {{1000 * ex + m : m \in ms}, {1000 * ex + 100}, {sh},
                                         {1000 * cl + 100}, {0}}
    BY DEF TotalCFSLimits
  <1> HIDE DEF ex, sh, cl, ms
  <1>4. 1000 * ex + 100 \in Nat /\ 1000 * cl + 100 \in Nat /\ \A m \in Nat : 1000 * ex + m \in Nat
    BY <1>1 DEF ex, cl
  <1>5. {1000 * ex + m : m \in ms} \in SUBSET Nat /\ {1000 * ex + m : m \in ms} # {}
    BY <1>2, <1>4 DEF ms
  <1>6. \A k \in {1000 * ex + 100, sh, 1000 * cl + 100, 0} : {k} \in SUBSET Nat /\ {k} # {}
    BY <1>1, <1>4 DEF sh
  <1> QED
    BY <1>3, <1>5, <1>6

-----------------------------------------------------------------------------
(* What the patches make of a container.                                   *)

Con(n, r, l, q, cmd, a, e, m) ==
  [name |-> n, requests |-> r, limit |-> l, cpuRequest |-> q,
   command |-> cmd, args |-> a, env |-> e, mounts |-> m]

LEMMA ConFields ==
  ASSUME NEW n, NEW r, NEW l, NEW q, NEW cmd, NEW a, NEW e, NEW m,
         NEW c, c = Con(n, r, l, q, cmd, a, e, m)
  PROVE  /\ c.name = n /\ c.requests = r /\ c.limit = l /\ c.cpuRequest = q
         /\ c.command = cmd /\ c.args = a /\ c.env = e /\ c.mounts = m
  BY DEF Con

LEMMA ContainerCon ==
  ASSUME NEW c, IsContainer(c)
  PROVE  c = Con(c.name, c.requests, c.limit, c.cpuRequest, c.command, c.args, c.env, c.mounts)
  BY DEF IsContainer, Con

LEMMA SetCon ==
  ASSUME NEW n, NEW r, NEW l, NEW q, NEW cmd, NEW a, NEW e, NEW m, NEW v,
         NEW c, c = Con(n, r, l, q, cmd, a, e, m)
  PROVE  /\ Set(c, "limit", v) # NoPod => Set(c, "limit", v) = Con(n, r, v, q, cmd, a, e, m)
         /\ Set(c, "cpuRequest", v) # NoPod => Set(c, "cpuRequest", v) = Con(n, r, l, v, cmd, a, e, m)
         /\ Set(c, "command", v) # NoPod => Set(c, "command", v) = Con(n, r, l, q, v, a, e, m)
         /\ Set(c, "args", v) # NoPod => Set(c, "args", v) = Con(n, r, l, q, cmd, v, e, m)
         /\ Set(c, "env", v) # NoPod => Set(c, "env", v) = Con(n, r, l, q, cmd, a, v, m)
  BY DEF Set, Con

LEMMA AddCon ==
  ASSUME NEW n, NEW r, NEW l, NEW q, NEW cmd, NEW a, NEW e, NEW m, NEW v,
         NEW c, c = Con(n, r, l, q, cmd, a, e, m)
  PROVE  /\ Add(c, "env", v) # NoPod => Add(c, "env", v) = Con(n, r, l, q, cmd, a, Append(e, v), m)
         /\ Add(c, "mounts", v) # NoPod =>
              Add(c, "mounts", v) = Con(n, r, l, q, cmd, a, e, Append(m, v))
  BY DEF Add, Con

(* No patch applies to what an earlier patch did not apply to.             *)
LEMMA NoPodStays ==
  /\ \A f, v : Set(NoPod, f, v) = NoPod /\ Add(NoPod, f, v) = NoPod
  /\ \A b, v : PatchEnv(NoPod, b, v) = NoPod
  /\ \A c, b : EntryPointPatches(NoPod, c, b) = NoPod /\ PinningPatches(NoPod, c, b) = NoPod
  /\ \A c, b : PatchContainerEnv(NoPod, c, b) = NoPod
  /\ \A c, b : PatchContainerForPinning(NoPod, c, b) = NoPod
  <1>1. \A f, v : Set(NoPod, f, v) = NoPod /\ Add(NoPod, f, v) = NoPod
    BY DEF Set, Add
  <1>2. \A b, v : PatchEnv(NoPod, b, v) = NoPod
    BY <1>1 DEF PatchEnv
  <1>3. \A c, b : EntryPointPatches(NoPod, c, b) = NoPod
    BY <1>1 DEF EntryPointPatches
  <1>4. \A c, b : PinningPatches(NoPod, c, b) = NoPod
    BY <1>1, <1>2, <1>3 DEF PinningPatches
  <1> QED
    BY <1>1, <1>2, <1>3, <1>4 DEF PatchContainerEnv, PatchContainerForPinning

ThreeMounts(m, c) == Append(Append(Append(m, Podinfo), Hostbin), CpuVolume(c))
MovedArgs(c, annotated) ==
  IF c.command # <<>> /\ ~annotated THEN c.command \o c.args ELSE c.args
EnvWith(append, e, var) == IF append THEN Append(e, var) ELSE <<var>>
NameVar(c) == EnvVar("CONTAINER_NAME", c.name)

LEMMA PatchEnvCon ==
  ASSUME NEW n, NEW r, NEW l, NEW q, NEW cmd, NEW a, NEW e, NEW m, NEW append, NEW var,
         NEW c, c = Con(n, r, l, q, cmd, a, e, m), PatchEnv(c, append, var) # NoPod
  PROVE  PatchEnv(c, append, var) = Con(n, r, l, q, cmd, a, EnvWith(append, e, var), m)
  BY SetCon, AddCon DEF PatchEnv, EnvWith

LEMMA PinningCon ==
  ASSUME NEW n, NEW r, NEW l, NEW q, NEW e, NEW m, NEW c, NEW annotated,
         NEW x, x = Con(n, r, l, q, c.command, c.args, e, m),
         PinningPatches(x, c, annotated) # NoPod
  PROVE  PinningPatches(x, c, annotated) =
           Con(n, r, l, q, Starter, MovedArgs(c, annotated),
               EnvWith(c.env # <<>>, e, NameVar(c)), ThreeMounts(m, c))
  <1> DEFINE y1 == Add(x, "mounts", Podinfo)
             y2 == Add(y1, "mounts", Hostbin)
             y3 == Add(y2, "mounts", CpuVolume(c))
             z == PatchEnv(y3, c.env # <<>>, NameVar(c))
             w == Set(z, "command", Starter)
             v == EntryPointPatches(z, c, annotated)
             E == EnvWith(c.env # <<>>, e, NameVar(c))
             M == ThreeMounts(m, c)
  <1>1. PinningPatches(x, c, annotated) = v
    BY DEF PinningPatches, NameVar
  <1>2. v = IF c.command # <<>> /\ ~annotated THEN Set(w, "args", c.command \o c.args) ELSE w
    BY DEF EntryPointPatches
  <1>3. w # NoPod
    BY <1>1, <1>2, NoPodStays
  <1>4. z # NoPod
    BY <1>3, NoPodStays
  <1>5. y3 # NoPod
    BY <1>4, NoPodStays
  <1>6. y2 # NoPod
    BY <1>5, NoPodStays
  <1>7. y1 # NoPod
    BY <1>6, NoPodStays
  <1> HIDE DEF v, w, z, y1, y2, y3
  <1>8. y1 = Con(n, r, l, q, c.command, c.args, e, Append(m, Podinfo))
    BY <1>7, AddCon DEF y1
  <1>9. y2 = Con(n, r, l, q, c.command, c.args, e, Append(Append(m, Podinfo), Hostbin))
    BY <1>6, <1>8, AddCon DEF y2
  <1>10. y3 = Con(n, r, l, q, c.command, c.args, e, M)
    BY <1>5, <1>9, AddCon DEF y3, ThreeMounts
  <1> HIDE DEF M, E
  <1>11. z = Con(n, r, l, q, c.command, c.args, E, M)
    BY <1>4, <1>10, PatchEnvCon DEF z, E
  <1>12. w = Con(n, r, l, q, Starter, c.args, E, M)
    BY <1>3, <1>11, SetCon DEF w
  <1>13. v = Con(n, r, l, q, Starter, MovedArgs(c, annotated), E, M)
    BY <1>1, <1>2, <1>12, SetCon DEF MovedArgs
  <1> QED
    BY <1>1, <1>13 DEF E, M

(* Whether this call makes the process-starter the entry point, and        *)
(* whether it adds the variable with the pools.                            *)
PinsNow(p, c) == PinningPatchNeeded(p, c) /\ ~Contains(c.mounts, Podinfo)
EnvNow(c) == Managed(c) /\ ~HasVar(c, "CPU_POOLS")

PinnedEnv(p, c) ==
  IF PinsNow(p, c) THEN EnvWith(c.env # <<>>, c.env, NameVar(c)) ELSE c.env
PatchedEnv(p, c) ==
  IF EnvNow(c) THEN EnvWith(PinningPatchNeeded(p, c) \/ c.env # <<>>, PinnedEnv(p, c), PoolsVar(c))
  ELSE PinnedEnv(p, c)

LEMMA PatchEffect ==
  ASSUME NEW p, NEW c, IsContainer(c), NEW limit, PatchContainer(p, c, limit) # NoPod
  PROVE  PatchContainer(p, c, limit) =
           Con(c.name, c.requests,
               IF limit = 0 THEN c.limit ELSE limit, IF limit = 0 THEN c.cpuRequest ELSE 0,
               IF PinsNow(p, c) THEN Starter ELSE c.command,
               IF PinsNow(p, c) THEN MovedArgs(c, ContainerExists(p, c)) ELSE c.args,
               PatchedEnv(p, c),
               IF PinsNow(p, c) THEN ThreeMounts(c.mounts, c) ELSE c.mounts)
  <1> DEFINE L == IF limit = 0 THEN c.limit ELSE limit
             Q == IF limit = 0 THEN c.cpuRequest ELSE 0
             x == PatchCPULimit(c, limit)
             f == PatchContainerForPinning(x, c, ContainerExists(p, c))
             y == IF PinningPatchNeeded(p, c) THEN f ELSE x
             d == PatchContainer(p, c, limit)
             cmd == IF PinsNow(p, c) THEN Starter ELSE c.command
             a == IF PinsNow(p, c) THEN MovedArgs(c, ContainerExists(p, c)) ELSE c.args
             m == IF PinsNow(p, c) THEN ThreeMounts(c.mounts, c) ELSE c.mounts
             e == PinnedEnv(p, c)
  <1>1. d = IF Managed(c) THEN PatchContainerEnv(y, c, PinningPatchNeeded(p, c)) ELSE y
    BY DEF PatchContainer
  <1>2. y # NoPod
    BY <1>1, NoPodStays
  <1>3. x # NoPod
    BY <1>2, NoPodStays
  <1>4. x = Con(c.name, c.requests, L, Q, c.command, c.args, c.env, c.mounts)
    <2>1. CASE limit = 0
      BY <2>1, ContainerCon DEF PatchCPULimit
    <2>2. CASE limit # 0
      <3> DEFINE w == Set(c, "limit", limit)
      <3>1. x = Set(w, "cpuRequest", 0)
        BY <2>2 DEF PatchCPULimit
      <3>2. w # NoPod
        BY <1>3, <3>1, NoPodStays
      <3>3. w = Con(c.name, c.requests, limit, c.cpuRequest, c.command, c.args, c.env, c.mounts)
        BY <3>2, ContainerCon, SetCon
      <3> HIDE DEF w, x
      <3>4. x = Con(c.name, c.requests, limit, 0, c.command, c.args, c.env, c.mounts)
        BY <1>3, <3>1, <3>3, SetCon
      <3> QED
        BY <2>2, <3>4
    <2> QED
      BY <2>1, <2>2
  <1> HIDE DEF x, L, Q
  <1>5. y = Con(c.name, c.requests, L, Q, cmd, a, e, m)
    <2>1. CASE PinsNow(p, c)
      <3>1. y = PinningPatches(x, c, ContainerExists(p, c))
        BY <2>1 DEF PinsNow, PatchContainerForPinning
      <3> HIDE DEF y
      <3>2. y = Con(c.name, c.requests, L, Q, Starter, MovedArgs(c, ContainerExists(p, c)),
                    EnvWith(c.env # <<>>, c.env, NameVar(c)), ThreeMounts(c.mounts, c))
        BY <1>2, <1>4, <3>1, PinningCon
      <3> QED
        BY <2>1, <3>2 DEF PinnedEnv
    <2>2. CASE ~PinsNow(p, c)
      <3>1. y = x
        BY <2>2 DEF PinsNow, PatchContainerForPinning
      <3> QED
        BY <1>4, <2>2, <3>1 DEF PinnedEnv
    <2> QED
      BY <2>1, <2>2
  <1> HIDE DEF y, cmd, a, e, m
  <1>6. d = Con(c.name, c.requests, L, Q, cmd, a, PatchedEnv(p, c), m)
    <2>1. CASE EnvNow(c)
      <3> DEFINE B == PinningPatchNeeded(p, c) \/ c.env # <<>>
      <3>1. d = PatchEnv(y, B, PoolsVar(c))
        BY <1>1, <2>1 DEF EnvNow, PatchContainerEnv
      <3>2. PatchedEnv(p, c) = EnvWith(B, e, PoolsVar(c))
        BY <2>1 DEF PatchedEnv, e
      <3> HIDE DEF d, B
      <3>3. d = Con(c.name, c.requests, L, Q, cmd, a, EnvWith(B, e, PoolsVar(c)), m)
        BY <1>5, <3>1, PatchEnvCon DEF d
      <3> QED
        BY <3>2, <3>3
    <2>2. CASE ~EnvNow(c)
      <3>1. d = y
        BY <1>1, <2>2 DEF EnvNow, PatchContainerEnv
      <3>2. PatchedEnv(p, c) = e
        BY <2>2 DEF PatchedEnv, e
      <3> QED
        BY <1>5, <3>1, <3>2
    <2> QED
      BY <2>1, <2>2
  <1> QED
    BY <1>6 DEF L, Q, cmd, a, m

-----------------------------------------------------------------------------
(* The variables of a container.                                           *)

Free(e, name) == \A k \in 1 .. Len(e) : e[k].name # name
OnceIn(e, var) ==
  \E k \in 1 .. Len(e) : e[k] = var /\ \A j \in 1 .. Len(e) : e[j].name = var.name => j = k

LEMMA AppendVar ==
  ASSUME NEW e, e \in Seq(Range(e)), NEW var
  PROVE  LET x == Append(e, var)
         IN  /\ x \in Seq(Range(x)) /\ x # <<>> /\ Range(e) \subseteq Range(x)
             /\ Free(e, var.name) => OnceIn(x, var)
             /\ \A w : w.name # var.name /\ OnceIn(e, w) => OnceIn(x, w)
             /\ \A n : n # var.name /\ Free(e, n) => Free(x, n)
  <1> DEFINE x == Append(e, var)
  <1>1. /\ x \in Seq(Range(x)) /\ Len(e) \in Nat /\ Len(x) = Len(e) + 1
        /\ \A i \in 1 .. Len(e) : x[i] = e[i]
        /\ x[Len(e) + 1] = var
        /\ Range(x) = Range(e) \cup {var}
    BY AppendSeq
  <1>2. x # <<>>
    <2>1. Len(x) > 0
      BY <1>1
    <2>2. Len(<<>>) = 0
      OBVIOUS
    <2> HIDE DEF x
    <2> QED
      BY <2>1, <2>2
  <1> HIDE DEF x
  <1>3. \A i \in 1 .. Len(x) : i \in 1 .. Len(e) \/ i = Len(e) + 1
    BY <1>1
  <1>4. \A i \in 1 .. Len(e) : i \in 1 .. Len(x) /\ i # Len(e) + 1
    BY <1>1
  <1>5. Len(e) + 1 \in 1 .. Len(x)
    BY <1>1
  <1>6. Free(e, var.name) => OnceIn(x, var)
    BY <1>1, <1>3, <1>5 DEF Free, OnceIn
  <1>7. ASSUME NEW w, w.name # var.name, OnceIn(e, w) PROVE OnceIn(x, w)
    <2>1. PICK k \in 1 .. Len(e) :
            e[k] = w /\ \A j \in 1 .. Len(e) : e[j].name = w.name => j = k
      BY <1>7 DEF OnceIn
    <2>2. x[k] = w /\ k \in 1 .. Len(x)
      BY <1>1, <1>4, <2>1
    <2>3. \A j \in 1 .. Len(x) : x[j].name = w.name => j = k
      BY <1>1, <1>3, <1>7, <2>1
    <2> QED
      BY <2>2, <2>3 DEF OnceIn
  <1>8. \A n : n # var.name /\ Free(e, n) => Free(x, n)
    BY <1>1, <1>3 DEF Free
  <1>9. Range(e) \subseteq Range(x)
    BY <1>1
  <1> QED
    BY <1>1, <1>2, <1>6, <1>7, <1>8, <1>9 DEF x

LEMMA EnvWithOnce ==
  ASSUME NEW e, e \in Seq(Range(e)), NEW append, NEW var, append \/ e = <<>>
  PROVE  LET x == EnvWith(append, e, var)
         IN  /\ x \in Seq(Range(x)) /\ x # <<>> /\ Range(e) \subseteq Range(x)
             /\ Free(e, var.name) => OnceIn(x, var)
             /\ \A w : w.name # var.name /\ OnceIn(e, w) => OnceIn(x, w)
             /\ \A n : n # var.name /\ Free(e, n) => Free(x, n)
  <1>1. EnvWith(append, e, var) = Append(e, var)
    <2>1. CASE append
      BY <2>1 DEF EnvWith
    <2>2. CASE ~append
      <3>1. <<var>> = Append(<<>>, var)
        OBVIOUS
      <3> QED
        BY <2>2, <3>1 DEF EnvWith
    <2> QED
      BY <2>1, <2>2
  <1> QED
    BY <1>1, AppendVar

-----------------------------------------------------------------------------
(* The types.                                                              *)

LEMMA StringsSeq ==
  ASSUME NEW T, NEW s \in Seq(T)
  PROVE  s \in Seq(Range(s)) /\ Range(s) \subseteq T
  <1>1. DOMAIN s = 1 .. Len(s) /\ Len(s) \in Nat /\ \A i \in 1 .. Len(s) : s[i] \in T
    OBVIOUS
  <1>2. Range(s) \subseteq T
    BY <1>1 DEF Range
  <1>3. s \in [1 .. Len(s) -> Range(s)]
    BY <1>1 DEF Range
  <1> QED
    BY <1>1, <1>2, <1>3

LEMMA EnvWithSeq ==
  ASSUME NEW e, e \in Seq(Range(e)), NEW append, NEW var
  PROVE  EnvWith(append, e, var) \in Seq(Range(EnvWith(append, e, var)))
  <1>1. CASE append
    BY <1>1, AppendSeq DEF EnvWith
  <1>2. CASE ~append
    BY <1>2, SingletonSeq DEF EnvWith
  <1> QED
    BY <1>1, <1>2

LEMMA PatchedEnvSeq ==
  ASSUME NEW p, NEW c, IsContainer(c)
  PROVE  PatchedEnv(p, c) \in Seq(Range(PatchedEnv(p, c)))
  <1>1. c.env \in Seq(Range(c.env))
    BY DEF IsContainer, IsSequence
  <1>2. PinnedEnv(p, c) \in Seq(Range(PinnedEnv(p, c)))
    BY <1>1, EnvWithSeq DEF PinnedEnv
  <1> QED
    BY <1>2, EnvWithSeq DEF PatchedEnv

LEMMA IsContainerCon ==
  ASSUME NEW c, IsContainer(c), NEW l \in Nat, NEW q \in Nat, NEW cmd, NEW a, NEW e, NEW m,
         IsSequence(cmd), IsSequence(a), IsSequence(e), IsSequence(m),
         NEW d, d = Con(c.name, c.requests, l, q, cmd, a, e, m)
  PROVE  IsContainer(d)
  <1>1. /\ d.name = c.name /\ d.requests = c.requests /\ d.limit = l /\ d.cpuRequest = q
        /\ d.command = cmd /\ d.args = a /\ d.env = e /\ d.mounts = m
    BY ConFields
  <1>2. d = [name |-> d.name, requests |-> d.requests, limit |-> d.limit,
             cpuRequest |-> d.cpuRequest, command |-> d.command, args |-> d.args,
             env |-> d.env, mounts |-> d.mounts]
    BY <1>1 DEF Con
  <1>3. \A kind \in PoolIDs : CPURequests(d, kind) \in Nat
    BY <1>1 DEF IsContainer, CPURequests, PoolIDs
  <1> QED
    BY <1>1, <1>2, <1>3 DEF IsContainer, PoolIDs

LEMMA PatchedContainer ==
  ASSUME NEW p, NEW c, IsContainer(c), NEW limit \in Nat, PatchContainer(p, c, limit) # NoPod
  PROVE  IsContainer(PatchContainer(p, c, limit))
  <1> DEFINE l == IF limit = 0 THEN c.limit ELSE limit
             q == IF limit = 0 THEN c.cpuRequest ELSE 0
             cmd == IF PinsNow(p, c) THEN Starter ELSE c.command
             a == IF PinsNow(p, c) THEN MovedArgs(c, ContainerExists(p, c)) ELSE c.args
             m == IF PinsNow(p, c) THEN ThreeMounts(c.mounts, c) ELSE c.mounts
             e == PatchedEnv(p, c)
             d == PatchContainer(p, c, limit)
  <1>1. d = Con(c.name, c.requests, l, q, cmd, a, e, m)
    BY PatchEffect, Zenon
  <1>2. l \in Nat /\ q \in Nat
    BY DEF IsContainer
  <1>3. \A s \in {c.command, c.args, c.env, c.mounts} : IsSequence(s)
    BY DEF IsContainer
  <1>4. IsSequence(cmd)
    <2>1. IsSequence(Starter)
      BY SingletonSeq DEF Starter, IsSequence
    <2> QED
      BY <1>3, <2>1
  <1>5. IsSequence(a)
    BY <1>3, ConcatSeq DEF MovedArgs, IsSequence
  <1>6. IsSequence(e)
    BY PatchedEnvSeq DEF IsSequence
  <1>7. IsSequence(m)
    BY <1>3, AppendSeq DEF ThreeMounts, IsSequence
  <1> HIDE DEF l, q, cmd, a, m, e, d
  <1>8. IsContainer(d)
    BY <1>1, <1>2, <1>4, <1>5, <1>6, <1>7, IsContainerCon
  <1> QED
    BY <1>8 DEF d

LEMMA PodSeqs ==
  ASSUME NEW p, IsPod(p)
  PROVE  /\ Len(p.containers) \in Nat /\ Indices(p) = DOMAIN p.containers
         /\ \A i \in Indices(p) : p.containers[i] \in Containers(p) /\ IsContainer(p.containers[i])
         /\ \A c \in Containers(p) : IsContainer(c) /\ \E i \in Indices(p) : p.containers[i] = c
  <1>1. p.containers \in Seq(Range(p.containers))
    BY DEF IsPod, IsSequence
  <1>2. /\ Len(p.containers) \in Nat /\ DOMAIN p.containers = 1 .. Len(p.containers)
        /\ \A i \in 1 .. Len(p.containers) : p.containers[i] \in Range(p.containers)
        /\ \A e \in Range(p.containers) : \E i \in 1 .. Len(p.containers) : p.containers[i] = e
    BY <1>1, SeqIndex
  <1> QED
    BY <1>2 DEF IsPod, Indices, Containers

PodRec(n, cs, vs, an, ps) ==
  [name |-> n, containers |-> cs, volumes |-> vs, annotated |-> an, processes |-> ps]

LEMMA IsPodRec ==
  ASSUME NEW n, NEW cs, NEW vs, NEW an, NEW ps, NEW d, d = PodRec(n, cs, vs, an, ps),
         cs \in Seq(Range(cs)), vs \in Seq(Range(vs)), \A c \in Range(cs) : IsContainer(c)
  PROVE  /\ IsPod(d) /\ d.name = n /\ d.containers = cs /\ d.volumes = vs
         /\ d.annotated = an /\ d.processes = ps
  <1>1. /\ d.name = n /\ d.containers = cs /\ d.volumes = vs
        /\ d.annotated = an /\ d.processes = ps
    BY DEF PodRec
  <1>2. d = [name |-> d.name, containers |-> d.containers, volumes |-> d.volumes,
             annotated |-> d.annotated, processes |-> d.processes]
    BY <1>1 DEF PodRec
  <1> QED
    BY <1>1, <1>2 DEF IsPod, IsSequence

(* What the patches make of a Pod.                                         *)
PatchedVolumes(p) == IF Pinned(p) # {} THEN PatchVolumesForPinning(p) ELSE p.volumes

LEMMA PatchedPodEffect ==
  ASSUME NEW p, IsPod(p), NEW limits, \A i \in Indices(p) : limits[i] \in Nat,
         NEW d, d = PatchedPod(p, limits), d # NoPod
  PROVE  /\ IsPod(d) /\ d.name = p.name /\ d.annotated = p.annotated
         /\ d.processes = p.processes /\ d.volumes = PatchedVolumes(p)
         /\ Len(d.containers) = Len(p.containers) /\ Indices(d) = Indices(p)
         /\ \A i \in Indices(p) : /\ d.containers[i] = PatchContainer(p, p.containers[i], limits[i])
                                   /\ d.containers[i] # NoPod
         /\ d.volumes # NoPod
  <1> DEFINE cs == [i \in Indices(p) |-> PatchContainer(p, p.containers[i], limits[i])]
             vs == PatchedVolumes(p)
  <1>1. vs # NoPod /\ \A i \in Indices(p) : cs[i] # NoPod
    BY DEF PatchedPod, PatchedVolumes
  <1>2. d = [p EXCEPT !.containers = cs, !.volumes = vs]
    BY DEF PatchedPod, PatchedVolumes
  <1>3. p = PodRec(p.name, p.containers, p.volumes, p.annotated, p.processes)
    BY DEF IsPod, PodRec
  <1>4. d = PodRec(p.name, cs, vs, p.annotated, p.processes)
    <2> HIDE DEF cs, vs
    <2> QED
      BY <1>2, <1>3 DEF PodRec
  <1>5. cs \in Seq(Range(cs)) /\ Len(cs) = Len(p.containers)
    <2>1. cs = [i \in 1 .. Len(p.containers) |-> cs[i]]
      BY DEF Indices
    <2>2. Len(p.containers) \in Nat
      BY PodSeqs
    <2> HIDE DEF cs
    <2> QED
      BY <2>1, <2>2, FunctionSeq
  <1>6. \A i \in Indices(p) : IsContainer(cs[i])
    <2> TAKE i \in Indices(p)
    <2>1. IsContainer(p.containers[i]) /\ limits[i] \in Nat
      BY PodSeqs
    <2>2. PatchContainer(p, p.containers[i], limits[i]) # NoPod
      BY <1>1
    <2> QED
      BY <2>1, <2>2, PatchedContainer
  <1>7. \A c \in Range(cs) : IsContainer(c)
    BY <1>6 DEF Range
  <1>8. vs \in Seq(Range(vs))
    <2>1. p.volumes \in Seq(Range(p.volumes))
      BY DEF IsPod, IsSequence
    <2>2. CASE vs = p.volumes
      BY <2>1, <2>2
    <2>3. CASE vs # p.volumes
      <3> DEFINE u == <<Volume(Podinfo, <<>>), Volume(Hostbin, <<>>)>>
                 f == [i \in Indices(p) |->
                         Volume(CpuVolume(p.containers[i]), CpuDir(p, p.containers[i]))]
      <3>1. vs = p.volumes \o (u \o f)
        BY <1>1, <2>3 DEF PatchedVolumes, PatchVolumesForPinning, PinningVolumes
      <3>2. u \in Seq(Range(u))
        <4> DEFINE A == Volume(Podinfo, <<>>)
                   B == Volume(Hostbin, <<>>)
        <4>1. <<A, B>> \in Seq({A, B})
          OBVIOUS
        <4> HIDE DEF A, B
        <4>2. <<A, B>> \in Seq(Range(<<A, B>>))
          BY <4>1, StringsSeq
        <4> QED
          BY <4>2 DEF A, B
      <3>3. f \in Seq(Range(f))
        <4>1. f = [i \in 1 .. Len(p.containers) |-> f[i]]
          BY DEF Indices
        <4>2. Len(p.containers) \in Nat
          BY PodSeqs
        <4> HIDE DEF f
        <4> QED
          BY <4>1, <4>2, FunctionSeq
      <3> HIDE DEF u, f, vs
      <3>4. u \o f \in Seq(Range(u \o f))
        BY <3>2, <3>3, ConcatSeq
      <3>5. p.volumes \o (u \o f) \in Seq(Range(p.volumes \o (u \o f)))
        BY <2>1, <3>4, ConcatSeq
      <3> QED
        BY <3>1, <3>5
    <2> QED
      BY <2>2, <2>3
  <1> HIDE DEF cs, vs
  <1>9. /\ IsPod(d) /\ d.name = p.name /\ d.containers = cs /\ d.volumes = vs
        /\ d.annotated = p.annotated /\ d.processes = p.processes
    BY <1>4, <1>5, <1>7, <1>8, IsPodRec
  <1>10. Indices(d) = Indices(p)
    BY <1>5, <1>9 DEF Indices
  <1> QED
    BY <1>1, <1>5, <1>9, <1>10 DEF vs, cs

(* What mutatePods answers with, if it does not deny the Pod.              *)
LEMMA MutatePodsEffect ==
  ASSUME NEW p, NEW readable, NEW d \in MutatePods(p, readable)
  PROVE  /\ RequestsReadable(p) /\ Marshals(p)
         /\ p.annotated => ValidateAnnotation(p) /\ Pinned(p) # {}
         /\ \E limits : /\ \A i \in Indices(p) : limits[i] \in TotalCFSLimits(p.containers[i], readable)
                        /\ d = PatchedPod(p, limits)
  BY DEF MutatePods

LEMMA MutatedPod ==
  ASSUME configs \in ConfigSets, NEW p, IsPod(p), NEW readable,
         NEW d \in MutatePods(p, readable), d # NoPod
  PROVE  \E limits :
           /\ \A i \in Indices(p) : /\ limits[i] \in TotalCFSLimits(p.containers[i], readable)
                                     /\ limits[i] \in Nat
           /\ d = PatchedPod(p, limits)
  <1>1. PICK limits : /\ \A i \in Indices(p) : limits[i] \in TotalCFSLimits(p.containers[i], readable)
                      /\ d = PatchedPod(p, limits)
    BY MutatePodsEffect
  <1>2. \A i \in Indices(p) : limits[i] \in Nat
    BY <1>1, PodSeqs, TotalCFSLimitsType
  <1> QED
    BY <1>1, <1>2

(* A container with a variable of some other plugin.                       *)
WithOther(c) ==
  Con(c.name, c.requests, c.limit, c.cpuRequest, c.command, c.args,
      Append(c.env, EnvVar("OTHER", <<>>)), c.mounts)

LEMMA WithOtherContainer ==
  ASSUME NEW c, IsContainer(c)
  PROVE  IsContainer(WithOther(c))
  <1>1. \A s \in {c.command, c.args, c.env, c.mounts} : IsSequence(s)
    BY DEF IsContainer
  <1>2. IsSequence(Append(c.env, EnvVar("OTHER", <<>>)))
    BY <1>1, AppendSeq DEF IsSequence
  <1>3. c.limit \in Nat /\ c.cpuRequest \in Nat
    BY DEF IsContainer
  <1> DEFINE e == Append(c.env, EnvVar("OTHER", <<>>))
             d == WithOther(c)
  <1>4. d = Con(c.name, c.requests, c.limit, c.cpuRequest, c.command, c.args, e, c.mounts)
    BY DEF WithOther
  <1> HIDE DEF e, d
  <1>5. IsContainer(d)
    BY <1>1, <1>2, <1>3, <1>4, IsContainerCon DEF e
  <1> QED
    BY <1>5 DEF d

(* The Pod with other containers.                                          *)
Holding(p, cs) == PodRec(p.name, cs, p.volumes, p.annotated, p.processes)

LEMMA HoldingPod ==
  ASSUME NEW p, IsPod(p), NEW cs, IsSequence(cs), \A c \in Range(cs) : IsContainer(c),
         NEW d, d = Holding(p, cs)
  PROVE  /\ IsPod(d) /\ d.name = p.name /\ d.containers = cs /\ d.volumes = p.volumes
         /\ d.annotated = p.annotated /\ d.processes = p.processes
  <1>1. p.volumes \in Seq(Range(p.volumes)) /\ cs \in Seq(Range(cs))
    BY DEF IsPod, IsSequence
  <1>2. d = PodRec(p.name, cs, p.volumes, p.annotated, p.processes)
    BY DEF Holding
  <1> QED
    BY <1>1, <1>2, IsPodRec

LEMMA HoldingExcept ==
  ASSUME NEW p, IsPod(p), NEW cs
  PROVE  [p EXCEPT !.containers = cs] = Holding(p, cs)
  <1>1. p = PodRec(p.name, p.containers, p.volumes, p.annotated, p.processes)
    BY DEF IsPod, PodRec
  <1> QED
    BY <1>1 DEF Holding, PodRec

(* The containers other plugins leave: one has a further variable, or one  *)
(* is injected before or after the others.                                 *)
OneChanged(cs, i) == [cs EXCEPT ![i] = WithOther(cs[i])]

LEMMA OtherPluginsEffect ==
  ASSUME IsPod(pod), OtherPlugins
  PROVE  \/ \E i \in Indices(pod) : pod' = Holding(pod, OneChanged(pod.containers, i))
         \/ \E c \in Sidecars : \/ pod' = Holding(pod, <<c>> \o pod.containers)
                                \/ pod' = Holding(pod, Append(pod.containers, c))
  <1>1. CASE \E i \in Indices(pod) :
               pod' = [pod EXCEPT !.containers[i].env = Append(@, EnvVar("OTHER", <<>>))]
    <2>1. PICK i \in Indices(pod) :
            pod' = [pod EXCEPT !.containers[i].env = Append(@, EnvVar("OTHER", <<>>))]
      BY <1>1
    <2> DEFINE c == pod.containers[i]
               e == Append(c.env, EnvVar("OTHER", <<>>))
               cs == [pod.containers EXCEPT ![i] = [c EXCEPT !.env = e]]
    <2>2. pod' = [pod EXCEPT !.containers = cs]
      BY <2>1
    <2>3. [c EXCEPT !.env = e] = WithOther(c)
      <3>1. c = Con(c.name, c.requests, c.limit, c.cpuRequest, c.command, c.args, c.env, c.mounts)
        BY PodSeqs, ContainerCon
      <3> HIDE DEF c
      <3> QED
        BY <3>1 DEF WithOther, Con
    <2>4. cs = OneChanged(pod.containers, i)
      BY <2>3 DEF OneChanged
    <2> HIDE DEF cs
    <2>5. pod' = Holding(pod, cs)
      BY <2>2, HoldingExcept
    <2> QED
      BY <2>4, <2>5
  <1>2. CASE \E c \in Sidecars : pod' = [pod EXCEPT !.containers = <<c>> \o @]
    BY <1>2, HoldingExcept
  <1>3. CASE \E c \in Sidecars : pod' = [pod EXCEPT !.containers = Append(@, c)]
    BY <1>3, HoldingExcept
  <1> QED
    BY <1>1, <1>2, <1>3 DEF OtherPlugins

LEMMA OtherPluginsPod ==
  ASSUME IsPod(pod), OtherPlugins
  PROVE  /\ IsPod(pod') /\ pod'.name = pod.name /\ pod'.volumes = pod.volumes
         /\ pod'.annotated = pod.annotated /\ pod'.processes = pod.processes
         /\ \A c \in Containers(pod') : \/ c \in Sidecars \/ c \in Containers(pod)
                                        \/ \E b \in Containers(pod) : c = WithOther(b)
  <1>1. pod.containers \in Seq(Range(pod.containers)) /\ \A c \in Range(pod.containers) : IsContainer(c)
    BY DEF IsPod, IsSequence
  <1>2. \A c \in Sidecars : IsContainer(c)
    BY WebhookAssumption
  <1> DEFINE cs == pod.containers
             Fine(xs) == /\ IsSequence(xs)
                         /\ \A c \in Range(xs) : \/ c \in Sidecars \/ c \in Range(cs)
                                                  \/ \E b \in Range(cs) : c = WithOther(b)
  <1>3. ASSUME NEW xs, Fine(xs), pod' = Holding(pod, xs) PROVE
          /\ IsPod(pod') /\ pod'.name = pod.name /\ pod'.volumes = pod.volumes
          /\ pod'.annotated = pod.annotated /\ pod'.processes = pod.processes
          /\ \A c \in Containers(pod') : \/ c \in Sidecars \/ c \in Containers(pod)
                                         \/ \E b \in Containers(pod) : c = WithOther(b)
    <2>1. \A c \in Range(xs) : IsContainer(c)
      BY <1>1, <1>2, <1>3, WithOtherContainer
    <2>2. /\ IsPod(pod') /\ pod'.name = pod.name /\ pod'.containers = xs
          /\ pod'.volumes = pod.volumes
          /\ pod'.annotated = pod.annotated /\ pod'.processes = pod.processes
      BY <1>3, <2>1, HoldingPod
    <2> QED
      BY <1>3, <2>2 DEF Containers
  <1>4. ASSUME NEW i \in Indices(pod) PROVE Fine(OneChanged(cs, i))
    <2> DEFINE xs == OneChanged(cs, i)
    <2>1. Len(cs) \in Nat /\ DOMAIN cs = 1 .. Len(cs) /\ i \in 1 .. Len(cs)
      BY <1>1, SeqIndex DEF Indices
    <2>2. xs = [j \in 1 .. Len(cs) |-> IF j = i THEN WithOther(cs[i]) ELSE cs[j]]
      BY <2>1, <1>1 DEF OneChanged
    <2>3. xs = [j \in 1 .. Len(cs) |-> xs[j]]
      BY <2>2
    <2>4. \A c \in Range(xs) : c \in Range(cs) \/ \E b \in Range(cs) : c = WithOther(b)
      <3>1. \A j \in 1 .. Len(cs) : cs[j] \in Range(cs)
        BY <2>1 DEF Range
      <3>2. DOMAIN xs = 1 .. Len(cs)
        BY <2>2
      <3>3. \A j \in 1 .. Len(cs) : xs[j] = WithOther(cs[i]) \/ xs[j] = cs[j]
        BY <2>2
      <3> HIDE DEF xs
      <3> QED
        BY <2>1, <3>1, <3>2, <3>3 DEF Range
    <2> HIDE DEF xs
    <2>5. IsSequence(xs)
      BY <2>1, <2>3, FunctionSeq DEF IsSequence
    <2> QED
      BY <2>4, <2>5 DEF xs
  <1>5. ASSUME NEW c \in Sidecars PROVE Fine(<<c>> \o cs) /\ Fine(Append(cs, c))
    <2>1. IsSequence(Append(cs, c)) /\ Range(Append(cs, c)) = Range(cs) \cup {c}
      BY <1>1, AppendSeq DEF IsSequence
    <2>2. <<c>> \in Seq(Range(<<c>>)) /\ Range(<<c>>) = {c}
      BY SingletonSeq
    <2>3. IsSequence(<<c>> \o cs) /\ Range(<<c>> \o cs) = {c} \cup Range(cs)
      <3> DEFINE s == <<c>>
      <3> HIDE DEF s, cs
      <3>1. s \in Seq(Range(s)) /\ Range(s) = {c} /\ cs \in Seq(Range(cs))
        BY <1>1, <2>2 DEF s, cs
      <3>2. s \o cs \in Seq(Range(s \o cs)) /\ Range(s \o cs) = Range(s) \cup Range(cs)
        BY <3>1, ConcatSeq
      <3> QED
        BY <3>1, <3>2 DEF s, IsSequence
    <2> QED
      BY <2>1, <2>3
  <1> HIDE DEF Fine, cs
  <1> QED
    BY <1>3, <1>4, <1>5, OtherPluginsEffect DEF cs

-----------------------------------------------------------------------------
(* Type correctness.                                                       *)

(* The Pod under review and the stored Pod come from what a user wrote.    *)
PodsTyped ==
  /\ phase = "idle" => pod = NoPod
  /\ phase # "idle" => submitted \in Templates /\ IsPod(pod)
  /\ phase = "call" => calls \in 0 .. 1
  /\ stored # NoPod => submitted \in Templates /\ IsPod(stored)

FlagsTyped ==
  /\ quotas \in {QuotaAll, QuotaShared} /\ configs \in ConfigSets /\ up \in BOOLEAN
  /\ phase \in {"idle", "call", "mutated"} /\ op \in {"CREATE", "UPDATE"} /\ calls \in 0 .. 2
  /\ submitted \in Templates \cup {NoPod}
  /\ refused \in {"no", "denied", "unpatched", "down", "changed"}
  /\ edits \in 0 .. MaxEdits /\ faults \in 0 .. MaxFaults

TInv == FlagsTyped /\ PodsTyped

LEMMA TInvTypes == TInv => TypeOK
  <1> SUFFICES ASSUME TInv PROVE TypeOK
    OBVIOUS
  <1>1. ASSUME NEW p \in {pod, stored} \ {NoPod} PROVE IsPod(p)
    BY DEF TInv, PodsTyped, FlagsTyped
  <1>2. ASSUME NEW p \in {pod, stored} \ {NoPod}, NEW i \in Indices(p)
        PROVE  p.containers[i].limit \in Nat /\ p.containers[i].cpuRequest \in Nat
    BY <1>1, PodSeqs DEF IsContainer
  <1> QED
    BY <1>2 DEF TInv, FlagsTyped, TypeOK

LEMMA TInvInit == Init => TInv
  BY WebhookAssumption DEF Init, TInv, FlagsTyped, PodsTyped

(* A Pod keeps its type when it gets its name.                             *)
Named(p) == IF p.name = "" THEN [p EXCEPT !.name = "generated"] ELSE p

LEMMA NamedPod ==
  ASSUME NEW p, IsPod(p)
  PROVE  /\ IsPod(Named(p)) /\ Named(p).containers = p.containers
         /\ Named(p).volumes = p.volumes /\ Named(p).annotated = p.annotated
         /\ Named(p).processes = p.processes
         /\ p.name # "" => Named(p).name = p.name
  <1>1. CASE p.name = ""
    <2>1. p = PodRec(p.name, p.containers, p.volumes, p.annotated, p.processes)
      BY DEF IsPod, PodRec
    <2> DEFINE d == Named(p)
    <2>2. d = PodRec("generated", p.containers, p.volumes, p.annotated, p.processes)
      BY <1>1, <2>1 DEF Named, PodRec
    <2> HIDE DEF d
    <2>3. /\ IsPod(d) /\ d.containers = p.containers /\ d.volumes = p.volumes
          /\ d.annotated = p.annotated /\ d.processes = p.processes
      BY <2>2, IsPodRec DEF IsPod, IsSequence
    <2> QED
      BY <1>1, <2>3 DEF d
  <1>2. CASE p.name # ""
    BY <1>2 DEF Named
  <1> QED
    BY <1>1, <1>2

LEMMA ServePod ==
  ASSUME TInv, NEW readable \in BOOLEAN, ServeMutatePod(readable)
  PROVE  \/ phase' = "idle" /\ pod' = NoPod
         \/ /\ phase' = "mutated" /\ pod' # NoPod /\ IsPod(pod')
            /\ pod' \in MutatePods(pod, readable) /\ refused' = refused
  <1>1. CASE phase' = "idle" /\ pod' = NoPod
    BY <1>1
  <1>2. CASE ~(phase' = "idle" /\ pod' = NoPod)
    <2>1. PICK d \in MutatePods(pod, readable) :
            d # NoPod /\ phase' = "mutated" /\ pod' = d /\ refused' = refused
      BY <1>2 DEF ServeMutatePod, Refuse
    <2>2. IsPod(pod) /\ configs \in ConfigSets
      BY DEF TInv, PodsTyped, FlagsTyped, ServeMutatePod
    <2>3. PICK limits : /\ \A i \in Indices(pod) : limits[i] \in Nat
                        /\ d = PatchedPod(pod, limits)
      BY <2>1, <2>2, MutatedPod
    <2>4. IsPod(d)
      BY <2>1, <2>2, <2>3, PatchedPodEffect
    <2> QED
      BY <2>1, <2>4
  <1> QED
    BY <1>1, <1>2

LEMMA TInvNext == TInv /\ [Next]_vars => TInv'
  <1> SUFFICES ASSUME TInv, [Next]_vars PROVE TInv'
    OBVIOUS
  <1> USE DEF TInv
  <1>1. CASE UNCHANGED vars
    BY <1>1 DEF vars, FlagsTyped, PodsTyped
  <1>2. ASSUME NEW p \in Templates, Create(p) PROVE TInv'
    BY <1>2, WebhookAssumption DEF Create, FlagsTyped, PodsTyped
  <1>3. CASE Update
    BY <1>3 DEF Update, FlagsTyped, PodsTyped
  <1>4. ASSUME NEW readable \in BOOLEAN, ServeMutatePod(readable) PROVE TInv'
    <2>1. \/ phase' = "idle" /\ pod' = NoPod
          \/ phase' = "mutated" /\ IsPod(pod') /\ refused' = refused
      BY <1>4, ServePod
    <2>2. refused' \in {"no", "denied", "unpatched", "down", "changed"}
      BY <1>4 DEF ServeMutatePod, Refuse, FlagsTyped
    <2>3. calls' \in 0 .. 2
      BY <1>4 DEF ServeMutatePod, PodsTyped
    <2>4. faults' \in 0 .. MaxFaults
      BY <1>4, WebhookAssumption DEF ServeMutatePod, FlagsTyped
    <2>5. FlagsTyped'
      BY <1>4, <2>1, <2>2, <2>3, <2>4 DEF ServeMutatePod, FlagsTyped
    <2>6. PodsTyped'
      BY <1>4, <2>1 DEF ServeMutatePod, PodsTyped
    <2> QED
      BY <2>5, <2>6
  <1>5. CASE CallFails
    BY <1>5 DEF CallFails, Refuse, FlagsTyped, PodsTyped
  <1>6. CASE OtherPlugins
    <2>1. IsPod(pod')
      BY <1>6, OtherPluginsPod DEF OtherPlugins, PodsTyped
    <2>2. phase' = "call" /\ phase = "mutated" /\ calls = 1
          /\ UNCHANGED <<quotas, configs, up, op, calls, submitted, stored, refused, edits, faults>>
      BY <1>6 DEF OtherPlugins
    <2> QED
      BY <2>1, <2>2 DEF FlagsTyped, PodsTyped
  <1>7. CASE Persist
    <2>1. phase' = "idle" /\ pod' = NoPod
      BY <1>7 DEF Persist, Refuse
    <2>2. stored' = stored \/ stored' = Named(pod)
      BY <1>7 DEF Persist, Named
    <2>3. submitted \in Templates /\ IsPod(pod)
      BY <1>7 DEF Persist, PodsTyped
    <2>4. stored' # NoPod => submitted \in Templates /\ IsPod(stored')
      BY <2>2, <2>3, NamedPod DEF PodsTyped
    <2>5. FlagsTyped'
      BY <1>7, <2>1 DEF Persist, Refuse, FlagsTyped
    <2>6. PodsTyped'
      BY <1>7, <2>1, <2>4 DEF Persist, PodsTyped
    <2> QED
      BY <2>5, <2>6
  <1>8. CASE WebhookDown
    <2>1. faults' \in 0 .. MaxFaults
      BY <1>8, WebhookAssumption DEF WebhookDown, FlagsTyped
    <2> QED
      BY <1>8, <2>1 DEF WebhookDown, FlagsTyped, PodsTyped
  <1>9. CASE WebhookUp
    BY <1>9 DEF WebhookUp, FlagsTyped, PodsTyped
  <1>10. CASE EditConfigs
    <2>1. edits' \in 0 .. MaxEdits
      BY <1>10, WebhookAssumption DEF EditConfigs, FlagsTyped
    <2> QED
      BY <1>10, <2>1 DEF EditConfigs, FlagsTyped, PodsTyped
  <1> QED
    BY <1>1, <1>2, <1>3, <1>4, <1>5, <1>6, <1>7, <1>8, <1>9, <1>10 DEF Next

(* The webhook answers with a Pod whose quotas and requests are numbers,   *)
(* and an update is refused for one of the known reasons (mutatePods).     *)
THEOREM TypeCorrect == Spec => []TypeOK
  <1>1. Spec => []TInv
    BY TInvInit, TInvNext, PTL DEF Spec
  <1> QED
    BY <1>1, TInvTypes, PTL

-----------------------------------------------------------------------------
(* A container the webhook is done with: what it was made from is o.       *)

Needs(o) == PinningPatchNeeded(submitted, o)

DoneEntry(o, c) ==
  IF Needs(o)
  THEN /\ c.command = Starter /\ c.args = MovedArgs(o, ContainerExists(submitted, o))
       /\ c.mounts = ThreeMounts(o.mounts, o)
  ELSE c.command = o.command /\ c.args = o.args /\ c.mounts = o.mounts

DoneEnv(o, c) ==
  /\ Needs(o) => OnceIn(c.env, NameVar(o))
  /\ Managed(o) => OnceIn(c.env, PoolsVar(o))
  /\ Range(o.env) \subseteq Range(c.env)

Done(o, c) == c.name = o.name /\ c.requests = o.requests /\ DoneEntry(o, c) /\ DoneEnv(o, c)

(* A container that uses none of the webhook's names.                      *)
Reserved(o) ==
  /\ IsContainer(o)
  /\ Range(o.mounts) \cap {Podinfo, Hostbin, CpuVolume(o)} = {}
  /\ Free(o.env, "CONTAINER_NAME") /\ Free(o.env, "CPU_POOLS")

LEMMA SameRequests ==
  ASSUME NEW o, NEW c, c.requests = o.requests
  PROVE  /\ \A kind : CPURequests(c, kind) = CPURequests(o, kind)
         /\ Managed(c) = Managed(o) /\ PoolsVar(c) = PoolsVar(o)
         /\ \A readable : TotalCFSLimits(c, readable) = TotalCFSLimits(o, readable)
  <1>1. \A kind : CPURequests(c, kind) = CPURequests(o, kind)
    BY DEF CPURequests
  <1>2. Managed(c) = Managed(o)
    BY <1>1 DEF Managed
  <1>3. PoolsVar(c) = PoolsVar(o)
    BY <1>1 DEF PoolsVar, CPUPools
  <1>4. \A readable : MaxSharedPoolLimits(c, readable) = MaxSharedPoolLimits(o, readable)
    BY <1>1 DEF MaxSharedPoolLimits
  <1>5. \A readable : TotalCFSLimits(c, readable) = TotalCFSLimits(o, readable)
    BY <1>1, <1>4 DEF TotalCFSLimits
  <1> QED
    BY <1>1, <1>2, <1>3, <1>5

(* Pinning is needed for a container as long as it is for its origin.      *)
LEMMA NeedsStays ==
  ASSUME NEW p, p.processes = submitted.processes, NEW o, NEW c, Done(o, c)
  PROVE  /\ PinningPatchNeeded(p, c) <=> Needs(o)
         /\ ContainerExists(p, c) <=> ContainerExists(submitted, o)
  <1>1. \A kind : CPURequests(c, kind) = CPURequests(o, kind)
    BY SameRequests DEF Done
  <1>2. ContainerExists(p, c) <=> ContainerExists(submitted, o)
    BY DEF ContainerExists, Done
  <1>3. CASE Needs(o)
    <2>1. c.command # <<>>
      <3>1. Starter # <<>>
        <4>1. Len(<<"process-starter">>) = 1 /\ Len(<<>>) = 0
          OBVIOUS
        <4>2. <<"process-starter">> # <<>>
          BY <4>1
        <4> QED
          BY <4>2 DEF Starter
      <3> QED
        BY <1>3, <3>1 DEF Done, DoneEntry
    <2> QED
      BY <1>1, <1>2, <1>3, <2>1 DEF Needs, PinningPatchNeeded
  <1>4. CASE ~Needs(o)
    BY <1>1, <1>2, <1>4 DEF Needs, PinningPatchNeeded, Done, DoneEntry
  <1> QED
    BY <1>2, <1>3, <1>4

LEMMA ThreeMountsOf ==
  ASSUME NEW m, IsSequence(m), NEW o
  PROVE  /\ IsSequence(ThreeMounts(m, o))
         /\ Range(ThreeMounts(m, o)) = Range(m) \cup {Podinfo, Hostbin, CpuVolume(o)}
         /\ Contains(ThreeMounts(m, o), Podinfo)
  <1> DEFINE m1 == Append(m, Podinfo)
             m2 == Append(m1, Hostbin)
             m3 == Append(m2, CpuVolume(o))
  <1>1. m1 \in Seq(Range(m1)) /\ Range(m1) = Range(m) \cup {Podinfo}
    BY AppendSeq DEF IsSequence
  <1> HIDE DEF m1
  <1>2. m2 \in Seq(Range(m2)) /\ Range(m2) = Range(m1) \cup {Hostbin}
    BY <1>1, AppendSeq
  <1> HIDE DEF m2
  <1>3. m3 \in Seq(Range(m3)) /\ Range(m3) = Range(m2) \cup {CpuVolume(o)}
    BY <1>2, AppendSeq
  <1> HIDE DEF m3
  <1>4. ThreeMounts(m, o) = m3
    BY DEF ThreeMounts, m1, m2, m3
  <1>5. \E i \in 1 .. Len(m3) : m3[i] = Podinfo
    BY <1>1, <1>2, <1>3, SeqIndex
  <1> QED
    BY <1>1, <1>2, <1>3, <1>4, <1>5 DEF IsSequence, Contains

(* A call changes nothing but the quota of such a container.               *)
LEMMA DoneUntouched ==
  ASSUME NEW p, p.processes = submitted.processes, NEW o, IsContainer(o),
         NEW c, IsContainer(c), Done(o, c)
  PROVE  /\ ~PinsNow(p, c) /\ ~EnvNow(c) /\ PatchedEnv(p, c) = c.env
  <1>1. ~PinsNow(p, c)
    <2>1. CASE Needs(o)
      <3>1. Contains(c.mounts, Podinfo)
        BY <2>1, ThreeMountsOf DEF Done, DoneEntry, IsContainer
      <3> QED
        BY <3>1 DEF PinsNow
    <2>2. CASE ~Needs(o)
      BY <2>2, NeedsStays DEF PinsNow
    <2> QED
      BY <2>1, <2>2
  <1>2. ~EnvNow(c)
    <2>1. Managed(c) = Managed(o)
      BY SameRequests DEF Done
    <2>2. Managed(o) => HasVar(c, "CPU_POOLS")
      <3>1. PoolsVar(o).name = "CPU_POOLS"
        BY DEF PoolsVar, EnvVar
      <3> QED
        BY <3>1 DEF Done, DoneEnv, OnceIn, HasVar
    <2> QED
      BY <2>1, <2>2 DEF EnvNow
  <1> QED
    BY <1>1, <1>2 DEF PatchedEnv, PinnedEnv

LEMMA DoneStays ==
  ASSUME NEW p, p.processes = submitted.processes, NEW o, IsContainer(o),
         NEW c, IsContainer(c), Done(o, c), NEW limit, NEW d,
         d = PatchContainer(p, c, limit), d # NoPod
  PROVE  /\ d = Con(c.name, c.requests,
                    IF limit = 0 THEN c.limit ELSE limit, IF limit = 0 THEN c.cpuRequest ELSE 0,
                    c.command, c.args, c.env, c.mounts)
         /\ Done(o, d)
  <1>1. /\ ~PinsNow(p, c) /\ ~EnvNow(c) /\ PatchedEnv(p, c) = c.env
    BY DoneUntouched
  <1> DEFINE l == IF limit = 0 THEN c.limit ELSE limit
             q == IF limit = 0 THEN c.cpuRequest ELSE 0
  <1>2. d = Con(c.name, c.requests, l, q,
                IF PinsNow(p, c) THEN Starter ELSE c.command,
                IF PinsNow(p, c) THEN MovedArgs(c, ContainerExists(p, c)) ELSE c.args,
                PatchedEnv(p, c),
                IF PinsNow(p, c) THEN ThreeMounts(c.mounts, c) ELSE c.mounts)
    BY PatchEffect, Zenon
  <1> HIDE DEF l, q
  <1>3. d = Con(c.name, c.requests, l, q, c.command, c.args, c.env, c.mounts)
    BY <1>1, <1>2
  <1>4. /\ d.name = c.name /\ d.requests = c.requests /\ d.command = c.command
        /\ d.args = c.args /\ d.env = c.env /\ d.mounts = c.mounts
    BY <1>3, ConFields
  <1>5. Done(o, d)
    BY <1>4 DEF Done, DoneEntry, DoneEnv
  <1> QED
    BY <1>3, <1>5 DEF l, q

(* The call that sees a container first does all it needs.                 *)
LEMMA FirstCall ==
  ASSUME NEW p, p.processes = submitted.processes, NEW o, Reserved(o), NEW limit, NEW d,
         d = PatchContainer(p, o, limit), d # NoPod
  PROVE  Done(o, d)
  <1>1. IsContainer(o) /\ IsSequence(o.env) /\ IsSequence(o.mounts)
    BY DEF Reserved, IsContainer
  <1>2. PinningPatchNeeded(p, o) <=> Needs(o)
    BY DEF PinningPatchNeeded, Needs, ContainerExists
  <1>3. PinsNow(p, o) <=> Needs(o)
    <2>1. ~Contains(o.mounts, Podinfo)
      <3>1. \A i \in 1 .. Len(o.mounts) : o.mounts[i] \in Range(o.mounts)
        BY <1>1, SeqIndex DEF IsSequence
      <3> QED
        BY <3>1 DEF Reserved, Contains
    <2> QED
      BY <1>2, <2>1 DEF PinsNow
  <1>4. EnvNow(o) <=> Managed(o)
    BY DEF EnvNow, HasVar, Reserved, Free
  <1> DEFINE l == IF limit = 0 THEN o.limit ELSE limit
             q == IF limit = 0 THEN o.cpuRequest ELSE 0
             cmd == IF PinsNow(p, o) THEN Starter ELSE o.command
             a == IF PinsNow(p, o) THEN MovedArgs(o, ContainerExists(p, o)) ELSE o.args
             m == IF PinsNow(p, o) THEN ThreeMounts(o.mounts, o) ELSE o.mounts
  <1>5. d = Con(o.name, o.requests, l, q, cmd, a, PatchedEnv(p, o), m)
    BY <1>1, PatchEffect, Zenon
  <1> HIDE DEF l, q
  <1>6. /\ d.name = o.name /\ d.requests = o.requests /\ d.command = cmd
        /\ d.args = a /\ d.env = PatchedEnv(p, o) /\ d.mounts = m
    <2> HIDE DEF cmd, a, m
    <2> QED
      BY <1>5, ConFields
  <1>7. DoneEntry(o, d)
    <2>1. ContainerExists(p, o) <=> ContainerExists(submitted, o)
      BY DEF ContainerExists
    <2> QED
      BY <1>3, <1>6, <2>1 DEF DoneEntry, MovedArgs
  <1>8. DoneEnv(o, d)
    <2> DEFINE e1 == PinnedEnv(p, o)
    <2>1. /\ e1 \in Seq(Range(e1)) /\ Range(o.env) \subseteq Range(e1) /\ Free(e1, "CPU_POOLS")
          /\ Needs(o) => OnceIn(e1, NameVar(o)) /\ e1 # <<>>
          /\ ~Needs(o) => e1 = o.env
      <3>1. CASE Needs(o)
        <4> DEFINE b == o.env # <<>>
                   v == NameVar(o)
        <4>1. e1 = EnvWith(b, o.env, v)
          BY <1>3, <3>1 DEF PinnedEnv
        <4>2. v.name = "CONTAINER_NAME" /\ "CPU_POOLS" # "CONTAINER_NAME"
          BY DEF NameVar, EnvVar
        <4>3. b \/ o.env = <<>>
          OBVIOUS
        <4> HIDE DEF b, v, e1
        <4>4. /\ e1 \in Seq(Range(e1)) /\ e1 # <<>> /\ Range(o.env) \subseteq Range(e1)
              /\ Free(o.env, v.name) => OnceIn(e1, v)
              /\ \A n : n # v.name /\ Free(o.env, n) => Free(e1, n)
          BY <1>1, <4>1, <4>3, EnvWithOnce DEF IsSequence
        <4> QED
          BY <3>1, <4>2, <4>4 DEF Reserved, v
      <3>2. CASE ~Needs(o)
        BY <1>1, <1>3, <3>2 DEF PinnedEnv, IsSequence, Reserved
      <3> QED
        BY <3>1, <3>2
    <2>2. CASE Managed(o)
      <3> DEFINE b == PinningPatchNeeded(p, o) \/ o.env # <<>>
                 v == PoolsVar(o)
                 e == PatchedEnv(p, o)
      <3>1. e = EnvWith(b, e1, v)
        BY <1>4, <2>2 DEF PatchedEnv
      <3>2. v.name = "CPU_POOLS" /\ NameVar(o).name = "CONTAINER_NAME"
            /\ "CPU_POOLS" # "CONTAINER_NAME"
        BY DEF NameVar, PoolsVar, EnvVar
      <3>3. b \/ e1 = <<>>
        BY <1>2, <2>1
      <3> HIDE DEF b, v, e, e1
      <3>4. /\ Range(e1) \subseteq Range(e)
            /\ Free(e1, v.name) => OnceIn(e, v)
            /\ \A w : w.name # v.name /\ OnceIn(e1, w) => OnceIn(e, w)
        BY <2>1, <3>1, <3>3, EnvWithOnce
      <3>5. d.env = e
        BY <1>6 DEF e
      <3> QED
        BY <2>1, <3>2, <3>4, <3>5 DEF DoneEnv, v
    <2>3. CASE ~Managed(o)
      <3>1. d.env = e1
        BY <1>4, <1>6, <2>3 DEF PatchedEnv
      <3> QED
        BY <2>1, <2>3, <3>1 DEF DoneEnv
    <2> QED
      BY <2>2, <2>3
  <1> QED
    BY <1>6, <1>7, <1>8 DEF Done

(* Neither does a further variable disturb it.                             *)
LEMMA OtherDone ==
  ASSUME NEW o, NEW c, IsContainer(c), Done(o, c)
  PROVE  Done(o, WithOther(c))
  <1> DEFINE v == EnvVar("OTHER", <<>>)
             e == Append(c.env, v)
             d == WithOther(c)
  <1>1. d = Con(c.name, c.requests, c.limit, c.cpuRequest, c.command, c.args, e, c.mounts)
    BY DEF WithOther
  <1>2. /\ v.name = "OTHER" /\ "OTHER" # "CONTAINER_NAME" /\ "OTHER" # "CPU_POOLS"
        /\ NameVar(o).name = "CONTAINER_NAME" /\ PoolsVar(o).name = "CPU_POOLS"
    BY DEF EnvVar, NameVar, PoolsVar
  <1> HIDE DEF v
  <1>3. /\ Range(c.env) \subseteq Range(e)
        /\ \A w : w.name # v.name /\ OnceIn(c.env, w) => OnceIn(e, w)
    BY AppendVar DEF IsContainer, IsSequence
  <1> HIDE DEF d, e
  <1>4. /\ d.name = c.name /\ d.requests = c.requests /\ d.command = c.command
        /\ d.args = c.args /\ d.env = e /\ d.mounts = c.mounts
    BY <1>1, ConFields
  <1>5. Done(o, d)
    BY <1>2, <1>3, <1>4 DEF Done, DoneEntry, DoneEnv
  <1> QED
    BY <1>5 DEF d

-----------------------------------------------------------------------------
(* The inductive invariant: before a call a container is as it came or the *)
(* webhook is done with it, after a call and in the stored Pod it is done  *)
(* with all of them; the volumes are the user's or name the directory of   *)
(* the Pod.                                                                *)

Origins == Containers(submitted) \cup Sidecars
SeenIn(p) == \A c \in Containers(p) : \E o \in Origins : c = o \/ Done(o, c)
DoneIn(p) == \A c \in Containers(p) : c # NoPod /\ \E o \in Origins : Done(o, c)
OwnVolumes(p) ==
  \A v \in Range(p.volumes) : \/ v \in Range(submitted.volumes) \/ v.name \in {Podinfo, Hostbin}
                               \/ v.dir = <<submitted.name, v.name[2]>>
MountsFound(p) ==
  \A c \in Containers(p) : \A m \in Range(c.mounts) : \E v \in Range(p.volumes) : v.name = m
Unchanged(p) == p.processes = submitted.processes /\ p.annotated = submitted.annotated

ReviewedOK ==
  phase # "idle" =>
    /\ Unchanged(pod)
    /\ phase = "call" => SeenIn(pod)
    /\ phase = "mutated" => DoneIn(pod)
    /\ op = "CREATE" => pod.name = submitted.name /\ OwnVolumes(pod)
    /\ op = "UPDATE" /\ phase = "call" => pod = stored
StoredOK ==
  stored # NoPod =>
    /\ Unchanged(stored) /\ DoneIn(stored) /\ OwnVolumes(stored) /\ MountsFound(stored)
    /\ submitted.name # "" => stored.name = submitted.name

IInv == TInv /\ ReviewedOK /\ StoredOK

LEMMA OriginFacts ==
  ASSUME UniqueNames, NamesReserved, submitted \in Templates
  PROVE  /\ \A o \in Origins : Reserved(o)
         /\ \A o \in Origins : \A v \in Range(submitted.volumes) :
              v.name \notin {Podinfo, Hostbin, CpuVolume(o)}
         /\ \A o, u \in Origins : o.name = u.name => o = u
  <1>1. IsPod(submitted) /\ \A c \in Sidecars : IsContainer(c)
    BY WebhookAssumption
  <1>2. \A o \in Origins : IsContainer(o)
    BY <1>1, PodSeqs DEF Origins
  <1>3. \A o \in Origins : Reserved(o)
    BY <1>2 DEF NamesReserved, Reserved, Origins, HasVar, Free
  <1>4. \A o \in Origins : \A v \in Range(submitted.volumes) :
          v.name \notin {Podinfo, Hostbin, CpuVolume(o)}
    BY DEF NamesReserved, Origins
  <1>5. \A o, u \in Containers(submitted) : o.name = u.name => o = u
    <2> SUFFICES ASSUME NEW o \in Containers(submitted), NEW u \in Containers(submitted),
                        o.name = u.name
                 PROVE  o = u
      OBVIOUS
    <2>1. PICK i \in Indices(submitted) : submitted.containers[i] = o
      BY <1>1, PodSeqs
    <2>2. PICK j \in Indices(submitted) : submitted.containers[j] = u
      BY <1>1, PodSeqs
    <2>3. i = j
      BY <2>1, <2>2 DEF UniqueNames
    <2> QED
      BY <2>1, <2>2, <2>3
  <1>6. \A o, u \in Origins : o.name = u.name => o = u
    BY <1>5 DEF UniqueNames, Origins
  <1> QED
    BY <1>3, <1>4, <1>6

LEMMA OriginOf ==
  ASSUME UniqueNames, NamesReserved, submitted \in Templates,
         NEW c, NEW o \in Origins, c.name = o.name
  PROVE  Origin(c) = o
  BY OriginFacts DEF Origin, Origins

(* The volumes the webhook adds.                                           *)
LEMMA PinningVolumesOf ==
  ASSUME NEW p, IsPod(p)
  PROVE  /\ IsSequence(PinningVolumes(p))
         /\ \A v \in Range(PinningVolumes(p)) :
              \/ v.name \in {Podinfo, Hostbin}
              \/ \E c \in Containers(p) : v = Volume(CpuVolume(c), CpuDir(p, c))
         /\ \A c \in Containers(p) : Volume(CpuVolume(c), CpuDir(p, c)) \in Range(PinningVolumes(p))
         /\ {Volume(Podinfo, <<>>), Volume(Hostbin, <<>>)} \subseteq Range(PinningVolumes(p))
  <1> DEFINE A == Volume(Podinfo, <<>>)
             B == Volume(Hostbin, <<>>)
             u == <<A, B>>
             f == [i \in Indices(p) |-> Volume(CpuVolume(p.containers[i]), CpuDir(p, p.containers[i]))]
  <1>1. PinningVolumes(p) = u \o f
    BY DEF PinningVolumes
  <1>2. A.name = Podinfo /\ B.name = Hostbin
    BY DEF Volume
  <1>3. u \in Seq(Range(u)) /\ Range(u) = {A, B}
    <2> HIDE DEF A, B
    <2>1. u \in Seq({A, B}) /\ DOMAIN u = 1 .. 2 /\ u[1] = A /\ u[2] = B
      OBVIOUS
    <2> HIDE DEF u
    <2>2. \A i \in 1 .. 2 : i = 1 \/ i = 2
      OBVIOUS
    <2>3. 1 \in 1 .. 2 /\ 2 \in 1 .. 2
      OBVIOUS
    <2>4. Range(u) = {A, B}
      BY <2>1, <2>2, <2>3 DEF Range
    <2> QED
      BY <2>1, <2>4
  <1>4. f \in Seq(Range(f))
    <2>1. f = [i \in 1 .. Len(p.containers) |-> f[i]]
      BY DEF Indices
    <2>2. Len(p.containers) \in Nat
      BY PodSeqs
    <2> HIDE DEF f
    <2> QED
      BY <2>1, <2>2, FunctionSeq
  <1>5. \A v \in Range(f) : \E c \in Containers(p) : v = Volume(CpuVolume(c), CpuDir(p, c))
    BY PodSeqs DEF Range
  <1>6. \A c \in Containers(p) : Volume(CpuVolume(c), CpuDir(p, c)) \in Range(f)
    BY PodSeqs DEF Range
  <1> HIDE DEF u, f, A, B
  <1>7. u \o f \in Seq(Range(u \o f)) /\ Range(u \o f) = Range(u) \cup Range(f)
    BY <1>3, <1>4, ConcatSeq
  <1> QED
    BY <1>1, <1>2, <1>3, <1>5, <1>6, <1>7 DEF IsSequence, A, B

LEMMA PatchedVolumesOf ==
  ASSUME NEW p, IsPod(p), PatchedVolumes(p) # NoPod
  PROVE  \/ PatchedVolumes(p) = p.volumes
         \/ /\ PatchedVolumes(p) = p.volumes \o PinningVolumes(p)
            /\ Range(PatchedVolumes(p)) = Range(p.volumes) \cup Range(PinningVolumes(p))
            /\ \A v \in Range(p.volumes) : v.name \notin {Hostbin, Podinfo}
  <1>1. p.volumes \in Seq(Range(p.volumes))
    BY DEF IsPod, IsSequence
  <1>2. PinningVolumes(p) \in Seq(Range(PinningVolumes(p)))
    BY PinningVolumesOf DEF IsSequence
  <1>3. CASE PatchedVolumes(p) # p.volumes
    <2>1. /\ PatchedVolumes(p) = p.volumes \o PinningVolumes(p)
          /\ \A k \in 1 .. Len(p.volumes) : p.volumes[k].name \notin {Hostbin, Podinfo}
      BY <1>3 DEF PatchedVolumes, PatchVolumesForPinning
    <2>2. \A v \in Range(p.volumes) : v.name \notin {Hostbin, Podinfo}
      BY <1>1, <2>1, SeqIndex
    <2>3. Range(p.volumes \o PinningVolumes(p)) = Range(p.volumes) \cup Range(PinningVolumes(p))
      BY <1>1, <1>2, ConcatSeq
    <2> QED
      BY <2>1, <2>2, <2>3
  <1> QED
    BY <1>3

(* All of this only depends on the Pod the user wrote.                     *)
LEMMA SameSubmitted ==
  ASSUME submitted' = submitted
  PROVE  /\ SeenIn(pod)' <=> \A c \in Containers(pod') : \E o \in Origins : c = o \/ Done(o, c)
         /\ DoneIn(pod)' <=> \A c \in Containers(pod') : c # NoPod /\ \E o \in Origins : Done(o, c)
         /\ DoneIn(stored)' <=> \A c \in Containers(stored') : c # NoPod /\ \E o \in Origins : Done(o, c)
         /\ OwnVolumes(pod)' <=> OwnVolumes(pod')
         /\ OwnVolumes(stored)' <=> OwnVolumes(stored')
         /\ MountsFound(stored)' <=> MountsFound(stored')
         /\ Unchanged(pod)' <=> Unchanged(pod')
         /\ Unchanged(stored)' <=> Unchanged(stored')
  <1>1. Origins' = Origins
    BY DEF Origins
  <1>2. \A o : Needs(o)' <=> Needs(o)
    BY DEF Needs
  <1>3. \A o, c : Done(o, c)' <=> Done(o, c)
    BY <1>2 DEF Done, DoneEntry, DoneEnv
  <1> QED
    BY <1>1, <1>3 DEF SeenIn, DoneIn, OwnVolumes, MountsFound, Unchanged

(* A call of the webhook, container by container.                          *)
LEMMA ServeAt ==
  ASSUME UniqueNames, NamesReserved, submitted \in Templates, configs \in ConfigSets,
         NEW p, IsPod(p), Unchanged(p), SeenIn(p), NEW readable,
         NEW d \in MutatePods(p, readable), d # NoPod
  PROVE  /\ IsPod(d) /\ Indices(d) = Indices(p) /\ d.volumes # NoPod
         /\ \A i \in Indices(p) :
              /\ \E o \in Origins : (p.containers[i] = o \/ Done(o, p.containers[i]))
                                    /\ Done(o, d.containers[i])
              /\ \E limit \in TotalCFSLimits(p.containers[i], readable) :
                   d.containers[i] = PatchContainer(p, p.containers[i], limit)
              /\ d.containers[i] # NoPod
  <1>1. PICK limits : /\ \A i \in Indices(p) : /\ limits[i] \in TotalCFSLimits(p.containers[i], readable)
                                                /\ limits[i] \in Nat
                      /\ d = PatchedPod(p, limits)
    BY MutatedPod
  <1>2. /\ IsPod(d) /\ Indices(d) = Indices(p)
        /\ \A i \in Indices(p) : /\ d.containers[i] = PatchContainer(p, p.containers[i], limits[i])
                                  /\ d.containers[i] # NoPod
        /\ d.volumes # NoPod
    BY <1>1, PatchedPodEffect
  <1>3. p.processes = submitted.processes
    BY DEF Unchanged
  <1>4. ASSUME NEW i \in Indices(p)
        PROVE  \E o \in Origins : (p.containers[i] = o \/ Done(o, p.containers[i]))
                                  /\ Done(o, d.containers[i])
    <2> DEFINE c == p.containers[i]
               x == d.containers[i]
    <2>1. x = PatchContainer(p, c, limits[i]) /\ x # NoPod
      BY <1>2
    <2>2. c \in Containers(p) /\ IsContainer(c)
      BY PodSeqs
    <2>3. PICK o \in Origins : c = o \/ Done(o, c)
      BY <2>2 DEF SeenIn
    <2>4. Reserved(o) /\ IsContainer(o)
      BY OriginFacts DEF Reserved
    <2> HIDE DEF c, x
    <2>5. CASE c = o
      BY <1>3, <2>1, <2>4, <2>5, FirstCall DEF x, c
    <2>6. CASE Done(o, c)
      BY <1>3, <2>1, <2>2, <2>4, <2>6, DoneStays DEF x, c
    <2> QED
      BY <2>3, <2>5, <2>6
  <1> QED
    BY <1>1, <1>2, <1>4

LEMMA ServeDone ==
  ASSUME UniqueNames, NamesReserved, submitted \in Templates, configs \in ConfigSets,
         NEW p, IsPod(p), Unchanged(p), SeenIn(p), NEW readable,
         NEW d \in MutatePods(p, readable), d # NoPod
  PROVE  /\ DoneIn(d) /\ Unchanged(d) /\ d.name = p.name /\ d.volumes = PatchedVolumes(p)
         /\ p.name = submitted.name /\ OwnVolumes(p) => OwnVolumes(d)
  <1>1. PICK limits : /\ \A i \in Indices(p) : limits[i] \in Nat
                      /\ d = PatchedPod(p, limits)
    BY MutatedPod
  <1>2. /\ IsPod(d) /\ d.name = p.name /\ d.annotated = p.annotated
        /\ d.processes = p.processes /\ d.volumes = PatchedVolumes(p)
        /\ Indices(d) = Indices(p)
        /\ \A i \in Indices(p) : /\ d.containers[i] = PatchContainer(p, p.containers[i], limits[i])
                                  /\ d.containers[i] # NoPod
        /\ d.volumes # NoPod
    BY <1>1, PatchedPodEffect
  <1>3. \A i \in Indices(p) : \E o \in Origins : Done(o, d.containers[i])
    BY ServeAt
  <1>4. DoneIn(d)
    <2>1. \A c \in Containers(d) : \E i \in Indices(p) : d.containers[i] = c
      BY <1>2, PodSeqs
    <2> QED
      BY <1>2, <1>3, <2>1 DEF DoneIn
  <1>5. Unchanged(d)
    BY <1>2 DEF Unchanged
  <1>6. ASSUME p.name = submitted.name, OwnVolumes(p) PROVE OwnVolumes(d)
    <2>1. CASE d.volumes = p.volumes
      BY <1>6, <2>1 DEF OwnVolumes
    <2>2. CASE d.volumes # p.volumes
      <3>1. Range(d.volumes) = Range(p.volumes) \cup Range(PinningVolumes(p))
        BY <1>2, <2>2, PatchedVolumesOf
      <3>2. \A c : LET v == Volume(CpuVolume(c), CpuDir(p, c)) IN v.dir = <<submitted.name, v.name[2]>>
        BY <1>6 DEF Volume, CpuVolume, CpuDir
      <3>3. \A v \in Range(PinningVolumes(p)) :
              v.name \in {Podinfo, Hostbin} \/ v.dir = <<submitted.name, v.name[2]>>
        BY <3>2, PinningVolumesOf
      <3> QED
        BY <1>6, <3>1, <3>3 DEF OwnVolumes
    <2> QED
      BY <2>1, <2>2
  <1> QED
    BY <1>2, <1>4, <1>5, <1>6

LEMMA IInvInit == Init => IInv
  BY TInvInit DEF Init, IInv, ReviewedOK, StoredOK

LEMMA IInvNext ==
  ASSUME UniqueNames, NamesReserved
  PROVE  IInv /\ [Next]_vars => IInv'
  <1> SUFFICES ASSUME IInv, [Next]_vars PROVE IInv'
    OBVIOUS
  <1>1. TInv /\ ReviewedOK /\ StoredOK
    BY DEF IInv
  <1>2. TInv'
    BY <1>1, TInvNext
  <1> SUFFICES ReviewedOK' /\ StoredOK'
    BY <1>2 DEF IInv
  <1>3. ASSUME UNCHANGED <<phase, op, pod, submitted, stored>> PROVE ReviewedOK' /\ StoredOK'
    BY <1>1, <1>3, SameSubmitted DEF ReviewedOK, StoredOK, SeenIn, DoneIn
  <1>4. ASSUME UNCHANGED <<submitted, stored>> PROVE StoredOK'
    BY <1>1, <1>4, SameSubmitted DEF StoredOK, DoneIn
  <1>5. ASSUME NEW p \in Templates, Create(p) PROVE ReviewedOK' /\ StoredOK'
    <2>1. stored' = NoPod
      BY <1>1, <1>5, WebhookAssumption DEF Create, TInv, PodsTyped
    <2>2. pod' = p /\ submitted' = p /\ phase' = "call" /\ op' = "CREATE"
      BY <1>5 DEF Create
    <2>3. SeenIn(pod)'
      BY <2>2 DEF SeenIn, Origins
    <2>4. OwnVolumes(pod)' /\ Unchanged(pod)'
      BY <2>2 DEF OwnVolumes, Unchanged
    <2> QED
      BY <2>1, <2>2, <2>3, <2>4 DEF ReviewedOK, StoredOK
  <1>6. CASE Update
    <2>1. pod' = stored /\ stored # NoPod /\ op' = "UPDATE" /\ phase' = "call"
          /\ submitted' = submitted /\ stored' = stored
      BY <1>6 DEF Update
    <2>2. SeenIn(pod)' /\ Unchanged(pod)'
      BY <1>1, <2>1, SameSubmitted DEF StoredOK, DoneIn
    <2> QED
      BY <1>4, <2>1, <2>2 DEF ReviewedOK
  <1>7. ASSUME NEW readable \in BOOLEAN, ServeMutatePod(readable) PROVE ReviewedOK' /\ StoredOK'
    <2>1. submitted' = submitted /\ stored' = stored /\ op' = op /\ phase = "call"
      BY <1>7 DEF ServeMutatePod
    <2>2. CASE phase' = "idle"
      BY <1>4, <2>1, <2>2 DEF ReviewedOK
    <2>3. CASE phase' # "idle"
      <3>1. /\ phase' = "mutated" /\ pod' # NoPod /\ pod' \in MutatePods(pod, readable)
        BY <1>1, <1>7, <2>3, ServePod
      <3>2. submitted \in Templates /\ configs \in ConfigSets /\ IsPod(pod)
        BY <1>1, <2>1 DEF TInv, PodsTyped, FlagsTyped
      <3>3. Unchanged(pod) /\ SeenIn(pod)
        BY <1>1, <2>1 DEF ReviewedOK
      <3>4. /\ DoneIn(pod') /\ Unchanged(pod') /\ pod'.name = pod.name
            /\ pod.name = submitted.name /\ OwnVolumes(pod) => OwnVolumes(pod')
        BY <3>1, <3>2, <3>3, ServeDone
      <3>5. DoneIn(pod)' /\ Unchanged(pod)' /\ (OwnVolumes(pod)' <=> OwnVolumes(pod'))
        BY <2>1, <3>4, SameSubmitted DEF DoneIn
      <3>6. ReviewedOK'
        BY <1>1, <2>1, <3>1, <3>4, <3>5 DEF ReviewedOK
      <3> QED
        BY <1>4, <2>1, <3>6
    <2> QED
      BY <2>2, <2>3
  <1>8. CASE CallFails
    <2>1. phase' = "idle" /\ UNCHANGED <<submitted, stored>>
      BY <1>8 DEF CallFails, Refuse
    <2> QED
      BY <1>4, <2>1 DEF ReviewedOK
  <1>9. CASE OtherPlugins
    <2>1. phase = "mutated" /\ op = "CREATE" /\ phase' = "call"
          /\ UNCHANGED <<submitted, stored, op>>
      BY <1>9 DEF OtherPlugins
    <2>2. IsPod(pod) /\ DoneIn(pod) /\ Unchanged(pod) /\ pod.name = submitted.name /\ OwnVolumes(pod)
      BY <1>1, <2>1 DEF TInv, PodsTyped, ReviewedOK
    <2>3. /\ pod'.name = pod.name /\ pod'.volumes = pod.volumes
          /\ pod'.annotated = pod.annotated /\ pod'.processes = pod.processes
          /\ \A c \in Containers(pod') : \/ c \in Sidecars \/ c \in Containers(pod)
                                         \/ \E b \in Containers(pod) : c = WithOther(b)
      BY <1>9, <2>2, OtherPluginsPod
    <2>4. \A c \in Containers(pod') : \E o \in Origins : c = o \/ Done(o, c)
      <3> SUFFICES ASSUME NEW c \in Containers(pod') PROVE \E o \in Origins : c = o \/ Done(o, c)
        OBVIOUS
      <3>1. CASE c \in Sidecars
        BY <3>1 DEF Origins
      <3>2. CASE c \in Containers(pod)
        BY <2>2, <3>2 DEF DoneIn
      <3>3. ASSUME NEW b \in Containers(pod), c = WithOther(b)
            PROVE  \E o \in Origins : c = o \/ Done(o, c)
        <4>1. PICK o \in Origins : Done(o, b)
          BY <2>2 DEF DoneIn
        <4>2. IsContainer(b)
          BY <2>2, PodSeqs
        <4> QED
          BY <3>3, <4>1, <4>2, OtherDone
      <3> QED
        BY <2>3, <3>1, <3>2, <3>3
    <2>5. SeenIn(pod)'
      BY <2>1, <2>4, SameSubmitted
    <2>6. OwnVolumes(pod') /\ Unchanged(pod')
      BY <2>2, <2>3 DEF OwnVolumes, Unchanged
    <2>7. OwnVolumes(pod)' /\ Unchanged(pod)'
      BY <2>1, <2>6, SameSubmitted
    <2> QED
      BY <1>4, <2>1, <2>2, <2>3, <2>5, <2>7 DEF ReviewedOK
  <1>10. CASE Persist
    <2>1. phase' = "idle" /\ phase = "mutated" /\ submitted' = submitted
      BY <1>10 DEF Persist, Refuse
    <2>2. CASE stored' = stored
      BY <1>4, <2>1, <2>2 DEF ReviewedOK
    <2>3. CASE stored' # stored
      <3>1. op = "CREATE" /\ Valid(pod) /\ stored' = Named(pod)
        BY <1>10, <2>3 DEF Persist, Named
      <3>2. IsPod(pod) /\ DoneIn(pod) /\ Unchanged(pod) /\ pod.name = submitted.name /\ OwnVolumes(pod)
        BY <1>1, <2>1, <3>1 DEF TInv, PodsTyped, ReviewedOK
      <3>3. /\ stored'.containers = pod.containers /\ stored'.volumes = pod.volumes
            /\ stored'.annotated = pod.annotated /\ stored'.processes = pod.processes
            /\ pod.name # "" => stored'.name = pod.name
        BY <3>1, <3>2, NamedPod
      <3>4. MountsFound(pod)
        <4>1. \A i \in Indices(pod) : \A m \in Range(pod.containers[i].mounts) :
                \E k \in 1 .. Len(pod.volumes) : pod.volumes[k].name = m
          BY <3>1 DEF Valid
        <4>2. \A k \in 1 .. Len(pod.volumes) : pod.volumes[k] \in Range(pod.volumes)
          BY <3>2, SeqIndex DEF IsPod, IsSequence
        <4> QED
          BY <3>2, <4>1, <4>2, PodSeqs DEF MountsFound
      <3>5. /\ Unchanged(stored') /\ OwnVolumes(stored') /\ MountsFound(stored')
            /\ \A c \in Containers(stored') : c # NoPod /\ \E o \in Origins : Done(o, c)
        BY <3>2, <3>3, <3>4 DEF Unchanged, OwnVolumes, MountsFound, DoneIn, Containers
      <3>6. StoredOK'
        BY <2>1, <3>2, <3>3, <3>5, SameSubmitted DEF StoredOK
      <3> QED
        BY <2>1, <3>6 DEF ReviewedOK
    <2> QED
      BY <2>2, <2>3
  <1>11. CASE WebhookDown \/ WebhookUp \/ EditConfigs \/ UNCHANGED vars
    BY <1>3, <1>11 DEF WebhookDown, WebhookUp, EditConfigs, vars
  <1> QED
    BY <1>5, <1>6, <1>7, <1>8, <1>9, <1>10, <1>11 DEF Next

LEMMA Invariance ==
  ASSUME UniqueNames, NamesReserved
  PROVE  Spec => []IInv
  BY IInvInit, IInvNext, PTL DEF Spec

LEMMA StoredOrigin ==
  ASSUME UniqueNames, NamesReserved, IInv, stored # NoPod, NEW c \in Containers(stored)
  PROVE  /\ submitted \in Templates /\ Origin(c) \in Origins /\ Done(Origin(c), c)
         /\ IsContainer(Origin(c)) /\ IsContainer(c) /\ (ToPin(c) <=> Needs(Origin(c)))
  <1>1. submitted \in Templates /\ IsPod(stored) /\ DoneIn(stored)
    BY DEF IInv, TInv, PodsTyped, StoredOK
  <1>2. PICK o \in Origins : Done(o, c)
    BY <1>1 DEF DoneIn
  <1>3. Origin(c) = o
    BY <1>1, <1>2, OriginOf DEF Done
  <1>4. IsContainer(o)
    BY <1>1, OriginFacts DEF Reserved
  <1>5. IsContainer(c)
    BY <1>1, PodSeqs
  <1> QED
    BY <1>1, <1>2, <1>3, <1>4, <1>5 DEF ToPin, Needs

(* However often the webhook is called, it moves the command into the      *)
(* arguments once: the process-starter executes what the user wanted, and  *)
(* a container that needs no pinning keeps its command                     *)
(* (patchContainerForPinning).                                             *)
THEOREM CommandKeptThm ==
  ASSUME UniqueNames, NamesReserved
  PROVE  Spec => []CommandKept
  <1>1. IInv => CommandKept
    <2> SUFFICES ASSUME IInv, stored # NoPod, NEW c \in Containers(stored)
                 PROVE  LET o == Origin(c)
                        IN  IF ~ToPin(c) THEN c.command = o.command /\ c.args = o.args
                            ELSE c.args = IF ContainerExists(submitted, o) THEN o.args
                                          ELSE o.command \o o.args
      BY DEF CommandKept
    <2> DEFINE o == Origin(c)
    <2>1. Done(o, c) /\ (ToPin(c) <=> Needs(o))
      BY StoredOrigin
    <2> HIDE DEF o
    <2>2. Needs(o) /\ ~ContainerExists(submitted, o) => o.command # <<>>
      BY DEF Needs, PinningPatchNeeded
    <2>3. CASE Needs(o)
      BY <2>1, <2>2, <2>3 DEF Done, DoneEntry, MovedArgs, o
    <2>4. CASE ~Needs(o)
      BY <2>1, <2>4 DEF Done, DoneEntry, o
    <2> QED
      BY <2>3, <2>4
  <1> QED
    BY <1>1, Invariance, PTL

(* However often the webhook is called, and whatever other plugins change  *)
(* in between, a stored container that needs pinning has the               *)
(* process-starter as its entry point, both variables once and with their  *)
(* values, the mounts, and the directory that CPUSetter fills              *)
(* (mutatePods).                                                           *)
THEOREM StarterInPlaceThm ==
  ASSUME UniqueNames, NamesReserved, AnnotatedAsk
  PROVE  Spec => []StarterInPlace
  <1>1. IInv => StarterInPlace
    <2> SUFFICES ASSUME IInv, stored # NoPod, NEW c \in Containers(stored), ToPin(c)
                 PROVE  /\ c.command = Starter
                        /\ HasOnce(c, EnvVar("CONTAINER_NAME", c.name))
                        /\ HasOnce(c, PoolsVar(Origin(c)))
                        /\ {Podinfo, Hostbin, CpuVolume(c)} \subseteq Range(c.mounts)
                        /\ submitted.name # "" =>
                             \E v \in Range(stored.volumes) :
                               v.name = CpuVolume(c) /\ v.dir = CpuDir(stored, c)
                        /\ Range(Origin(c).env) \subseteq Range(c.env)
      BY DEF StarterInPlace
    <2> DEFINE o == Origin(c)
    <2>1. /\ submitted \in Templates /\ o \in Origins /\ Done(o, c) /\ Needs(o) /\ IsContainer(o)
      BY StoredOrigin
    <2> HIDE DEF o
    <2>2. Managed(o)
      <3>1. CASE ContainerExists(submitted, o)
        BY <2>1, <3>1 DEF AnnotatedAsk, Origins
      <3>2. CASE ~ContainerExists(submitted, o)
        BY <2>1, <3>2 DEF Needs, PinningPatchNeeded, Managed
      <3> QED
        BY <3>1, <3>2
    <2>3. c.command = Starter /\ c.mounts = ThreeMounts(o.mounts, o) /\ c.name = o.name
      BY <2>1 DEF Done, DoneEntry
    <2>4. HasOnce(c, EnvVar("CONTAINER_NAME", c.name))
      BY <2>1, <2>3 DEF Done, DoneEnv, OnceIn, HasOnce, NameVar
    <2>5. HasOnce(c, PoolsVar(o))
      BY <2>1, <2>2 DEF Done, DoneEnv, OnceIn, HasOnce
    <2>6. CpuVolume(c) = CpuVolume(o)
      BY <2>3 DEF CpuVolume
    <2>7. {Podinfo, Hostbin, CpuVolume(c)} \subseteq Range(c.mounts)
      BY <2>1, <2>3, <2>6, ThreeMountsOf DEF IsContainer
    <2>8. ASSUME submitted.name # ""
          PROVE  \E v \in Range(stored.volumes) : v.name = CpuVolume(c) /\ v.dir = CpuDir(stored, c)
      <3>1. MountsFound(stored) /\ OwnVolumes(stored) /\ stored.name = submitted.name
        BY <2>8 DEF IInv, StoredOK
      <3>2. PICK v \in Range(stored.volumes) : v.name = CpuVolume(c)
        BY <2>7, <3>1 DEF MountsFound
      <3>3. v \notin Range(submitted.volumes)
        BY <2>1, <2>6, <3>2, OriginFacts
      <3>4. CpuVolume(c) \notin {Podinfo, Hostbin} /\ CpuVolume(c)[2] = c.name
        <4>1. Len(<<"podinfo">>) = 1 /\ Len(<<"hostbin">>) = 1 /\ Len(<<"cpu", c.name>>) = 2
          OBVIOUS
        <4>2. <<"cpu", c.name>> # <<"podinfo">> /\ <<"cpu", c.name>> # <<"hostbin">>
          BY <4>1
        <4> QED
          BY <4>2 DEF CpuVolume, Podinfo, Hostbin
      <3>5. v.dir = <<submitted.name, c.name>>
        BY <3>1, <3>2, <3>3, <3>4 DEF OwnVolumes
      <3> QED
        BY <3>1, <3>2, <3>5 DEF CpuDir
    <2>9. Range(o.env) \subseteq Range(c.env)
      BY <2>1 DEF Done, DoneEnv
    <2> QED
      BY <2>3, <2>4, <2>5, <2>7, <2>8, <2>9 DEF o
  <1> QED
    BY <1>1, Invariance, PTL

-----------------------------------------------------------------------------
(* Quotas and updates.                                                     *)

(* The quota that depends on the sizes of pools is that of a container     *)
(* with exclusive and shared CPUs; any other is a matter of the requests.  *)
BySize(c) == quotas = QuotaAll /\ Mixed(c)

PlainLimit(c) ==
  IF CPURequests(c, ExclusivePoolID) > 0 /\ quotas = QuotaAll
  THEN 1000 * CPURequests(c, ExclusivePoolID) + 100
  ELSE IF CPURequests(c, SharedPoolID) > 0 THEN CPURequests(c, SharedPoolID)
  ELSE IF CPURequests(c, CloudphonePoolID) > 0 /\ quotas = QuotaAll
       THEN 1000 * CPURequests(c, CloudphonePoolID) + 100
  ELSE 0

LimitSet(c) ==
  /\ ~BySize(c) /\ PlainLimit(c) # 0 => c.limit = PlainLimit(c) /\ c.cpuRequest = 0
  /\ BySize(c) => c.cpuRequest = 0
  /\ BySize(c) /\ edits = 0 /\ faults = 0 => c.limit \in TotalCFSLimits(c, TRUE)

LimitsSet(p) == \A c \in Containers(p) : LimitSet(c)

(* mutatePods has no reason to deny the Pod.                               *)
Accepted(p) ==
  /\ RequestsReadable(p) /\ Marshals(p)
  /\ p.annotated => ValidateAnnotation(p) /\ Pinned(p) # {}

(* The quota of some container may come out differently.                   *)
Excused ==
  quotas = QuotaAll /\ \E c \in Containers(stored) :
    /\ Mixed(c)
    /\ edits > 0 \/ faults > 0 \/ \E r \in DOMAIN c.requests \ SharedNames(c) :
                                   c.requests[r] = CPURequests(c, SharedPoolID)

MutatedOK ==
  phase = "mutated" =>
    /\ Accepted(pod) /\ LimitsSet(pod) /\ pod.volumes # NoPod
    /\ op = "UPDATE" => PodSpec(pod) = PodSpec(stored) \/ Excused
KeptOK == stored # NoPod => Accepted(stored) /\ LimitsSet(stored) /\ stored.volumes # NoPod
OrderOK ==
  /\ ~up => faults > 0
  /\ phase # "idle" => (op = "CREATE" <=> stored = NoPod)
  /\ stored = NoPod => refused = "no"
  /\ refused = "changed" => Excused
  /\ refused = "down" => faults > 0
  /\ refused \in {"no", "down", "changed"}

UInv == IInv /\ MutatedOK /\ KeptOK /\ OrderOK

LEMMA PlainLimits ==
  ASSUME NEW c, NEW readable, ~BySize(c)
  PROVE  TotalCFSLimits(c, readable) = {PlainLimit(c)}
  BY DEF TotalCFSLimits, PlainLimit, BySize, Mixed

LEMMA LimitsBySize ==
  ASSUME configs \in ConfigSets, NEW c, IsContainer(c), NEW readable, BySize(c)
  PROVE  /\ TotalCFSLimits(c, readable) =
              {1000 * CPURequests(c, ExclusivePoolID) + m : m \in MaxSharedPoolLimits(c, readable)}
         /\ 0 \notin TotalCFSLimits(c, readable)
  <1> DEFINE ex == CPURequests(c, ExclusivePoolID)
             ms == MaxSharedPoolLimits(c, readable)
  <1>1. TotalCFSLimits(c, readable) = {1000 * ex + m : m \in ms}
    BY DEF TotalCFSLimits, BySize, Mixed
  <1>2. ex \in Nat /\ ex > 0
    BY DEF IsContainer, BySize, Mixed
  <1>3. ms \in SUBSET Nat
    BY MaxSharedPoolLimitsType
  <1> HIDE DEF ex, ms
  <1>4. \A m \in ms : 1000 * ex + m # 0
    BY <1>2, <1>3
  <1> QED
    BY <1>1, <1>4 DEF ex, ms

(* Where no other pool is asked for the same quantity, the pool is found   *)
(* and there is one quota.                                                 *)
OtherSame(c) ==
  \E r \in DOMAIN c.requests \ SharedNames(c) : c.requests[r] = CPURequests(c, SharedPoolID)

LEMMA OneLimit ==
  ASSUME configs \in ConfigSets, NEW c, IsContainer(c), BySize(c), ~OtherSame(c),
         \A r, s \in SharedNames(c) : r = s
  PROVE  \A x, y \in TotalCFSLimits(c, TRUE) : x = y
  <1> DEFINE names == {r \in DOMAIN c.requests : c.requests[r] = CPURequests(c, SharedPoolID)}
  <1>1. MaxSharedPoolLimits(c, TRUE) = IF names = {} THEN {0} ELSE {Max(SizesOf(n)) : n \in names}
    BY DEF MaxSharedPoolLimits, SizesOf
  <1>2. \A n \in names : n \in SharedNames(c)
    BY DEF OtherSame
  <1>3. \A n, k \in names : n = k
    BY <1>2
  <1> HIDE DEF names
  <1>4. \A x, y \in MaxSharedPoolLimits(c, TRUE) : x = y
    BY <1>1, <1>3
  <1> DEFINE ex == CPURequests(c, ExclusivePoolID)
             ms == MaxSharedPoolLimits(c, TRUE)
             ls == TotalCFSLimits(c, TRUE)
  <1>5. ls = {1000 * ex + m : m \in ms}
    BY DEF TotalCFSLimits, BySize, Mixed
  <1>6. \A x, y \in ms : x = y
    BY <1>4
  <1> HIDE DEF ex, ms, ls
  <1>7. \A x, y \in ls : x = y
    BY <1>5, <1>6
  <1> QED
    BY <1>7, Zenon DEF ls

LEMMA SameLimits ==
  ASSUME NEW o, NEW c, c.requests = o.requests
  PROVE  /\ BySize(c) <=> BySize(o)
         /\ PlainLimit(c) = PlainLimit(o)
         /\ SharedNames(c) = SharedNames(o) /\ (OtherSame(c) <=> OtherSame(o))
  <1>1. \A kind : CPURequests(c, kind) = CPURequests(o, kind)
    BY DEF CPURequests
  <1>2. SharedNames(c) = SharedNames(o)
    BY DEF SharedNames
  <1> QED
    BY <1>1, <1>2 DEF BySize, Mixed, PlainLimit, OtherSame

(* What a call makes of the quota.                                         *)
LEMMA ServeLimit ==
  ASSUME configs \in ConfigSets, NEW p, NEW c, IsContainer(c), NEW readable,
         NEW limit \in TotalCFSLimits(c, readable), NEW d, d = PatchContainer(p, c, limit), d # NoPod
  PROVE  /\ d.name = c.name /\ d.requests = c.requests
         /\ ~BySize(d) /\ PlainLimit(d) # 0 => d.limit = PlainLimit(d) /\ d.cpuRequest = 0
         /\ BySize(d) => d.cpuRequest = 0 /\ d.limit \in TotalCFSLimits(d, readable)
  <1> DEFINE l == IF limit = 0 THEN c.limit ELSE limit
             q == IF limit = 0 THEN c.cpuRequest ELSE 0
             cmd == IF PinsNow(p, c) THEN Starter ELSE c.command
             a == IF PinsNow(p, c) THEN MovedArgs(c, ContainerExists(p, c)) ELSE c.args
             m == IF PinsNow(p, c) THEN ThreeMounts(c.mounts, c) ELSE c.mounts
             e == PatchedEnv(p, c)
  <1>1. d = Con(c.name, c.requests, l, q, cmd, a, e, m)
    BY PatchEffect, Zenon
  <1> HIDE DEF l, q, cmd, a, m, e
  <1>2. d.name = c.name /\ d.requests = c.requests /\ d.limit = l /\ d.cpuRequest = q
    BY <1>1, ConFields
  <1>3. BySize(d) <=> BySize(c)
    BY <1>2, SameLimits
  <1>4. PlainLimit(d) = PlainLimit(c)
    BY <1>2, SameLimits
  <1>5. TotalCFSLimits(d, readable) = TotalCFSLimits(c, readable)
    BY <1>2, SameRequests
  <1>6. CASE BySize(c)
    <2>1. limit # 0
      BY <1>6, LimitsBySize
    <2> QED
      BY <1>2, <1>3, <1>5, <1>6, <2>1 DEF l, q
  <1>7. CASE ~BySize(c)
    <2>1. limit = PlainLimit(c)
      BY <1>7, PlainLimits
    <2> QED
      BY <1>2, <1>3, <1>4, <1>7, <2>1 DEF l, q
  <1> QED
    BY <1>6, <1>7

(* What was accepted once is accepted again.                               *)
LEMMA AcceptedServed ==
  ASSUME UniqueNames, NamesReserved, submitted \in Templates, configs \in ConfigSets,
         NEW p, IsPod(p), Unchanged(p), SeenIn(p), NEW readable,
         NEW d \in MutatePods(p, readable), d # NoPod
  PROVE  Accepted(d)
  <1>1. /\ RequestsReadable(p)
        /\ p.annotated => ValidateAnnotation(p) /\ Pinned(p) # {}
    BY MutatePodsEffect
  <1>2. /\ Unchanged(d) /\ d.processes = submitted.processes /\ p.processes = submitted.processes
        /\ d.annotated = p.annotated
    BY ServeDone DEF Unchanged
  <1>3. IsPod(d) /\ Indices(d) = Indices(p)
    BY ServeAt
  <1>4. ASSUME NEW i \in Indices(p)
        PROVE  /\ d.containers[i].name = p.containers[i].name
               /\ d.containers[i].requests = p.containers[i].requests
               /\ PinningPatchNeeded(p, p.containers[i]) => PinningPatchNeeded(d, d.containers[i])
               /\ ~PinsNow(d, d.containers[i])
    <2> DEFINE c == p.containers[i]
               x == d.containers[i]
    <2>1. PICK o \in Origins : (c = o \/ Done(o, c)) /\ Done(o, x)
      BY ServeAt
    <2>2. IsContainer(o) /\ IsContainer(x)
      BY <1>3, OriginFacts, PodSeqs DEF Reserved
    <2> HIDE DEF c, x
    <2>3. x.name = c.name /\ x.requests = c.requests
      BY <2>1 DEF Done
    <2>4. ~PinsNow(d, x)
      BY <1>2, <2>1, <2>2, DoneUntouched
    <2>5. PinningPatchNeeded(p, c) => Needs(o)
      <3>1. CASE c = o
        BY <1>2, <3>1 DEF Needs, PinningPatchNeeded, ContainerExists
      <3>2. CASE Done(o, c)
        BY <1>2, <3>2, NeedsStays
      <3> QED
        BY <2>1, <3>1, <3>2
    <2>6. Needs(o) => PinningPatchNeeded(d, x)
      BY <1>2, <2>1, NeedsStays
    <2> QED
      BY <2>3, <2>4, <2>5, <2>6 DEF c, x
  <1>5. RequestsReadable(d)
    BY <1>1, <1>3, <1>4 DEF RequestsReadable
  <1>6. Marshals(d)
    BY <1>3, <1>4 DEF Marshals, PinsNow
  <1>7. Pinned(p) # {} => Pinned(d) # {}
    BY <1>3, <1>4 DEF Pinned
  <1>8. ASSUME ValidateAnnotation(p) PROVE ValidateAnnotation(d)
    <2>1. \A i \in Indices(p) : WithProcesses(d, d.containers[i]) = WithProcesses(p, p.containers[i])
      BY <1>2, <1>4 DEF WithProcesses, ContainerExists
    <2> QED
      BY <1>2, <1>3, <1>4, <1>8, <2>1 DEF ValidateAnnotation
  <1> QED
    BY <1>1, <1>2, <1>5, <1>6, <1>7, <1>8 DEF Accepted

(* NoPod is neither a container nor a Pod.                                 *)
NoPodApart ==
  /\ \A n, r, l, q, cmd, a, e, m : Con(n, r, l, q, cmd, a, e, m) # NoPod
  /\ \A n, cs, vs, an, ps : PodRec(n, cs, vs, an, ps) # NoPod

(* The patches of an update apply, and only the quota can change.          *)
LEMMA UpdateApplies ==
  ASSUME NoPodApart, NEW p, p.processes = submitted.processes, NEW o, IsContainer(o),
         NEW c, IsContainer(c), Done(o, c), c # NoPod, NEW limit
  PROVE  PatchContainer(p, c, limit) # NoPod
  <1>1. ~PinsNow(p, c) /\ ~EnvNow(c)
    BY DoneUntouched
  <1> DEFINE x == PatchCPULimit(c, limit)
  <1>2. PatchContainer(p, c, limit) = x
    BY <1>1 DEF PatchContainer, PatchContainerForPinning, PatchContainerEnv, PinsNow, EnvNow
  <1>3. CASE limit = 0
    BY <1>2, <1>3 DEF PatchCPULimit
  <1>4. CASE limit # 0
    <2> DEFINE w == Set(c, "limit", limit)
    <2>1. w = Con(c.name, c.requests, limit, c.cpuRequest, c.command, c.args, c.env, c.mounts)
      BY ContainerCon DEF Set, Con
    <2> HIDE DEF w
    <2>2. w # NoPod
      BY <2>1 DEF NoPodApart
    <2>3. x = Set(w, "cpuRequest", 0)
      BY <1>4 DEF PatchCPULimit, w
    <2>4. x = Con(c.name, c.requests, limit, 0, c.command, c.args, c.env, c.mounts)
      BY <2>1, <2>2, <2>3 DEF Set, Con
    <2> HIDE DEF x
    <2>5. x # NoPod
      BY <2>4 DEF NoPodApart
    <2> QED
      BY <1>2, <2>5 DEF x
  <1> QED
    BY <1>3, <1>4

LEMMA UpdateVolumes ==
  ASSUME NEW p, IsPod(p), Unchanged(p), DoneIn(p), MountsFound(p),
         UniqueNames, NamesReserved, submitted \in Templates
  PROVE  PatchedVolumes(p) = p.volumes
  <1>1. CASE Pinned(p) = {}
    BY <1>1 DEF PatchedVolumes
  <1>2. CASE Pinned(p) # {}
    <2>1. PICK i \in Indices(p) : PinningPatchNeeded(p, p.containers[i])
      BY <1>2 DEF Pinned
    <2> DEFINE c == p.containers[i]
    <2>2. c \in Containers(p)
      BY PodSeqs
    <2>3. PICK o \in Origins : Done(o, c)
      BY <2>2 DEF DoneIn
    <2> HIDE DEF c
    <2>4. Needs(o)
      BY <2>1, <2>3, NeedsStays DEF c, Unchanged
    <2>5. IsContainer(o)
      BY OriginFacts DEF Reserved
    <2>6. Podinfo \in Range(c.mounts)
      BY <2>3, <2>4, <2>5, ThreeMountsOf DEF Done, DoneEntry, IsContainer
    <2>7. PICK v \in Range(p.volumes) : v.name = Podinfo
      BY <2>2, <2>6 DEF MountsFound
    <2>8. \E k \in 1 .. Len(p.volumes) : p.volumes[k] = v
      BY SeqIndex DEF IsPod, IsSequence
    <2>9. \E k \in 1 .. Len(p.volumes) : p.volumes[k].name \in {Hostbin, Podinfo}
      BY <2>7, <2>8
    <2> QED
      BY <1>2, <2>9 DEF PatchedVolumes, PatchVolumesForPinning
  <1> QED
    BY <1>1, <1>2

LEMMA MutateAnswers ==
  ASSUME configs \in ConfigSets, NEW p, IsPod(p), Accepted(p), NEW readable
  PROVE  MutatePods(p, readable) # {}
  <1> DEFINE choices(i) == TotalCFSLimits(p.containers[i], readable)
             all == UNION {choices(i) : i \in Indices(p)}
             f == [i \in Indices(p) |-> CHOOSE x \in choices(i) : TRUE]
  <1>1. \A i \in Indices(p) : choices(i) # {}
    BY PodSeqs, TotalCFSLimitsType
  <1>2. \A i \in Indices(p) : f[i] \in choices(i)
    BY <1>1
  <1>3. f \in [Indices(p) -> all]
    BY <1>2
  <1>4. MutatePods(p, readable) =
          {PatchedPod(p, g) : g \in {h \in [Indices(p) -> all] : \A i \in Indices(p) : h[i] \in choices(i)}}
    BY DEF MutatePods, Accepted
  <1> HIDE DEF f, all, choices
  <1>5. PatchedPod(p, f) \in MutatePods(p, readable)
    BY <1>2, <1>3, <1>4
  <1> QED
    BY <1>5

(* The quota of a container comes out as it was, but for what is excused.  *)
LEMMA SameLimit ==
  ASSUME configs \in ConfigSets, NEW c, IsContainer(c), LimitSet(c), NEW readable \in BOOLEAN,
         \A r, s \in SharedNames(c) : r = s,
         NEW limit \in TotalCFSLimits(c, readable), limit # 0,
         BySize(c) => readable /\ edits = 0 /\ faults = 0 /\ ~OtherSame(c)
  PROVE  c.limit = limit /\ c.cpuRequest = 0
  <1>1. CASE BySize(c)
    <2>1. c.limit \in TotalCFSLimits(c, TRUE) /\ c.cpuRequest = 0
      BY <1>1 DEF LimitSet
    <2>2. limit \in TotalCFSLimits(c, TRUE)
      <3>1. readable = TRUE
        BY <1>1
      <3> QED
        BY <3>1
    <2> QED
      BY <1>1, <2>1, <2>2, OneLimit
  <1>2. CASE ~BySize(c)
    BY <1>2, PlainLimits DEF LimitSet
  <1> QED
    BY <1>1, <1>2

(* An update of a stored Pod is answered, the patches apply, and they      *)
(* leave the spec as it is, but for what is excused.                       *)
LEMMA UpdateServed ==
  ASSUME UniqueNames, NamesReserved, OneSharedName, NoPodApart, UInv, stored # NoPod,
         NEW readable \in BOOLEAN
  PROVE  /\ MutatePods(stored, readable) # {}
         /\ \A d \in MutatePods(stored, readable) :
              /\ d # NoPod
              /\ \/ d.containers = stored.containers /\ d.volumes = stored.volumes
                 \/ \E c \in Containers(stored) :
                      BySize(c) /\ (~readable \/ edits > 0 \/ faults > 0 \/ OtherSame(c))
  <1> DEFINE p == stored
  <1>1. /\ submitted \in Templates /\ configs \in ConfigSets /\ IsPod(p) /\ Unchanged(p)
        /\ DoneIn(p) /\ MountsFound(p) /\ Accepted(p) /\ LimitsSet(p) /\ p.volumes # NoPod
        /\ edits \in Nat /\ faults \in Nat
    <2>1. TInv /\ StoredOK /\ KeptOK
      BY DEF UInv, IInv
    <2>2. submitted \in Templates /\ configs \in ConfigSets /\ IsPod(stored)
      BY <2>1 DEF TInv, FlagsTyped, PodsTyped
    <2>3. edits \in Nat /\ faults \in Nat
      BY <2>1, WebhookAssumption DEF TInv, FlagsTyped
    <2>4. Unchanged(stored) /\ DoneIn(stored) /\ MountsFound(stored)
      BY <2>1 DEF StoredOK
    <2>5. Accepted(stored) /\ LimitsSet(stored) /\ stored.volumes # NoPod
      BY <2>1 DEF KeptOK
    <2> QED
      BY <2>2, <2>3, <2>4, <2>5
  <1>2. p.processes = submitted.processes /\ SeenIn(p)
    BY <1>1 DEF Unchanged, SeenIn, DoneIn
  <1>3. MutatePods(p, readable) # {}
    BY <1>1, MutateAnswers
  <1>4. PatchedVolumes(p) = p.volumes
    BY <1>1, UpdateVolumes
  <1>5. ASSUME NEW i \in Indices(p), NEW limit
        PROVE  PatchContainer(p, p.containers[i], limit) # NoPod
    <2> DEFINE c == p.containers[i]
    <2>1. c \in Containers(p) /\ IsContainer(c)
      BY <1>1, PodSeqs
    <2>2. c # NoPod /\ \E o \in Origins : Done(o, c)
      BY <1>1, <2>1 DEF DoneIn
    <2>3. PICK o \in Origins : Done(o, c)
      BY <2>2
    <2>4. IsContainer(o)
      BY <1>1, OriginFacts DEF Reserved
    <2> HIDE DEF c, p
    <2>5. PatchContainer(p, c, limit) # NoPod
      BY <1>2, <2>1, <2>2, <2>3, <2>4, UpdateApplies
    <2> QED
      BY <2>5 DEF c
  <1>6. ASSUME NEW d \in MutatePods(p, readable)
        PROVE  /\ d # NoPod
               /\ \/ d.containers = p.containers /\ d.volumes = p.volumes
                  \/ \E c \in Containers(p) :
                       BySize(c) /\ (~readable \/ edits > 0 \/ faults > 0 \/ OtherSame(c))
    <2> HIDE DEF p
    <2>1. PICK limits : /\ \A i \in Indices(p) : limits[i] \in TotalCFSLimits(p.containers[i], readable)
                        /\ d = PatchedPod(p, limits)
      BY MutatePodsEffect
    <2>2. d # NoPod
      <3> DEFINE cs == [i \in Indices(p) |-> PatchContainer(p, p.containers[i], limits[i])]
      <3>1. \A i \in Indices(p) : cs[i] # NoPod
        BY <1>5
      <3>2. d = [p EXCEPT !.containers = cs, !.volumes = p.volumes]
        BY <1>1, <1>4, <2>1, <3>1 DEF PatchedPod, PatchedVolumes
      <3>3. p = PodRec(p.name, p.containers, p.volumes, p.annotated, p.processes)
        BY <1>1 DEF IsPod, PodRec
      <3> HIDE DEF cs
      <3>4. d = PodRec(p.name, cs, p.volumes, p.annotated, p.processes)
        BY <3>2, <3>3 DEF PodRec
      <3> QED
        BY <3>4 DEF NoPodApart
    <2>3. SUFFICES ASSUME \A c \in Containers(p) :
                            BySize(c) => readable /\ edits = 0 /\ faults = 0 /\ ~OtherSame(c)
                   PROVE  d.containers = p.containers /\ d.volumes = p.volumes
      BY <1>1, <2>2
    <2>4. /\ \A i \in Indices(p) : limits[i] \in Nat
      BY <1>1, <2>1, PodSeqs, TotalCFSLimitsType
    <2>5. /\ IsPod(d) /\ d.volumes = PatchedVolumes(p) /\ Indices(d) = Indices(p)
          /\ \A i \in Indices(p) : d.containers[i] = PatchContainer(p, p.containers[i], limits[i])
      BY <1>1, <2>1, <2>2, <2>4, PatchedPodEffect
    <2>6. ASSUME NEW i \in Indices(p) PROVE d.containers[i] = p.containers[i]
      <3> DEFINE c == p.containers[i]
                 x == d.containers[i]
                 limit == limits[i]
      <3>1. c \in Containers(p) /\ IsContainer(c)
        BY <1>1, PodSeqs
      <3>2. PICK o \in Origins : Done(o, c)
        BY <1>1, <3>1 DEF DoneIn
      <3>3. IsContainer(o)
        BY <1>1, OriginFacts DEF Reserved
      <3>4. x = PatchContainer(p, c, limit) /\ x # NoPod /\ limit \in TotalCFSLimits(c, readable)
        BY <1>5, <2>1, <2>5
      <3>5. \A r, s \in SharedNames(c) : r = s
        <4>1. \A r, s \in SharedNames(o) : r = s
          BY <1>1 DEF OneSharedName, Origins
        <4>2. SharedNames(c) = SharedNames(o)
          BY <3>2, SameLimits DEF Done
        <4> QED
          BY <4>1, <4>2
      <3>6. LimitSet(c)
        BY <1>1, <3>1 DEF LimitsSet
      <3> HIDE DEF c, x, limit
      <3>7. x = Con(c.name, c.requests,
                    IF limit = 0 THEN c.limit ELSE limit, IF limit = 0 THEN c.cpuRequest ELSE 0,
                    c.command, c.args, c.env, c.mounts)
        BY <1>2, <3>1, <3>2, <3>3, <3>4, DoneStays
      <3>8. limit # 0 => c.limit = limit /\ c.cpuRequest = 0
        BY <1>1, <2>3, <3>1, <3>4, <3>5, <3>6, SameLimit
      <3>9. x = Con(c.name, c.requests, c.limit, c.cpuRequest, c.command, c.args, c.env, c.mounts)
        BY <3>7, <3>8
      <3>10. x = c
        BY <3>1, <3>9, ContainerCon
      <3> QED
        BY <3>10 DEF x, c
    <2>7. d.containers = p.containers
      <3>1. DOMAIN d.containers = Indices(p) /\ DOMAIN p.containers = Indices(p)
        BY <1>1, <2>5, PodSeqs
      <3>2. d.containers = [i \in Indices(p) |-> d.containers[i]]
            /\ p.containers = [i \in Indices(p) |-> p.containers[i]]
        BY <1>1, <2>5, <3>1 DEF IsPod, IsSequence
      <3> QED
        BY <2>6, <3>2
    <2> QED
      BY <1>4, <2>5, <2>7
  <1> QED
    BY <1>3, <1>6

(* The counters only grow, and the configuration changes with an edit.     *)
Onward ==
  /\ quotas' = quotas
  /\ faults' \in {faults, faults + 1}
  /\ (configs' = configs /\ edits' = edits) \/ edits' = edits + 1

LEMMA NextOnward ==
  ASSUME [Next]_vars
  PROVE  Onward
  <1>1. CASE UNCHANGED vars
    BY <1>1 DEF vars, Onward
  <1>2. ASSUME NEW readable \in BOOLEAN, ServeMutatePod(readable) PROVE Onward
    BY <1>2 DEF ServeMutatePod, Onward
  <1>3. CASE Next
    BY <1>2, <1>3 DEF Next, Create, Update, CallFails, OtherPlugins, Persist, WebhookDown,
                      WebhookUp, EditConfigs, Onward
  <1> QED
    BY <1>1, <1>3

LEMMA LimitSetStays ==
  ASSUME edits \in Nat, faults \in Nat, Onward
  PROVE  \A c : LimitSet(c) => LimitSet(c)'
  <1> SUFFICES ASSUME NEW c, LimitSet(c) PROVE LimitSet(c)'
    OBVIOUS
  <1>1. (BySize(c)' <=> BySize(c)) /\ PlainLimit(c)' = PlainLimit(c)
    BY DEF Onward, BySize, PlainLimit, Mixed
  <1>2. edits' = 0 /\ faults' = 0 => edits = 0 /\ faults = 0 /\ configs' = configs
    BY DEF Onward
  <1>3. configs' = configs => TotalCFSLimits(c, TRUE)' = TotalCFSLimits(c, TRUE)
    BY DEF TotalCFSLimits, MaxSharedPoolLimits, Onward
  <1> QED
    BY <1>1, <1>2, <1>3 DEF LimitSet

LEMMA ExcusedStays ==
  ASSUME edits \in Nat, faults \in Nat, Onward, stored' = stored, Excused
  PROVE  Excused'
  <1>1. edits > 0 \/ faults > 0 => edits' > 0 \/ faults' > 0
    BY DEF Onward
  <1> QED
    BY <1>1 DEF Excused, Onward

LEMMA AcceptedSame ==
  ASSUME NEW p, NEW d, Accepted(p), d.containers = p.containers, d.annotated = p.annotated,
         d.processes = p.processes
  PROVE  Accepted(d)
  <1>1. Indices(d) = Indices(p)
    BY DEF Indices
  <1>2. \A c : ContainerExists(d, c) <=> ContainerExists(p, c)
    BY DEF ContainerExists
  <1>3. \A c : PinningPatchNeeded(d, c) <=> PinningPatchNeeded(p, c)
    BY <1>2 DEF PinningPatchNeeded
  <1>4. \A c : WithProcesses(d, c) = WithProcesses(p, c)
    BY <1>2 DEF WithProcesses
  <1>5. Pinned(d) = Pinned(p)
    BY <1>1, <1>3 DEF Pinned
  <1>6. RequestsReadable(p) => RequestsReadable(d)
    BY <1>1 DEF RequestsReadable
  <1>7. Marshals(p) => Marshals(d)
    BY <1>1, <1>2, <1>3 DEF Marshals
  <1>8. ValidateAnnotation(p) => ValidateAnnotation(d)
    BY <1>1, <1>4 DEF ValidateAnnotation
  <1> QED
    BY <1>5, <1>6, <1>7, <1>8 DEF Accepted

LEMMA ServeLimits ==
  ASSUME UniqueNames, NamesReserved, TInv, ReviewedOK, NEW readable \in BOOLEAN,
         ServeMutatePod(readable), phase' = "mutated"
  PROVE  LimitsSet(pod)' /\ Accepted(pod)' /\ pod'.volumes # NoPod
  <1>1. pod' \in MutatePods(pod, readable) /\ pod' # NoPod
    BY ServePod
  <1>2. /\ submitted \in Templates /\ configs \in ConfigSets /\ IsPod(pod) /\ Unchanged(pod)
        /\ SeenIn(pod)
    BY DEF ServeMutatePod, TInv, FlagsTyped, PodsTyped, ReviewedOK
  <1>3. Accepted(pod')
    BY <1>1, <1>2, AcceptedServed
  <1>4. Accepted(pod)'
    BY <1>3 DEF Accepted, RequestsReadable, Marshals, ValidateAnnotation, Pinned
  <1>5. /\ IsPod(pod') /\ Indices(pod') = Indices(pod) /\ pod'.volumes # NoPod
        /\ \A i \in Indices(pod) :
             /\ \E limit \in TotalCFSLimits(pod.containers[i], readable) :
                  pod'.containers[i] = PatchContainer(pod, pod.containers[i], limit)
             /\ pod'.containers[i] # NoPod
    BY <1>1, <1>2, ServeAt
  <1>6. quotas' = quotas /\ configs' = configs /\ (faults' = 0 => readable)
    BY WebhookAssumption DEF ServeMutatePod, TInv, FlagsTyped
  <1>7. ASSUME NEW d, NEW i \in Indices(pod), d = pod'.containers[i] PROVE LimitSet(d)'
    <2>1. PICK limit \in TotalCFSLimits(pod.containers[i], readable) :
            pod'.containers[i] = PatchContainer(pod, pod.containers[i], limit)
      BY <1>5
    <2>2. IsContainer(pod.containers[i]) /\ pod'.containers[i] # NoPod
      BY <1>2, <1>5, PodSeqs
    <2>3. d = pod'.containers[i]
      BY <1>7
    <2>4. /\ ~BySize(d) /\ PlainLimit(d) # 0 => d.limit = PlainLimit(d) /\ d.cpuRequest = 0
          /\ BySize(d) => d.cpuRequest = 0 /\ d.limit \in TotalCFSLimits(d, readable)
      BY <1>2, <2>1, <2>2, <2>3, ServeLimit
    <2>5. (BySize(d)' <=> BySize(d)) /\ PlainLimit(d)' = PlainLimit(d)
      BY <1>6 DEF BySize, PlainLimit, Mixed
    <2>6. TotalCFSLimits(d, TRUE)' = TotalCFSLimits(d, TRUE)
      BY <1>6 DEF TotalCFSLimits, MaxSharedPoolLimits
    <2>7. readable => TotalCFSLimits(d, readable) = TotalCFSLimits(d, TRUE)
      BY DEF TotalCFSLimits, MaxSharedPoolLimits
    <2>8. LimitSet(d)'
      BY <1>6, <2>4, <2>5, <2>6, <2>7 DEF LimitSet
    <2> QED
      BY <2>8
  <1>8. \A c \in Containers(pod') : \E i \in Indices(pod) : pod'.containers[i] = c
    BY <1>5, PodSeqs
  <1>9. LimitsSet(pod)'
    BY <1>7, <1>8 DEF LimitsSet, Containers
  <1> QED
    BY <1>4, <1>5, <1>9

LEMMA UInvInit == Init => UInv
  BY IInvInit DEF Init, UInv, MutatedOK, KeptOK, OrderOK

LEMMA UInvNext ==
  ASSUME UniqueNames, NamesReserved, OneSharedName, NoPodApart
  PROVE  UInv /\ [Next]_vars => UInv'
  <1> SUFFICES ASSUME UInv, [Next]_vars PROVE UInv'
    OBVIOUS
  <1>1. IInv /\ TInv /\ ReviewedOK /\ StoredOK /\ MutatedOK /\ KeptOK /\ OrderOK
    BY DEF UInv, IInv
  <1>2. IInv'
    BY <1>1, IInvNext
  <1> SUFFICES MutatedOK' /\ KeptOK' /\ OrderOK'
    BY <1>2 DEF UInv
  <1>3. edits \in Nat /\ faults \in Nat /\ Onward
    BY <1>1, WebhookAssumption, NextOnward DEF TInv, FlagsTyped
  <1>4. ASSUME stored' = stored PROVE KeptOK'
    <2>1. LimitsSet(stored) => LimitsSet(stored)'
      BY <1>3, <1>4, LimitSetStays DEF LimitsSet, Containers
    <2>2. Accepted(stored) => Accepted(stored)'
      BY <1>4
    <2> QED
      BY <1>1, <1>4, <2>1, <2>2 DEF KeptOK
  <1>5. /\ faults > 0 => faults' > 0
        /\ stored' = stored /\ Excused => Excused'
    BY <1>3, ExcusedStays DEF Onward
  <1>6. ASSUME NEW p \in Templates, Create(p) PROVE MutatedOK' /\ KeptOK' /\ OrderOK'
    <2>1. /\ phase' = "call" /\ op' = "CREATE" /\ stored' = stored /\ refused' = refused
          /\ up' = up /\ faults' = faults /\ submitted = NoPod
      BY <1>6 DEF Create
    <2>2. stored = NoPod
      BY <1>1, <2>1, WebhookAssumption DEF TInv, PodsTyped
    <2>3. OrderOK'
      BY <1>1, <1>5, <2>1, <2>2 DEF OrderOK
    <2> QED
      BY <1>4, <2>1, <2>3 DEF MutatedOK
  <1>7. CASE Update
    <2>1. /\ phase' = "call" /\ op' = "UPDATE" /\ stored' = stored /\ refused' = refused
          /\ up' = up /\ faults' = faults /\ stored # NoPod
      BY <1>7 DEF Update
    <2>2. OrderOK'
      BY <1>1, <1>5, <2>1 DEF OrderOK
    <2> QED
      BY <1>4, <2>1, <2>2 DEF MutatedOK
  <1>8. ASSUME NEW readable \in BOOLEAN, ServeMutatePod(readable)
        PROVE  MutatedOK' /\ KeptOK' /\ OrderOK'
    <2>1. /\ op' = op /\ stored' = stored /\ up' = up /\ phase = "call" /\ edits' = edits
          /\ faults' = (IF readable THEN faults ELSE faults + 1)
          /\ quotas' = quotas
      BY <1>8 DEF ServeMutatePod
    <2>2. op = "CREATE" => refused' = refused
      BY <1>8 DEF ServeMutatePod, Refuse
    <2>3. CASE op = "CREATE"
      <3>1. phase' # "mutated" \/ (LimitsSet(pod)' /\ Accepted(pod)' /\ pod'.volumes # NoPod)
        BY <1>1, <1>8, ServeLimits
      <3>2. MutatedOK'
        BY <2>1, <2>3, <3>1 DEF MutatedOK
      <3>3. OrderOK'
        BY <1>1, <1>5, <2>1, <2>2, <2>3 DEF OrderOK
      <3> QED
        BY <1>4, <2>1, <3>2, <3>3
    <2>4. CASE op = "UPDATE"
      <3>1. stored # NoPod /\ pod = stored
        BY <1>1, <2>1, <2>4 DEF OrderOK, ReviewedOK
      <3>2. /\ MutatePods(pod, readable) # {}
            /\ \A d \in MutatePods(pod, readable) :
                 /\ d # NoPod
                 /\ \/ d.containers = stored.containers /\ d.volumes = stored.volumes
                    \/ \E c \in Containers(stored) :
                         BySize(c) /\ (~readable \/ edits > 0 \/ faults > 0 \/ OtherSame(c))
        BY <3>1, UpdateServed
      <3>3. phase' = "mutated" /\ refused' = refused /\ pod' \in MutatePods(pod, readable)
        BY <1>8, <3>2 DEF ServeMutatePod
      <3>4. LimitsSet(pod)' /\ Accepted(pod)' /\ pod'.volumes # NoPod
        BY <1>1, <1>8, <3>3, ServeLimits
      <3>5. \/ PodSpec(pod)' = PodSpec(stored)'
            \/ Excused'
        <4>1. CASE pod'.containers = stored.containers /\ pod'.volumes = stored.volumes
          BY <2>1, <4>1 DEF PodSpec
        <4>2. ASSUME NEW c \in Containers(stored),
                     BySize(c), ~readable \/ edits > 0 \/ faults > 0 \/ OtherSame(c)
              PROVE  Excused'
          <5>1. quotas' = QuotaAll /\ Mixed(c)
            BY <2>1, <4>2 DEF BySize
          <5>2. ~readable \/ faults > 0 => faults' > 0
            BY <1>3, <2>1
          <5>3. edits' > 0 \/ faults' > 0 \/ OtherSame(c)
            BY <2>1, <4>2, <5>2
          <5> QED
            BY <2>1, <5>1, <5>3 DEF Excused, OtherSame
        <4> QED
          BY <3>2, <3>3, <4>1, <4>2
      <3>6. MutatedOK'
        BY <3>4, <3>5 DEF MutatedOK
      <3>7. OrderOK'
        BY <1>1, <1>5, <2>1, <3>3 DEF OrderOK
      <3> QED
        BY <1>4, <2>1, <3>6, <3>7
    <2> QED
      BY <1>1, <2>3, <2>4 DEF TInv, FlagsTyped
  <1>9. CASE CallFails
    <2>1. /\ phase' = "idle" /\ stored' = stored /\ up' = up /\ ~up /\ faults' = faults
          /\ refused' = (IF op = "UPDATE" THEN "down" ELSE refused) /\ phase = "call"
      BY <1>9 DEF CallFails, Refuse
    <2>2. OrderOK'
      BY <1>1, <1>5, <2>1 DEF OrderOK
    <2> QED
      BY <1>4, <2>1, <2>2 DEF MutatedOK
  <1>10. CASE OtherPlugins
    <2>1. /\ phase' = "call" /\ phase = "mutated" /\ op' = op /\ stored' = stored /\ up' = up
          /\ refused' = refused /\ faults' = faults
      BY <1>10 DEF OtherPlugins
    <2>2. OrderOK'
      BY <1>1, <1>5, <2>1 DEF OrderOK
    <2> QED
      BY <1>4, <2>1, <2>2 DEF MutatedOK
  <1>11. CASE Persist
    <2>1. phase' = "idle" /\ phase = "mutated" /\ up' = up /\ faults' = faults /\ submitted' = submitted
      BY <1>11 DEF Persist, Refuse
    <2>2. MutatedOK'
      BY <2>1 DEF MutatedOK
    <2>3. CASE op = "CREATE"
      <3>1. stored = NoPod /\ refused = "no" /\ refused' = refused
        BY <1>1, <1>11, <2>1, <2>3 DEF OrderOK, Persist, Refuse
      <3>2. OrderOK'
        BY <1>1, <2>1, <3>1 DEF OrderOK
      <3>3. CASE stored' = stored
        BY <1>4, <2>2, <3>2, <3>3
      <3>4. CASE stored' # stored
        <4>1. stored' = Named(pod)
          BY <1>11, <2>3, <3>4 DEF Persist, Named
        <4>2. IsPod(pod) /\ Accepted(pod) /\ LimitsSet(pod) /\ pod.volumes # NoPod
          BY <1>1, <2>1 DEF TInv, PodsTyped, MutatedOK
        <4>3. /\ stored'.containers = pod.containers /\ stored'.volumes = pod.volumes
              /\ stored'.annotated = pod.annotated /\ stored'.processes = pod.processes
          BY <4>1, <4>2, NamedPod
        <4>4. Accepted(stored')
          BY <4>2, <4>3, AcceptedSame
        <4>5. Accepted(stored)'
          BY <4>4 DEF Accepted, RequestsReadable, Marshals, ValidateAnnotation, Pinned
        <4>6. LimitsSet(stored)'
          BY <1>3, <4>2, <4>3, LimitSetStays DEF LimitsSet, Containers
        <4>7. KeptOK'
          BY <4>2, <4>3, <4>5, <4>6 DEF KeptOK
        <4> QED
          BY <2>2, <3>2, <4>7
      <3> QED
        BY <3>3, <3>4
    <2>4. CASE op = "UPDATE"
      <3>1. stored' = stored /\ stored # NoPod
        BY <1>1, <1>11, <2>1, <2>4 DEF OrderOK, Persist
      <3>2. CASE PodSpec(pod) = PodSpec(stored)
        <4>1. refused' = refused
          BY <1>11, <2>4, <3>2 DEF Persist
        <4>2. OrderOK'
          BY <1>1, <1>5, <2>1, <3>1, <4>1 DEF OrderOK
        <4> QED
          BY <1>4, <2>2, <3>1, <4>2
      <3>3. CASE PodSpec(pod) # PodSpec(stored)
        <4>1. refused' = "changed"
          BY <1>11, <2>4, <3>3 DEF Persist, Refuse
        <4>2. Excused
          BY <1>1, <2>1, <2>4, <3>3 DEF MutatedOK
        <4>3. OrderOK'
          BY <1>1, <1>5, <2>1, <3>1, <4>1, <4>2 DEF OrderOK
        <4> QED
          BY <1>4, <2>2, <3>1, <4>3
      <3> QED
        BY <3>2, <3>3
    <2> QED
      BY <1>1, <2>3, <2>4 DEF TInv, FlagsTyped
  <1>12. CASE WebhookDown \/ WebhookUp \/ EditConfigs \/ UNCHANGED vars
    <2>1. /\ phase' = phase /\ op' = op /\ pod' = pod /\ stored' = stored /\ refused' = refused
          /\ ~up' => faults' > 0
      BY <1>1, <1>3, <1>12 DEF WebhookDown, WebhookUp, EditConfigs, vars, OrderOK
    <2>2. OrderOK'
      BY <1>1, <1>5, <2>1 DEF OrderOK
    <2>3. LimitsSet(pod) => LimitsSet(pod)'
      BY <1>3, <2>1, LimitSetStays DEF LimitsSet, Containers
    <2>4. Accepted(pod) => Accepted(pod)'
      BY <2>1 DEF Accepted, RequestsReadable, Marshals, ValidateAnnotation, Pinned
    <2>5. PodSpec(pod) = PodSpec(stored) => PodSpec(pod)' = PodSpec(stored)'
      BY <2>1 DEF PodSpec
    <2>6. MutatedOK'
      BY <1>1, <1>5, <2>1, <2>3, <2>4, <2>5 DEF MutatedOK
    <2> QED
      BY <1>4, <2>1, <2>2, <2>6
  <1> QED
    BY <1>6, <1>7, <1>8, <1>9, <1>10, <1>11, <1>12 DEF Next

LEMMA UpdateInvariance ==
  ASSUME UniqueNames, NamesReserved, OneSharedName, NoPodApart
  PROVE  Spec => []UInv
  BY UInvInit, UInvNext, PTL DEF Spec

(* The API server never refuses an update that leaves the spec alone       *)
(* because of the webhook's answer, but for the quota of a container with  *)
(* exclusive and shared CPUs that the sizes of the pools, or two pools     *)
(* asked for the same quantity, bring out differently (setRequestLimit,    *)
(* patchContainerEnv).                                                     *)
THEOREM UpdatesAcceptedThm ==
  ASSUME UniqueNames, NamesReserved, OneSharedName, NoPodApart
  PROVE  Spec => []UpdatesAccepted
  <1>1. UInv => UpdatesAccepted
    BY DEF UInv, OrderOK, Excused, UpdatesAccepted
  <1> QED
    BY <1>1, UpdateInvariance, PTL

(* The sum over one pool is what is asked of it.                           *)
LEMMA SumOfOne ==
  ASSUME NEW q, NEW r, q[r] \in Nat
  PROVE  MapThenSumSet(LAMBDA x : q[x], {r}) = q[r]
  <1> DEFINE S == {r}
             pick(s) == CHOOSE x \in s : TRUE
             Sums(g) == g = [s \in SUBSET S |-> IF s = {} THEN 0 ELSE q[pick(s)] + g[s \ {pick(s)}]]
             f == [s \in SUBSET S |-> IF s = {} THEN 0 ELSE q[r]]
             h == CHOOSE g : Sums(g)
  <1>1. MapThenSumSet(LAMBDA x : q[x], {r}) = h[S]
    BY DEF MapThenSumSet, MapThenFoldSet
  <1>2. SUBSET S = {{}, S} /\ pick(S) = r /\ S \ {r} = {} /\ S # {}
    OBVIOUS
  <1>3. Sums(f)
    <2>1. \A s \in SUBSET S : f[s] = IF s = {} THEN 0 ELSE q[pick(s)] + f[s \ {pick(s)}]
      BY <1>2
    <2> QED
      BY <2>1
  <1>4. Sums(h)
    BY <1>3, Zenon
  <1> HIDE DEF h
  <1>5. h[S] = q[pick(S)] + h[S \ {pick(S)}]
    BY <1>2, <1>4
  <1>6. h[{}] = 0
    BY <1>2, <1>4
  <1> QED
    BY <1>1, <1>2, <1>5, <1>6

LEMMA OneSharedRequest ==
  ASSUME NEW c, IsContainer(c), NEW r, SharedNames(c) = {r}
  PROVE  CPURequests(c, SharedPoolID) = c.requests[r] /\ r \in DOMAIN c.requests
  <1>1. r \in DOMAIN c.requests /\ {x \in DOMAIN c.requests : HasPrefix(x, <<SharedPoolID>>)} = {r}
    BY DEF SharedNames
  <1>2. c.requests[r] \in Nat
    BY <1>1 DEF IsContainer
  <1>3. CPURequests(c, SharedPoolID) = MapThenSumSet(LAMBDA x : c.requests[x], {r})
    BY <1>1 DEF CPURequests, SumOfKind
  <1> QED
    BY <1>1, <1>2, <1>3, SumOfOne

(* "We need to include the full size of the shared pool": the quota of a   *)
(* container with exclusive and shared CPUs covers all of them on every    *)
(* node it may land on (setRequestLimit, getMaxSharedPoolLimit).           *)
THEOREM QuotaCoversThm ==
  ASSUME UniqueNames, NamesReserved, OneSharedName, NoPodApart
  PROVE  Spec => []QuotaCovers
  <1>1. UInv => QuotaCovers
    <2> SUFFICES ASSUME UInv, stored # NoPod, quotas = QuotaAll, edits = 0, faults = 0,
                        NEW c \in Containers(stored), Mixed(c), NEW r \in SharedNames(c),
                        NEW conf \in configs, SharedNames(c) = {r}, r \in DOMAIN conf,
                        \A n \in DOMAIN c.requests \ {r} : c.requests[n] # c.requests[r]
                 PROVE  c.limit >= 1000 * (CPURequests(c, ExclusivePoolID) + conf[r])
      BY DEF QuotaCovers
    <2>1. IsContainer(c) /\ configs \in ConfigSets /\ LimitSet(c)
      BY PodSeqs DEF UInv, IInv, TInv, FlagsTyped, PodsTyped, KeptOK, LimitsSet
    <2> DEFINE ex == CPURequests(c, ExclusivePoolID)
               names == {n \in DOMAIN c.requests : c.requests[n] = CPURequests(c, SharedPoolID)}
    <2>2. names = {r}
      BY <2>1, OneSharedRequest
    <2>3. MaxSharedPoolLimits(c, TRUE) = {Max(SizesOf(r))}
      <3>1. MaxSharedPoolLimits(c, TRUE) = {Max(SizesOf(n)) : n \in names}
        BY <2>2 DEF MaxSharedPoolLimits, SizesOf
      <3> QED
        BY <2>2, <3>1
    <2>4. TotalCFSLimits(c, TRUE) = {1000 * ex + m : m \in MaxSharedPoolLimits(c, TRUE)}
      BY DEF TotalCFSLimits, Mixed
    <2>5. c.limit \in TotalCFSLimits(c, TRUE)
      BY <2>1 DEF LimitSet, BySize
    <2>6. c.limit = 1000 * ex + Max(SizesOf(r))
      <3> DEFINE ls == TotalCFSLimits(c, TRUE)
                 ms == MaxSharedPoolLimits(c, TRUE)
                 big == Max(SizesOf(r))
      <3>1. ms = {big} /\ ls = {1000 * ex + m : m \in ms} /\ c.limit \in ls
        BY <2>3, <2>4, <2>5
      <3> HIDE DEF ex, ls, ms, big
      <3>2. c.limit = 1000 * ex + big
        BY <3>1
      <3> QED
        BY <3>2 DEF big
    <2>7. 1000 * conf[r] \in SizesOf(r)
      BY DEF SizesOf
    <2>8. Max(SizesOf(r)) \in Nat /\ Max(SizesOf(r)) >= 1000 * conf[r]
      <3> DEFINE S == SizesOf(r)
      <3>1. S \in SUBSET Nat /\ IsFiniteSet(S) /\ S # {}
        BY <2>1, SizesType
      <3> HIDE DEF S
      <3>2. Max(S) \in S /\ \A x \in S : Max(S) >= x
        BY <3>1, MaxType
      <3> QED
        BY <2>7, <3>1, <3>2 DEF S
    <2>9. ex \in Nat /\ conf[r] \in Nat
      BY <2>1, WebhookAssumption DEF IsContainer
    <2> HIDE DEF ex
    <2>10. c.limit >= 1000 * (ex + conf[r])
      BY <2>6, <2>8, <2>9
    <2> QED
      BY <2>10 DEF ex
  <1> QED
    BY <1>1, UpdateInvariance, PTL

-----------------------------------------------------------------------------
(* Validity.                                                               *)

NamesOnce(p) == \A i, j \in Indices(p) : p.containers[i].name = p.containers[j].name => i = j
VolumesOnce(p) ==
  \A i, j \in 1 .. Len(p.volumes) : p.volumes[i].name = p.volumes[j].name => i = j
HasVolume(p, name) == \E v \in Range(p.volumes) : v.name = name
LimitOK(c) == c.limit # 0 => c.cpuRequest <= c.limit
LimitsOK(p) == \A c \in Containers(p) : LimitOK(c)

SubmittedPins == \E d \in Containers(submitted) : Needs(d)

(* The volumes of the webhook are all there or none is.                    *)
VolumesOK(p) ==
  /\ VolumesOnce(p) /\ Range(submitted.volumes) \subseteq Range(p.volumes)
  /\ submitted.volumes # <<>> \/ ~SubmittedPins
  /\ \/ p.volumes = submitted.volumes
     \/ /\ SubmittedPins /\ HasVolume(p, Podinfo) /\ HasVolume(p, Hostbin)
        /\ \A c \in Containers(submitted) : HasVolume(p, CpuVolume(c))

(* The Pod that is created, before and after the first call, and before    *)
(* the second.                                                             *)
CreatedOK ==
  op = "CREATE" =>
    /\ phase = "call" /\ calls = 0 => pod = submitted
    /\ phase = "mutated" /\ calls = 1 =>
         /\ Indices(pod) = Indices(submitted) /\ VolumesOK(pod)
         /\ \A i \in Indices(pod) : pod.containers[i].name = submitted.containers[i].name
    /\ phase = "call" /\ calls = 1 => NamesOnce(pod) /\ VolumesOK(pod)

ValidOK ==
  /\ phase # "idle" => LimitsOK(pod) /\ (op = "UPDATE" => stored # NoPod)
  /\ stored # NoPod => Valid(stored)

VInv == IInv /\ CreatedOK /\ ValidOK /\ PatchedIsValid

MountsOK(p) ==
  \A c \in Containers(p) : IsInjective(c.mounts) /\ \A m \in Range(c.mounts) : HasVolume(p, m)

LEMMA ValidParts ==
  ASSUME NEW p, IsPod(p)
  PROVE  Valid(p) <=> NamesOnce(p) /\ VolumesOnce(p) /\ MountsOK(p) /\ LimitsOK(p)
  <1>1. /\ \A k \in 1 .. Len(p.volumes) : p.volumes[k] \in Range(p.volumes)
        /\ \A v \in Range(p.volumes) : \E k \in 1 .. Len(p.volumes) : p.volumes[k] = v
    BY SeqIndex DEF IsPod, IsSequence
  <1>2. \A m : HasVolume(p, m) <=> \E k \in 1 .. Len(p.volumes) : p.volumes[k].name = m
    BY <1>1 DEF HasVolume
  <1>3. /\ \A i \in Indices(p) : p.containers[i] \in Containers(p)
        /\ \A c \in Containers(p) : \E i \in Indices(p) : p.containers[i] = c
    BY PodSeqs
  <1>4. Valid(p) <=>
          /\ NamesOnce(p) /\ VolumesOnce(p)
          /\ \A i \in Indices(p) :
               /\ IsInjective(p.containers[i].mounts)
               /\ \A m \in Range(p.containers[i].mounts) : HasVolume(p, m)
               /\ LimitOK(p.containers[i])
    BY <1>2 DEF Valid, NamesOnce, VolumesOnce, LimitOK
  <1> QED
    BY <1>3, <1>4 DEF MountsOK, LimitsOK

(* What a container needs to be valid in the Pod the user wrote.           *)
Fine(o) ==
  IsInjective(o.mounts) /\ (\A m \in Range(o.mounts) : HasVolume(submitted, m)) /\ LimitOK(o)

LEMMA SubmittedPinned ==
  ASSUME submitted \in Templates
  PROVE  SubmittedPins <=> Pinned(submitted) # {}
  <1>1. IsPod(submitted)
    BY WebhookAssumption
  <1> QED
    BY <1>1, PodSeqs DEF SubmittedPins, Pinned, Needs

LEMMA OriginsFine ==
  ASSUME PodsValid, submitted \in Templates
  PROVE  /\ NamesOnce(submitted) /\ VolumesOnce(submitted)
         /\ \A o \in Containers(submitted) : Fine(o)
         /\ submitted.volumes # <<>> \/ ~SubmittedPins => \A s \in Sidecars : Fine(s)
  <1>1. IsPod(submitted) /\ Valid(submitted)
    BY WebhookAssumption DEF PodsValid
  <1>2. NamesOnce(submitted) /\ VolumesOnce(submitted) /\ MountsOK(submitted) /\ LimitsOK(submitted)
    BY <1>1, ValidParts
  <1>3. \A o \in Containers(submitted) : Fine(o)
    BY <1>2 DEF MountsOK, LimitsOK, Fine
  <1>4. ASSUME submitted.volumes # <<>> \/ ~SubmittedPins, NEW s \in Sidecars PROVE Fine(s)
    <2> DEFINE cs == Append(submitted.containers, s)
               d == Holding(submitted, cs)
    <2>1. Valid(d)
      <3>1. Valid([submitted EXCEPT !.containers = cs])
        BY <1>4, SubmittedPinned DEF PodsValid
      <3> QED
        BY <1>1, <3>1, HoldingExcept
    <2>2. IsSequence(cs) /\ Range(cs) = Range(submitted.containers) \cup {s}
      BY <1>1, AppendSeq DEF IsPod, IsSequence
    <2>3. \A c \in Range(cs) : IsContainer(c)
      BY <1>1, <2>2, WebhookAssumption DEF IsPod
    <2> HIDE DEF cs, d
    <2>4. IsPod(d) /\ d.containers = cs /\ d.volumes = submitted.volumes
      BY <1>1, <2>2, <2>3, HoldingPod DEF d
    <2>5. MountsOK(d) /\ LimitsOK(d) /\ s \in Containers(d)
      BY <2>1, <2>2, <2>4, ValidParts DEF Containers
    <2> QED
      BY <2>4, <2>5 DEF MountsOK, LimitsOK, Fine, HasVolume
  <1> QED
    BY <1>2, <1>3, <1>4

(* Neither the mounts nor the volumes of the webhook clash.                *)
LEMMA PlainNames ==
  /\ Podinfo # Hostbin
  /\ \A c : CpuVolume(c) # Podinfo /\ CpuVolume(c) # Hostbin
  /\ \A c, d : CpuVolume(c) = CpuVolume(d) => c.name = d.name
  <1>1. Podinfo # Hostbin
    <2>1. Podinfo[1] = "podinfo" /\ Hostbin[1] = "hostbin"
      BY DEF Podinfo, Hostbin
    <2> QED
      BY <2>1
  <1>2. ASSUME NEW c PROVE CpuVolume(c) # Podinfo /\ CpuVolume(c) # Hostbin
    <2>1. Len(<<"podinfo">>) = 1 /\ Len(<<"hostbin">>) = 1 /\ Len(<<"cpu", c.name>>) = 2
      OBVIOUS
    <2>2. <<"cpu", c.name>> # <<"podinfo">> /\ <<"cpu", c.name>> # <<"hostbin">>
      BY <2>1
    <2> QED
      BY <2>2 DEF CpuVolume, Podinfo, Hostbin
  <1>3. \A c, d : CpuVolume(c) = CpuVolume(d) => c.name = d.name
    BY DEF CpuVolume
  <1> QED
    BY <1>1, <1>2, <1>3

(* IsInjective, for a sequence.                                            *)
Distinct(s) == \A i, j \in 1 .. Len(s) : s[i] = s[j] => i = j

LEMMA InjectiveDistinct ==
  ASSUME NEW s, IsSequence(s)
  PROVE  IsInjective(s) <=> Distinct(s)
  <1>1. DOMAIN s = 1 .. Len(s)
    BY SeqIndex DEF IsSequence
  <1> QED
    BY <1>1 DEF IsInjective, Distinct

LEMMA AppendDistinct ==
  ASSUME NEW s, IsSequence(s), Distinct(s), NEW e, e \notin Range(s)
  PROVE  Distinct(Append(s, e))
  <1> DEFINE x == Append(s, e)
  <1>1. /\ Len(s) \in Nat /\ Len(x) = Len(s) + 1
        /\ \A i \in 1 .. Len(s) : x[i] = s[i]
        /\ x[Len(s) + 1] = e
    BY AppendSeq DEF IsSequence
  <1>2. \A i \in 1 .. Len(s) : s[i] \in Range(s)
    BY SeqIndex DEF IsSequence
  <1> HIDE DEF x
  <1>3. \A i \in 1 .. Len(x) : i \in 1 .. Len(s) \/ i = Len(s) + 1
    BY <1>1
  <1>4. \A i, j \in 1 .. Len(x) : x[i] = x[j] => i = j
    BY <1>1, <1>2, <1>3 DEF Distinct
  <1> QED
    BY <1>4 DEF Distinct, x

LEMMA ThreeMountsDistinct ==
  ASSUME NEW o, Reserved(o), Distinct(o.mounts)
  PROVE  Distinct(ThreeMounts(o.mounts, o))
  <1> DEFINE m == o.mounts
             m1 == Append(m, Podinfo)
             m2 == Append(m1, Hostbin)
             m3 == Append(m2, CpuVolume(o))
  <1>1. IsSequence(m) /\ Podinfo \notin Range(m) /\ Hostbin \notin Range(m)
        /\ CpuVolume(o) \notin Range(m)
    BY DEF Reserved, IsContainer
  <1> HIDE DEF m
  <1>2. IsSequence(m1) /\ Range(m1) = Range(m) \cup {Podinfo}
    BY <1>1, AppendSeq DEF IsSequence
  <1>3. Distinct(m1)
    BY <1>1, AppendDistinct DEF m
  <1> HIDE DEF m1
  <1>4. IsSequence(m2) /\ Range(m2) = Range(m1) \cup {Hostbin}
    BY <1>2, AppendSeq DEF IsSequence
  <1>5. Hostbin \notin Range(m1)
    BY <1>1, <1>2, PlainNames
  <1>6. Distinct(m2)
    BY <1>2, <1>3, <1>5, AppendDistinct
  <1> HIDE DEF m2
  <1>7. CpuVolume(o) \notin Range(m2)
    BY <1>1, <1>2, <1>4, PlainNames
  <1>8. Distinct(m3)
    BY <1>4, <1>6, <1>7, AppendDistinct
  <1> QED
    BY <1>8 DEF ThreeMounts, m, m1, m2

NamesApart(v) == \A i, j \in 1 .. Len(v) : v[i].name = v[j].name => i = j

LEMMA ConcatNames ==
  ASSUME NEW u, IsSequence(u), NamesApart(u), NEW v, IsSequence(v), NamesApart(v),
         \A a \in Range(u), b \in Range(v) : a.name # b.name
  PROVE  NamesApart(u \o v)
  <1> DEFINE x == u \o v
  <1>1. /\ Len(u) \in Nat /\ Len(v) \in Nat /\ Len(x) = Len(u) + Len(v)
        /\ \A i \in 1 .. Len(u) : x[i] = u[i]
        /\ \A i \in 1 .. Len(v) : x[Len(u) + i] = v[i]
    BY ConcatSeq DEF IsSequence
  <1>2. /\ \A i \in 1 .. Len(u) : u[i] \in Range(u)
        /\ \A i \in 1 .. Len(v) : v[i] \in Range(v)
    BY SeqIndex DEF IsSequence
  <1> HIDE DEF x
  <1>3. ASSUME NEW i \in 1 .. Len(x)
        PROVE  i \in 1 .. Len(u) \/ \E k \in 1 .. Len(v) : i = Len(u) + k
    <2>1. CASE i > Len(u)
      <3>1. i - Len(u) \in 1 .. Len(v) /\ i = Len(u) + (i - Len(u))
        BY <1>1, <2>1
      <3> QED
        BY <3>1
    <2> QED
      BY <1>1, <2>1
  <1>4. ASSUME NEW i \in 1 .. Len(x), NEW j \in 1 .. Len(x), x[i].name = x[j].name PROVE i = j
    <2>1. CASE i \in 1 .. Len(u) /\ j \in 1 .. Len(u)
      BY <1>1, <1>4, <2>1 DEF NamesApart
    <2>2. CASE i \notin 1 .. Len(u) /\ j \notin 1 .. Len(u)
      <3>1. PICK k \in 1 .. Len(v) : i = Len(u) + k
        BY <1>3, <2>2
      <3>2. PICK l \in 1 .. Len(v) : j = Len(u) + l
        BY <1>3, <2>2
      <3>3. v[k].name = v[l].name
        BY <1>1, <1>4, <3>1, <3>2
      <3> QED
        BY <3>1, <3>2, <3>3 DEF NamesApart
    <2>3. CASE i \in 1 .. Len(u) /\ j \notin 1 .. Len(u)
      <3>1. PICK l \in 1 .. Len(v) : j = Len(u) + l
        BY <1>3, <2>3
      <3>2. x[i] \in Range(u) /\ x[j] \in Range(v)
        BY <1>1, <1>2, <2>3, <3>1
      <3> QED
        BY <1>4, <3>2
    <2>4. CASE i \notin 1 .. Len(u) /\ j \in 1 .. Len(u)
      <3>1. PICK l \in 1 .. Len(v) : i = Len(u) + l
        BY <1>3, <2>4
      <3>2. x[j] \in Range(u) /\ x[i] \in Range(v)
        BY <1>1, <1>2, <2>4, <3>1
      <3> QED
        BY <1>4, <3>2
    <2> QED
      BY <2>1, <2>2, <2>3, <2>4
  <1> QED
    BY <1>4 DEF NamesApart, x

LEMMA PinningVolumesApart ==
  ASSUME NEW p, IsPod(p), NamesOnce(p)
  PROVE  NamesApart(PinningVolumes(p))
  <1> DEFINE A == Volume(Podinfo, <<>>)
             B == Volume(Hostbin, <<>>)
             u == <<A, B>>
             f == [i \in Indices(p) |-> Volume(CpuVolume(p.containers[i]), CpuDir(p, p.containers[i]))]
  <1>1. PinningVolumes(p) = u \o f
    BY DEF PinningVolumes
  <1>2. A.name = Podinfo /\ B.name = Hostbin
    BY DEF Volume
  <1>3. \A i \in Indices(p) : f[i].name = CpuVolume(p.containers[i])
    BY DEF Volume
  <1>4. f \in Seq(Range(f)) /\ Len(f) = Len(p.containers)
    <2>1. f = [i \in 1 .. Len(p.containers) |-> f[i]]
      BY DEF Indices
    <2>2. Len(p.containers) \in Nat
      BY PodSeqs
    <2> HIDE DEF f
    <2> QED
      BY <2>1, <2>2, FunctionSeq
  <1>5. NamesApart(f)
    <2>1. 1 .. Len(f) = Indices(p)
      BY <1>4 DEF Indices
    <2> HIDE DEF f
    <2> QED
      BY <1>3, <2>1, PlainNames DEF NamesApart, NamesOnce
  <1>6. \A b \in Range(f) : b.name # Podinfo /\ b.name # Hostbin
    <2>1. \A b \in Range(f) : \E i \in Indices(p) : b = f[i]
      <3>1. DOMAIN f = Indices(p)
        OBVIOUS
      <3> HIDE DEF f
      <3> QED
        BY <3>1 DEF Range
    <2> HIDE DEF f
    <2> QED
      BY <1>3, <2>1, PlainNames
  <1> HIDE DEF A, B, f
  <1>7. u \in Seq({A, B}) /\ DOMAIN u = 1 .. 2 /\ Len(u) = 2 /\ u[1] = A /\ u[2] = B
    OBVIOUS
  <1> HIDE DEF u
  <1>8. \A i \in 1 .. 2 : i = 1 \/ i = 2
    OBVIOUS
  <1>9. u \in Seq(Range(u)) /\ Range(u) \subseteq {A, B}
    BY <1>7, StringsSeq
  <1>10. NamesApart(u)
    BY <1>2, <1>7, <1>8, PlainNames DEF NamesApart
  <1>11. \A a \in Range(u), b \in Range(f) : a.name # b.name
    BY <1>2, <1>6, <1>9
  <1>12. NamesApart(u \o f)
    BY <1>4, <1>5, <1>9, <1>10, <1>11, ConcatNames DEF IsSequence
  <1> QED
    BY <1>1, <1>12

LEMMA ServeLimitsOK ==
  ASSUME configs \in ConfigSets, NEW p, IsPod(p), LimitsOK(p), NEW readable,
         NEW d \in MutatePods(p, readable), d # NoPod
  PROVE  LimitsOK(d) /\ \A i \in Indices(p) : d.containers[i].name = p.containers[i].name
  <1>1. PICK limits : /\ \A i \in Indices(p) : limits[i] \in Nat
                      /\ d = PatchedPod(p, limits)
    BY MutatedPod
  <1>2. /\ IsPod(d) /\ Indices(d) = Indices(p)
        /\ \A i \in Indices(p) : /\ d.containers[i] = PatchContainer(p, p.containers[i], limits[i])
                                  /\ d.containers[i] # NoPod
    BY <1>1, PatchedPodEffect
  <1>3. ASSUME NEW i \in Indices(p)
        PROVE  LimitOK(d.containers[i]) /\ d.containers[i].name = p.containers[i].name
    <2> DEFINE c == p.containers[i]
               x == d.containers[i]
               limit == limits[i]
               l == IF limit = 0 THEN c.limit ELSE limit
               q == IF limit = 0 THEN c.cpuRequest ELSE 0
               cmd == IF PinsNow(p, c) THEN Starter ELSE c.command
               a == IF PinsNow(p, c) THEN MovedArgs(c, ContainerExists(p, c)) ELSE c.args
               m == IF PinsNow(p, c) THEN ThreeMounts(c.mounts, c) ELSE c.mounts
               e == PatchedEnv(p, c)
    <2>1. c \in Containers(p) /\ IsContainer(c) /\ limit \in Nat
      BY <1>1, PodSeqs
    <2>2. x = PatchContainer(p, c, limit) /\ x # NoPod
      BY <1>2
    <2>3. x = Con(c.name, c.requests, l, q, cmd, a, e, m)
      BY <2>1, <2>2, PatchEffect, Zenon
    <2>4. LimitOK(c)
      BY <2>1 DEF LimitsOK
    <2> HIDE DEF l, q, cmd, a, m, e, c, x, limit
    <2>5. x.limit = l /\ x.cpuRequest = q /\ x.name = c.name
      BY <2>3, ConFields
    <2>6. LimitOK(x)
      BY <2>1, <2>4, <2>5 DEF LimitOK, l, q
    <2> QED
      BY <2>5, <2>6 DEF x, c
  <1>4. \A c \in Containers(d) : \E i \in Indices(p) : d.containers[i] = c
    BY <1>2, PodSeqs
  <1> QED
    BY <1>3, <1>4 DEF LimitsOK

LEMMA ServeVolumes ==
  ASSUME UniqueNames, NamesReserved, submitted \in Templates, configs \in ConfigSets,
         NEW p, IsPod(p), Unchanged(p), SeenIn(p), NamesOnce(p), VolumesOK(p), NEW readable,
         NEW d \in MutatePods(p, readable), d # NoPod
  PROVE  /\ VolumesOnce(d) /\ Range(p.volumes) \subseteq Range(d.volumes)
         /\ Pinned(p) = {} => d.volumes = p.volumes
         /\ Pinned(p) # {} =>
              \/ Range(d.volumes) = Range(p.volumes) \cup Range(PinningVolumes(p))
              \/ d.volumes = p.volumes /\ p.volumes # submitted.volumes
  <1>1. d.volumes = PatchedVolumes(p) /\ d.volumes # NoPod
    BY ServeDone, ServeAt
  <1>2. CASE Pinned(p) = {}
    BY <1>1, <1>2 DEF PatchedVolumes, VolumesOK, VolumesOnce
  <1>3. CASE Pinned(p) # {}
    <2> DEFINE has == \E k \in 1 .. Len(p.volumes) : p.volumes[k].name \in {Hostbin, Podinfo}
    <2>1. IsSequence(p.volumes) /\ IsSequence(PinningVolumes(p))
      BY PinningVolumesOf DEF IsPod
    <2>2. /\ \A k \in 1 .. Len(p.volumes) : p.volumes[k] \in Range(p.volumes)
          /\ \A v \in Range(p.volumes) : \E k \in 1 .. Len(p.volumes) : p.volumes[k] = v
      BY <2>1, SeqIndex DEF IsSequence
    <2>3. has <=> (HasVolume(p, Podinfo) \/ HasVolume(p, Hostbin))
      BY <2>2 DEF HasVolume
    <2>4. CASE has
      <3>1. d.volumes = p.volumes
        BY <1>1, <1>3, <2>4 DEF PatchedVolumes, PatchVolumesForPinning
      <3>2. PICK i \in Indices(p) : TRUE
        BY <1>3 DEF Pinned
      <3>3. \E o \in Origins : TRUE
        BY <3>2, PodSeqs DEF SeenIn
      <3>4. ~HasVolume(submitted, Podinfo) /\ ~HasVolume(submitted, Hostbin)
        BY <3>3, OriginFacts DEF HasVolume
      <3>5. p.volumes # submitted.volumes
        BY <2>3, <2>4, <3>4 DEF HasVolume
      <3> QED
        BY <3>1, <3>5 DEF VolumesOK, VolumesOnce
    <2>5. CASE ~has
      <3>1. d.volumes = p.volumes \o PinningVolumes(p)
        BY <1>1, <1>3, <2>5 DEF PatchedVolumes, PatchVolumesForPinning
      <3>2. Range(d.volumes) = Range(p.volumes) \cup Range(PinningVolumes(p))
        BY <2>1, <3>1, ConcatSeq DEF IsSequence
      <3>3. p.volumes = submitted.volumes
        BY <2>3, <2>5 DEF VolumesOK
      <3>4. NamesApart(p.volumes) /\ NamesApart(PinningVolumes(p))
        BY PinningVolumesApart DEF VolumesOK, VolumesOnce, NamesApart
      <3>5. ASSUME NEW a \in Range(p.volumes), NEW b \in Range(PinningVolumes(p))
            PROVE  a.name # b.name
        <4>1. PICK i \in Indices(p) : TRUE
          BY <1>3 DEF Pinned
        <4>2. PICK o1 \in Origins : TRUE
          BY <4>1, PodSeqs DEF SeenIn
        <4>3. a.name # Podinfo /\ a.name # Hostbin
          BY <3>3, <4>2, OriginFacts
        <4>4. ASSUME NEW c \in Containers(p), b = Volume(CpuVolume(c), CpuDir(p, c))
              PROVE  a.name # b.name
          <5>1. b.name = CpuVolume(c)
            BY <4>4 DEF Volume
          <5>2. PICK o \in Origins : c = o \/ Done(o, c)
            BY DEF SeenIn
          <5>3. CpuVolume(c) = CpuVolume(o)
            BY <5>2 DEF Done, CpuVolume
          <5>4. a.name # CpuVolume(o)
            BY <3>3, OriginFacts
          <5> QED
            BY <5>1, <5>3, <5>4
        <4> QED
          BY <4>3, <4>4, PinningVolumesOf
      <3>6. NamesApart(p.volumes \o PinningVolumes(p))
        BY <2>1, <3>4, <3>5, ConcatNames
      <3>7. VolumesOnce(d)
        BY <3>1, <3>6 DEF VolumesOnce, NamesApart
      <3> QED
        BY <1>3, <3>2, <3>7
    <2> QED
      BY <2>4, <2>5
  <1> QED
    BY <1>2, <1>3

(* A Pod that needs pinning got through its first call: it has volumes.    *)
LEMMA SubmittedVolumes ==
  ASSUME PodsValid, submitted \in Templates, configs \in ConfigSets, NEW readable,
         NEW d \in MutatePods(submitted, readable), d # NoPod
  PROVE  VolumesOK(submitted)
  <1>1. IsPod(submitted)
    BY WebhookAssumption
  <1>2. PICK limits : /\ \A i \in Indices(submitted) : limits[i] \in Nat
                      /\ d = PatchedPod(submitted, limits)
    BY <1>1, MutatedPod
  <1>3. d.volumes = PatchedVolumes(submitted) /\ d.volumes # NoPod
    BY <1>1, <1>2, PatchedPodEffect
  <1>4. submitted.volumes # <<>> \/ ~SubmittedPins
    <2> SUFFICES ASSUME submitted.volumes = <<>>, SubmittedPins PROVE FALSE
      OBVIOUS
    <2>1. Pinned(submitted) # {}
      BY SubmittedPinned
    <2>2. ~\E k \in 1 .. Len(submitted.volumes) : submitted.volumes[k].name \in {Hostbin, Podinfo}
      OBVIOUS
    <2> QED
      BY <1>3, <2>1, <2>2 DEF PatchedVolumes, PatchVolumesForPinning
  <1>5. VolumesOnce(submitted)
    BY OriginsFine
  <1> QED
    BY <1>4, <1>5 DEF VolumesOK

LEMMA FirstVolumes ==
  ASSUME UniqueNames, NamesReserved, PodsValid, submitted \in Templates, configs \in ConfigSets,
         NEW readable, NEW d \in MutatePods(submitted, readable), d # NoPod
  PROVE  VolumesOK(d)
  <1> DEFINE p == submitted
  <1>1. IsPod(p) /\ Unchanged(p) /\ SeenIn(p) /\ NamesOnce(p) /\ VolumesOK(p)
    BY WebhookAssumption, OriginsFine, SubmittedVolumes DEF Unchanged, SeenIn, Origins
  <1>2. /\ VolumesOnce(d) /\ Range(p.volumes) \subseteq Range(d.volumes)
        /\ Pinned(p) = {} => d.volumes = p.volumes
        /\ Pinned(p) # {} => Range(d.volumes) = Range(p.volumes) \cup Range(PinningVolumes(p))
    BY <1>1, ServeVolumes
  <1>3. CASE Pinned(p) = {}
    BY <1>1, <1>2, <1>3 DEF VolumesOK
  <1>4. CASE Pinned(p) # {}
    <2>1. SubmittedPins
      BY <1>4, SubmittedPinned
    <2>2. \A v \in Range(PinningVolumes(p)) : HasVolume(d, v.name)
      BY <1>2, <1>4 DEF HasVolume
    <2>3. \A n, dir : Volume(n, dir).name = n
      BY DEF Volume
    <2>4. /\ HasVolume(d, Podinfo) /\ HasVolume(d, Hostbin)
          /\ \A c \in Containers(p) : HasVolume(d, CpuVolume(c))
      BY <1>1, <2>2, <2>3, PinningVolumesOf
    <2> QED
      BY <1>1, <1>2, <2>1, <2>4 DEF VolumesOK
  <1> QED
    BY <1>3, <1>4

(* An injected container that needs pinning, next to one pinned before.    *)
Stranded(d) ==
  \E s \in Sidecars : Needs(s) /\ SubmittedPins /\ \E c \in Containers(d) : c.name = s.name

LEMMA ServeMounts ==
  ASSUME UniqueNames, NamesReserved, PodsValid, submitted \in Templates, configs \in ConfigSets,
         NEW p, IsPod(p), Unchanged(p), SeenIn(p), NamesOnce(p), VolumesOK(p), NEW readable,
         NEW d \in MutatePods(p, readable), d # NoPod, ~Stranded(d)
  PROVE  MountsOK(d)
  <1>1. /\ IsPod(d) /\ Indices(d) = Indices(p)
        /\ \A i \in Indices(p) :
             \E o \in Origins : (p.containers[i] = o \/ Done(o, p.containers[i]))
                                /\ Done(o, d.containers[i])
    BY ServeAt
  <1>2. /\ Range(p.volumes) \subseteq Range(d.volumes)
        /\ Pinned(p) # {} =>
             \/ Range(d.volumes) = Range(p.volumes) \cup Range(PinningVolumes(p))
             \/ d.volumes = p.volumes /\ p.volumes # submitted.volumes
    BY ServeVolumes
  <1>3. \A n : HasVolume(submitted, n) => HasVolume(d, n)
    BY <1>2 DEF VolumesOK, HasVolume
  <1> SUFFICES ASSUME NEW c \in Containers(d)
               PROVE  IsInjective(c.mounts) /\ \A m \in Range(c.mounts) : HasVolume(d, m)
    BY DEF MountsOK
  <1>4. PICK i \in Indices(p) : d.containers[i] = c
    BY <1>1, PodSeqs
  <1> DEFINE b == p.containers[i]
  <1>5. PICK o \in Origins : (b = o \/ Done(o, b)) /\ Done(o, c)
    BY <1>1, <1>4
  <1>6. b \in Containers(p)
    BY PodSeqs
  <1> HIDE DEF b
  <1>7. Fine(o)
    BY OriginsFine DEF VolumesOK, Origins
  <1>8. Reserved(o) /\ IsSequence(o.mounts)
    BY OriginFacts DEF Reserved, IsContainer
  <1>9. CASE ~Needs(o)
    <2>1. c.mounts = o.mounts
      BY <1>5, <1>9 DEF Done, DoneEntry
    <2> QED
      BY <1>3, <1>7, <2>1 DEF Fine
  <1>10. CASE Needs(o)
    <2>1. c.mounts = ThreeMounts(o.mounts, o)
      BY <1>5, <1>10 DEF Done, DoneEntry
    <2>2. /\ IsSequence(c.mounts)
          /\ Range(c.mounts) = Range(o.mounts) \cup {Podinfo, Hostbin, CpuVolume(o)}
      BY <1>8, <2>1, ThreeMountsOf
    <2>3. Distinct(c.mounts)
      BY <1>7, <1>8, <2>1, InjectiveDistinct, ThreeMountsDistinct DEF Fine
    <2>4. IsInjective(c.mounts)
      BY <2>2, <2>3, InjectiveDistinct
    <2>5. Pinned(p) # {}
      <3>1. PinningPatchNeeded(p, b)
        <4>1. CASE b = o
          BY <1>10, <4>1 DEF PinningPatchNeeded, Needs, ContainerExists, Unchanged
        <4>2. CASE Done(o, b)
          BY <1>10, <4>2, NeedsStays DEF Unchanged
        <4> QED
          BY <1>5, <4>1, <4>2
      <3> QED
        BY <3>1 DEF Pinned, b
    <2>6. CpuVolume(b) = CpuVolume(o)
      BY <1>5 DEF CpuVolume, Done
    <2>7. HasVolume(d, Podinfo) /\ HasVolume(d, Hostbin) /\ HasVolume(d, CpuVolume(o))
      <3>1. CASE Range(d.volumes) = Range(p.volumes) \cup Range(PinningVolumes(p))
        <4>1. \A v \in Range(PinningVolumes(p)) : HasVolume(d, v.name)
          BY <3>1 DEF HasVolume
        <4>2. \A n, dir : Volume(n, dir).name = n
          BY DEF Volume
        <4> QED
          BY <1>6, <2>6, <4>1, <4>2, PinningVolumesOf
      <3>2. CASE d.volumes = p.volumes /\ p.volumes # submitted.volumes
        <4>1. /\ SubmittedPins /\ HasVolume(d, Podinfo) /\ HasVolume(d, Hostbin)
              /\ \A x \in Containers(submitted) : HasVolume(d, CpuVolume(x))
          BY <3>2 DEF VolumesOK, HasVolume
        <4>2. c.name = o.name
          BY <1>5 DEF Done
        <4>3. o \in Containers(submitted)
          BY <1>10, <4>1, <4>2 DEF Stranded, Origins
        <4> QED
          BY <4>1, <4>3
      <3> QED
        BY <1>2, <2>5, <3>1, <3>2
    <2>8. \A m \in Range(c.mounts) : HasVolume(d, m)
      BY <1>3, <1>7, <2>2, <2>7 DEF Fine
    <2> QED
      BY <2>4, <2>8
  <1> QED
    BY <1>9, <1>10

LEMMA ServeValid ==
  ASSUME UniqueNames, NamesReserved, PodsValid, submitted \in Templates, configs \in ConfigSets,
         NEW p, IsPod(p), Unchanged(p), SeenIn(p), NamesOnce(p), VolumesOK(p), LimitsOK(p),
         NEW readable, NEW d \in MutatePods(p, readable), d # NoPod
  PROVE  Valid(d) \/ Stranded(d)
  <1>1. IsPod(d) /\ Indices(d) = Indices(p)
    BY ServeAt
  <1>2. LimitsOK(d) /\ NamesOnce(d)
    BY <1>1, ServeLimitsOK DEF NamesOnce
  <1>3. VolumesOnce(d)
    BY ServeVolumes
  <1> QED
    BY <1>1, <1>2, <1>3, ServeMounts, ValidParts

(* A call for an update keeps the Pod valid.                               *)
LEMMA UpdateValid ==
  ASSUME UniqueNames, NamesReserved, submitted \in Templates, configs \in ConfigSets,
         NEW p, IsPod(p), Unchanged(p), DoneIn(p), MountsFound(p), Valid(p),
         NEW readable, NEW d \in MutatePods(p, readable), d # NoPod
  PROVE  Valid(d)
  <1>1. SeenIn(p) /\ p.processes = submitted.processes
    BY DEF SeenIn, DoneIn, Unchanged
  <1>2. IsPod(d) /\ Indices(d) = Indices(p)
    BY <1>1, ServeAt
  <1>3. d.volumes = p.volumes
    BY <1>1, ServeDone, UpdateVolumes
  <1>4. NamesOnce(p) /\ VolumesOnce(p) /\ MountsOK(p) /\ LimitsOK(p)
    BY ValidParts
  <1>5. LimitsOK(d) /\ NamesOnce(d) /\ VolumesOnce(d)
    BY <1>2, <1>3, <1>4, ServeLimitsOK DEF NamesOnce, VolumesOnce
  <1>6. MountsOK(d)
    <2> SUFFICES ASSUME NEW x \in Containers(d)
                 PROVE  IsInjective(x.mounts) /\ \A m \in Range(x.mounts) : HasVolume(d, m)
      BY DEF MountsOK
    <2>1. PICK i \in Indices(p) : d.containers[i] = x
      BY <1>2, PodSeqs
    <2> DEFINE c == p.containers[i]
    <2>2. PICK limit : x = PatchContainer(p, c, limit) /\ x # NoPod
      BY <1>1, <2>1, ServeAt
    <2>3. c \in Containers(p) /\ IsContainer(c)
      BY PodSeqs
    <2> HIDE DEF c
    <2>4. PICK o \in Origins : Done(o, c)
      BY <2>3 DEF DoneIn
    <2>5. IsContainer(o)
      BY OriginFacts DEF Reserved
    <2> DEFINE l == IF limit = 0 THEN c.limit ELSE limit
               q == IF limit = 0 THEN c.cpuRequest ELSE 0
    <2>6. x = Con(c.name, c.requests, l, q, c.command, c.args, c.env, c.mounts)
      BY <1>1, <2>2, <2>3, <2>4, <2>5, DoneStays, Zenon
    <2> HIDE DEF l, q
    <2>7. x.mounts = c.mounts
      BY <2>6, ConFields
    <2> QED
      BY <1>3, <1>4, <2>3, <2>7 DEF MountsOK, HasVolume
  <1> QED
    BY <1>2, <1>5, <1>6, ValidParts

(* Whatever other plugins do, containers keep names of their own.          *)
LEMMA InjectedNames ==
  ASSUME UniqueNames, submitted \in Templates, IsPod(pod), OtherPlugins,
         Indices(pod) = Indices(submitted),
         \A i \in Indices(pod) : pod.containers[i].name = submitted.containers[i].name
  PROVE  NamesOnce(pod')
  <1> DEFINE cs == pod.containers
             old == submitted.containers
             Apart(xs) == \A i, j \in 1 .. Len(xs) : xs[i].name = xs[j].name => i = j
  <1>1. /\ cs \in Seq(Range(cs)) /\ Len(cs) \in Nat /\ DOMAIN cs = 1 .. Len(cs)
        /\ \A i \in 1 .. Len(cs) : IsContainer(cs[i])
    BY PodSeqs DEF IsPod, IsSequence, Indices
  <1>2. Apart(cs)
    BY DEF UniqueNames, Indices
  <1>3. \A s \in Sidecars : \A i \in 1 .. Len(cs) : s.name # cs[i].name
    <2>1. IsPod(submitted)
      BY WebhookAssumption
    <2>2. \A i \in Indices(submitted) : old[i] \in Containers(submitted)
      BY <2>1, PodSeqs
    <2> QED
      BY <2>2 DEF UniqueNames, Indices
  <1> HIDE DEF cs, old
  <1>4. ASSUME NEW xs, pod' = Holding(pod, xs), Apart(xs) PROVE NamesOnce(pod')
    <2>1. pod'.containers = xs
      BY <1>4 DEF Holding, PodRec
    <2> QED
      BY <1>4, <2>1 DEF NamesOnce, Indices
  <1>5. ASSUME NEW i \in 1 .. Len(cs) PROVE Apart(OneChanged(cs, i))
    <2> DEFINE xs == OneChanged(cs, i)
    <2>1. xs = [j \in 1 .. Len(cs) |-> IF j = i THEN WithOther(cs[i]) ELSE cs[j]]
      BY <1>1 DEF OneChanged
    <2>2. Len(xs) = Len(cs)
      <3>1. xs = [j \in 1 .. Len(cs) |-> xs[j]]
        BY <2>1
      <3> HIDE DEF xs
      <3> QED
        BY <1>1, <3>1, FunctionSeq
    <2>3. WithOther(cs[i]).name = cs[i].name
      BY ConFields DEF WithOther
    <2>4. \A j \in 1 .. Len(cs) : xs[j].name = cs[j].name
      BY <2>1, <2>3
    <2> HIDE DEF xs
    <2>5. Apart(xs)
      BY <1>2, <2>2, <2>4
    <2> QED
      BY <2>5 DEF xs
  <1>6. ASSUME NEW s \in Sidecars PROVE Apart(<<s>> \o cs) /\ Apart(Append(cs, s))
    <2> DEFINE t == <<s>>
    <2>1. t \in Seq(Range(t)) /\ Range(t) = {s} /\ Len(t) = 1
      BY SingletonSeq
    <2>2. NamesApart(t)
      BY <2>1 DEF NamesApart
    <2> HIDE DEF t
    <2>3. \A b \in Range(cs) : s.name # b.name
      BY <1>1, <1>3, SeqIndex
    <2>4. NamesApart(cs)
      BY <1>2 DEF NamesApart
    <2>5. NamesApart(t \o cs) /\ NamesApart(cs \o t)
      BY <1>1, <2>1, <2>2, <2>3, <2>4, ConcatNames DEF IsSequence
    <2>6. Append(cs, s) = cs \o t
      BY <1>1 DEF t
    <2> QED
      BY <2>5, <2>6 DEF NamesApart, t
  <1> HIDE DEF Apart
  <1> QED
    BY <1>4, <1>5, <1>6, OtherPluginsEffect DEF cs, Indices

LEMMA InjectedLimits ==
  ASSUME PodsValid, submitted \in Templates, IsPod(pod), OtherPlugins, VolumesOK(pod), LimitsOK(pod)
  PROVE  LimitsOK(pod')
  <1>1. \A c \in Containers(pod') : \/ c \in Sidecars \/ c \in Containers(pod)
                                    \/ \E b \in Containers(pod) : c = WithOther(b)
    BY OtherPluginsPod
  <1>2. \A s \in Sidecars : LimitOK(s)
    BY OriginsFine DEF VolumesOK, Fine
  <1>3. ASSUME NEW b \in Containers(pod) PROVE LimitOK(WithOther(b))
    <2> DEFINE x == WithOther(b)
               e == Append(b.env, EnvVar("OTHER", <<>>))
    <2>1. x = Con(b.name, b.requests, b.limit, b.cpuRequest, b.command, b.args, e, b.mounts)
      BY DEF WithOther
    <2> HIDE DEF x, e
    <2>2. x.limit = b.limit /\ x.cpuRequest = b.cpuRequest
      BY <2>1, ConFields
    <2>3. LimitOK(x)
      BY <2>2 DEF LimitsOK, LimitOK
    <2> QED
      BY <2>3 DEF x
  <1> QED
    BY <1>1, <1>2, <1>3 DEF LimitsOK

LEMMA SameVolumes ==
  ASSUME submitted' = submitted
  PROVE  /\ VolumesOK(pod)' <=> VolumesOK(pod')
         /\ NamesOnce(pod)' <=> NamesOnce(pod')
         /\ LimitsOK(pod)' <=> LimitsOK(pod')
  <1>1. \A o : Needs(o)' <=> Needs(o)
    BY DEF Needs
  <1>2. SubmittedPins' <=> SubmittedPins
    BY <1>1 DEF SubmittedPins
  <1> QED
    BY <1>2 DEF VolumesOK, NamesOnce, LimitsOK, VolumesOnce, HasVolume

LEMMA StrandedPins ==
  ASSUME UniqueNames, NamesReserved, submitted \in Templates, submitted' = submitted, Stranded(pod')
  PROVE  PatchedIsValid'
  <1>1. PICK s \in Sidecars : Needs(s) /\ SubmittedPins /\ \E c \in Containers(pod') : c.name = s.name
    BY DEF Stranded
  <1>2. PICK d \in Containers(submitted) : Needs(d)
    BY <1>1 DEF SubmittedPins
  <1>3. Origin(s) = s /\ Origin(d) = d
    BY OriginOf DEF Origins
  <1>4. ToPin(s)' /\ ToPin(d)'
    BY <1>1, <1>2, <1>3 DEF ToPin, Needs, Origin
  <1>5. s.name \in {x.name : x \in Containers(pod')}
    BY <1>1
  <1> QED
    BY <1>4, <1>5 DEF PatchedIsValid

LEMMA VInvInit == Init => VInv
  BY IInvInit DEF Init, VInv, CreatedOK, ValidOK, PatchedIsValid

LEMMA VInvNext ==
  ASSUME UniqueNames, NamesReserved, PodsValid
  PROVE  VInv /\ [Next]_vars => VInv'
  <1> SUFFICES ASSUME VInv, [Next]_vars PROVE VInv'
    OBVIOUS
  <1>1. IInv /\ CreatedOK /\ ValidOK /\ PatchedIsValid
    BY DEF VInv
  <1>2. IInv'
    BY <1>1, IInvNext
  <1> SUFFICES CreatedOK' /\ ValidOK' /\ PatchedIsValid'
    BY <1>2 DEF VInv
  <1>3. TInv /\ ReviewedOK /\ StoredOK
    BY <1>1 DEF IInv
  <1>4. ASSUME UNCHANGED <<phase, op, pod, calls, submitted, stored>>
        PROVE  CreatedOK' /\ ValidOK' /\ PatchedIsValid'
    <2>1. CreatedOK'
      <3>1. VolumesOK(pod)' <=> VolumesOK(pod)
        BY <1>4, SameVolumes
      <3> QED
        BY <1>1, <1>4, <3>1 DEF CreatedOK, NamesOnce
    <2>2. ValidOK' /\ PatchedIsValid'
      BY <1>1, <1>4 DEF ValidOK, LimitsOK, PatchedIsValid, ToPin, Origin
    <2> QED
      BY <2>1, <2>2
  <1>5. ASSUME phase' = "idle", UNCHANGED <<submitted, stored>>
        PROVE  CreatedOK' /\ ValidOK' /\ PatchedIsValid'
    BY <1>1, <1>5 DEF CreatedOK, ValidOK, PatchedIsValid
  <1>6. ASSUME NEW p \in Templates, Create(p) PROVE CreatedOK' /\ ValidOK' /\ PatchedIsValid'
    <2>1. stored' = NoPod
      BY <1>3, <1>6, WebhookAssumption DEF Create, TInv, PodsTyped
    <2>2. pod' = p /\ submitted' = p /\ phase' = "call" /\ op' = "CREATE" /\ calls' = 0
      BY <1>6 DEF Create
    <2>3. LimitsOK(p)
      BY WebhookAssumption, ValidParts DEF PodsValid
    <2>4. LimitsOK(pod)'
      BY <2>2, <2>3 DEF LimitsOK
    <2> QED
      BY <2>1, <2>2, <2>4 DEF CreatedOK, ValidOK, PatchedIsValid
  <1>7. CASE Update
    <2>1. pod' = stored /\ stored # NoPod /\ op' = "UPDATE" /\ phase' = "call"
          /\ submitted' = submitted /\ stored' = stored
      BY <1>7 DEF Update
    <2>2. LimitsOK(stored) /\ Valid(stored)
      BY <1>1, <1>3, <2>1, ValidParts DEF ValidOK, TInv, PodsTyped
    <2>3. LimitsOK(pod)'
      BY <2>1, <2>2 DEF LimitsOK
    <2> QED
      BY <2>1, <2>2, <2>3 DEF CreatedOK, ValidOK, PatchedIsValid
  <1>8. ASSUME NEW readable \in BOOLEAN, ServeMutatePod(readable)
        PROVE  CreatedOK' /\ ValidOK' /\ PatchedIsValid'
    <2>1. /\ submitted' = submitted /\ stored' = stored /\ op' = op /\ phase = "call"
          /\ calls' = calls + 1 /\ calls \in 0 .. 1
      BY <1>3, <1>8 DEF ServeMutatePod, TInv, PodsTyped
    <2>2. CASE phase' = "idle"
      BY <1>5, <2>1, <2>2
    <2>3. CASE phase' # "idle"
      <3>1. phase' = "mutated" /\ pod' # NoPod /\ pod' \in MutatePods(pod, readable) /\ IsPod(pod')
        BY <1>3, <1>8, <2>3, ServePod
      <3>2. submitted \in Templates /\ configs \in ConfigSets /\ IsPod(pod)
        BY <1>3, <2>1 DEF TInv, PodsTyped, FlagsTyped
      <3>3. Unchanged(pod) /\ SeenIn(pod) /\ LimitsOK(pod) /\ op \in {"CREATE", "UPDATE"}
        BY <1>1, <1>3, <2>1 DEF ReviewedOK, ValidOK, TInv, FlagsTyped
      <3>4. LimitsOK(pod')
        BY <3>1, <3>2, <3>3, ServeLimitsOK
      <3>5. ValidOK'
        BY <1>1, <2>1, <3>4, SameVolumes DEF ValidOK
      <3>6. CASE op = "CREATE" /\ calls = 0
        <4>1. pod = submitted
          BY <1>1, <2>1, <3>6 DEF CreatedOK
        <4>2. VolumesOK(pod') /\ VolumesOK(pod) /\ NamesOnce(pod)
          BY <3>1, <3>2, <4>1, FirstVolumes, SubmittedVolumes, OriginsFine
        <4>3. Indices(pod') = Indices(submitted)
          BY <3>1, <3>2, <3>3, <4>1, ServeAt
        <4>4. \A i \in Indices(submitted) : pod'.containers[i].name = submitted.containers[i].name
          BY <3>1, <3>2, <3>3, <4>1, ServeLimitsOK
        <4>5. CreatedOK'
          BY <2>1, <3>1, <3>6, <4>2, <4>3, <4>4, SameVolumes DEF CreatedOK, Indices
        <4>6. Valid(pod') \/ Stranded(pod')
          BY <3>1, <3>2, <3>3, <4>2, ServeValid
        <4> QED
          BY <2>1, <3>2, <3>5, <4>5, <4>6, StrandedPins DEF PatchedIsValid
      <3>7. CASE op = "CREATE" /\ calls = 1
        <4>1. VolumesOK(pod) /\ NamesOnce(pod)
          BY <1>1, <2>1, <3>7 DEF CreatedOK
        <4>2. CreatedOK'
          BY <2>1, <3>1, <3>7 DEF CreatedOK
        <4>3. Valid(pod') \/ Stranded(pod')
          BY <3>1, <3>2, <3>3, <4>1, ServeValid
        <4> QED
          BY <2>1, <3>2, <3>5, <4>2, <4>3, StrandedPins DEF PatchedIsValid
      <3>8. CASE op = "UPDATE"
        <4>1. CreatedOK'
          BY <2>1, <3>8 DEF CreatedOK
        <4>2. pod = stored /\ stored # NoPod
          BY <1>1, <1>3, <2>1, <3>8 DEF ReviewedOK, ValidOK
        <4>3. Valid(stored) /\ DoneIn(stored) /\ MountsFound(stored)
          BY <1>1, <1>3, <4>2 DEF ValidOK, StoredOK
        <4>4. Valid(pod')
          BY <3>1, <3>2, <3>3, <4>2, <4>3, UpdateValid
        <4> QED
          BY <3>5, <4>1, <4>4 DEF PatchedIsValid
      <3> QED
        BY <2>1, <3>3, <3>6, <3>7, <3>8
    <2> QED
      BY <2>2, <2>3
  <1>9. CASE CallFails
    BY <1>5, <1>9 DEF CallFails, Refuse
  <1>10. CASE OtherPlugins
    <2>1. phase = "mutated" /\ op = "CREATE" /\ phase' = "call" /\ calls = 1 /\ calls' = 1
          /\ UNCHANGED <<submitted, stored, op>>
      BY <1>10 DEF OtherPlugins
    <2>2. IsPod(pod) /\ submitted \in Templates /\ LimitsOK(pod)
      BY <1>1, <1>3, <2>1 DEF TInv, PodsTyped, ValidOK
    <2>3. /\ Indices(pod) = Indices(submitted) /\ VolumesOK(pod)
          /\ \A i \in Indices(pod) : pod.containers[i].name = submitted.containers[i].name
      BY <1>1, <2>1 DEF CreatedOK
    <2>4. NamesOnce(pod') /\ LimitsOK(pod')
      BY <1>10, <2>2, <2>3, InjectedNames, InjectedLimits
    <2>5. VolumesOK(pod')
      BY <1>10, <2>2, <2>3, OtherPluginsPod DEF VolumesOK, VolumesOnce, HasVolume
    <2> QED
      BY <1>1, <2>1, <2>4, <2>5, SameVolumes DEF CreatedOK, ValidOK, PatchedIsValid
  <1>11. CASE Persist
    <2>1. phase' = "idle" /\ phase = "mutated" /\ submitted' = submitted
      BY <1>11 DEF Persist, Refuse
    <2>2. CASE stored' = stored
      BY <1>5, <2>1, <2>2
    <2>3. CASE stored' # stored
      <3>1. op = "CREATE" /\ Valid(pod) /\ stored' = Named(pod)
        BY <1>11, <2>3 DEF Persist, Named
      <3>2. IsPod(pod)
        BY <1>3, <2>1 DEF TInv, PodsTyped
      <3>3. stored'.containers = pod.containers /\ stored'.volumes = pod.volumes
        BY <3>1, <3>2, NamedPod
      <3>4. Valid(stored')
        BY <3>1, <3>3 DEF Valid, Indices
      <3> QED
        BY <2>1, <3>4 DEF CreatedOK, ValidOK, PatchedIsValid
    <2> QED
      BY <2>2, <2>3
  <1>12. CASE WebhookDown \/ WebhookUp \/ EditConfigs \/ UNCHANGED vars
    BY <1>4, <1>12 DEF WebhookDown, WebhookUp, EditConfigs, vars
  <1> QED
    BY <1>6, <1>7, <1>8, <1>9, <1>10, <1>11, <1>12 DEF Next

(* What the patches make of a Pod that was valid passes the validation of  *)
(* the API server, also when the webhook is called again and for an        *)
(* update: no volume, mount or name is there twice and every mount has its *)
(* volume, unless a container that needs pinning was injected next to one  *)
(* that was pinned before (the test for hostbin and podinfo in mutatePods).*)
THEOREM PatchedIsValidThm ==
  ASSUME UniqueNames, NamesReserved, PodsValid
  PROVE  Spec => []PatchedIsValid
  <1>1. VInv => PatchedIsValid
    BY DEF VInv
  <1> QED
    BY <1>1, VInvInit, VInvNext, PTL DEF Spec

=============================================================================
