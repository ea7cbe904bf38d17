---------------------------- MODULE GitLockProofs ----------------------------
(***************************************************************************)
(* Proofs about GitLock for any number of processes and threads.  Each     *)
(* lemma on a step first reads off, component by component, what the step  *)
(* does to the thread t that takes it and to the registry of its process,  *)
(* and then shows the conjuncts of IInv one after the other.               *)
(***************************************************************************)
EXTENDS GitLock, TLAPS

\* The threads other than t do not move.
Others(t) == \A u \in Thread : u # t => pc'[u] = pc[u] /\ token'[u] = token[u]

\* A thread that changes nothing but its own stage, and leaves the lock with
\* that change, keeps the invariant: what it knew is only forgotten.
LEMMA Quiet ==
  ASSUME IInv, TypeOK', NEW t \in Thread, Others(t), token'[t] = token[t],
         pc'[t] = pc[t] \/ pc'[t] \notin Working,
         UNCHANGED <<registryVars, native, returned>>
  PROVE  IInv'
<1>1. /\ \A u \in Thread : token'[u] = token[u] /\ (pc'[u] = pc[u] \/ pc'[u] \notin Working)
      /\ UNCHANGED <<reservation, nextToken, owners, probe, native, returned>>
  BY DEF Others, registryVars
<1>2. LocalExclusion'
  BY <1>1 DEF IInv, LocalExclusion, Custodian, Working, Fresh
<1>3. HeldMeansReserved'
  BY <1>1 DEF IInv, HeldMeansReserved
<1>4. TokensOK'
  BY <1>1 DEF IInv, TokensOK, TokenOK
<1>5. RegistriesOK'
  BY <1>1 DEF IInv, RegistriesOK, RegistryOK
<1>6. HandlesOK'
  BY <1>1 DEF IInv, HandlesOK, HandleOK, Handle, Working, Fresh
<1>7. OwnersOK'
  BY <1>1 DEF IInv, OwnersOK, OwnerOK, Working, Fresh
<1>8. GenerationsOK'
  BY <1>1 DEF IInv, GenerationsOK, GenerationOK, SameToken, Working, Fresh
<1>9. ProbesOK'
  BY <1>1 DEF IInv, ProbesOK, ProbeOK, Working, Fresh
<1> QED
  BY <1>2, <1>3, <1>4, <1>5, <1>6, <1>7, <1>8, <1>9 DEF IInv

\* A new reservation gets a token that no thread, owner or probe has.
LEMMA NewReservation ==
  ASSUME IInv, TypeOK', NEW t \in Thread, Reserve(t),
         NEW stage \in {"reserved", "probe"}, pc[t] \notin Working,
         pc' = [pc EXCEPT ![t] = stage],
         UNCHANGED <<owners, probe, native, returned>>
  PROVE  IInv'
<1> DEFINE p == Home[t]
           k == nextToken[p]
<1>1. /\ p \in Process /\ k \in Token /\ reservation[p] = None
      /\ k \in Nat /\ nextToken'[p] = k + 1 /\ reservation'[p] = k
      /\ \A q \in Process : q # p => nextToken'[q] = nextToken[q]
                                     /\ reservation'[q] = reservation[q]
  BY HomeAssumption, BoundsAssumption DEF IInv, TypeOK, Reserve, Token
<1>2. /\ pc'[t] = stage /\ token'[t] = k
      /\ Others(t)
      /\ UNCHANGED <<owners, probe, native, returned>>
  BY DEF IInv, TypeOK, Reserve, Others
<1>3. \A u \in Thread : Home[u] \in Process /\ token[u] \in Nat
  BY HomeAssumption DEF IInv, TypeOK
<1>4. native # <<p, k>> /\ \A u \in Thread : Home[u] = p => ~Custodian(u)
  BY <1>1, <1>3, NoneAssumption DEF IInv, HeldMeansReserved, LocalExclusion
<1>5. LocalExclusion'
  BY <1>1, <1>2, <1>3, <1>4 DEF IInv, LocalExclusion, Custodian, Others
<1>6. HeldMeansReserved'
  <2>1. native # None => native[1] \in Process /\ native[1] # p
    BY <1>1, NoneAssumption DEF IInv, TypeOK, HeldMeansReserved
  <2> QED
    BY <1>1, <1>2, <2>1 DEF IInv, HeldMeansReserved
<1>7. TokensOK'
  BY <1>1, <1>2, <1>3 DEF IInv, TokensOK, TokenOK, Others
<1>8. RegistriesOK'
  <2>1. \A q \in Process : nextToken[q] \in Nat /\ nextToken'[q] >= nextToken[q]
    <3>1. \A q \in Process : nextToken[q] \in Nat
      BY DEF IInv, TypeOK
    <3> QED
      BY <1>1, <3>1
  <2>2. \A q \in Process : returned[q] \subseteq Token
    BY DEF IInv, TypeOK
  <2>3. \A q \in Process : nextToken'[q] \in Nat
    BY DEF TypeOK
  <2> QED
    BY <1>2, <2>1, <2>2, <2>3 DEF IInv, RegistriesOK, RegistryOK, Token
<1>9. HandlesOK'
  BY <1>2, <1>4 DEF IInv, HandlesOK, HandleOK, Handle, Others
<1>10. OwnersOK'
  <2>1. owners[p][k] = "absent" /\ k \notin returned[p]
    BY <1>1 DEF IInv, RegistriesOK, RegistryOK
  <2> QED
    BY <1>2, <2>1 DEF IInv, OwnersOK, OwnerOK, Others
<1>11. GenerationsOK'
  <2>1. \A u \in Thread : Home[u] = p => token[u] # k
    BY <1>1, <1>3 DEF IInv, TokensOK, TokenOK
  <2> QED
    BY <1>2, <2>1 DEF IInv, GenerationsOK, GenerationOK, SameToken, Others, Fresh
<1>12. ProbesOK'
  <2>1. probe[p] # None => probe[p].token # k
    BY <1>1 DEF IInv, RegistriesOK, RegistryOK, Token
  <2> QED
    BY <1>2, <2>1 DEF IInv, ProbesOK, ProbeOK, Others, Fresh
<1> QED
  BY <1>5, <1>6, <1>7, <1>8, <1>9, <1>10, <1>11, <1>12 DEF IInv

\* Opening the file takes the flock for the reservation's own token.
LEMMA Opened ==
  ASSUME IInv, TypeOK', NEW t \in Thread, Others(t), token'[t] = token[t],
         <<pc[t], pc'[t]>> \in {<<"reserved", "writing">>, <<"probe", "probing">>},
         native = None, native' = Handle(t),
         UNCHANGED <<registryVars, returned>>
  PROVE  IInv'
<1>1. /\ Home[t] \in Process /\ token[t] \in Nat /\ Handle(t) # None
      /\ Custodian(t) /\ Custodian(t)'
      /\ \A u \in Thread : Custodian(u)' <=> Custodian(u)
  BY HomeAssumption, NoneAssumption DEF IInv, TypeOK, Custodian, Others, Handle
<1>2. \A u \in Thread : token'[u] = token[u]
  BY DEF Others
<1>3. UNCHANGED <<reservation, nextToken, owners, probe, returned>>
  BY DEF registryVars
<1>4. LocalExclusion'
  BY <1>1, <1>2, <1>3 DEF IInv, LocalExclusion
<1>5. HeldMeansReserved'
  <2>1. native'[1] = Home[t] /\ native'[2] = token[t] /\ reservation[Home[t]] = token[t]
    BY <1>1 DEF IInv, LocalExclusion, Handle
  <2>2. \A p \in Process, k \in Token : owners[p][k] # "available"
    BY NoneAssumption DEF IInv, HeldMeansReserved, Token
  <2> QED
    BY <1>3, <2>1, <2>2 DEF HeldMeansReserved
<1>6. TokensOK'
  BY <1>2, <1>3 DEF IInv, TokensOK, TokenOK, Others, Working, Fresh
<1>7. RegistriesOK'
  <2>1. \A p \in Process : probe[p] # None => probe[p].state # "blocked"
    <3>1. \A p \in Process : probe[p] # None => probe[p].token \in Nat
      BY DEF IInv, RegistriesOK, RegistryOK, Token
    <3> QED
      BY <3>1, NoneAssumption DEF IInv, RegistriesOK, RegistryOK
  <2> QED
    BY <1>3, <2>1 DEF IInv, RegistriesOK, RegistryOK
<1>8. HandlesOK'
  <2>1. \A u \in Thread : u # t => HandleOK(u)'
    <3>1. \A u \in Thread : Custodian(u) /\ Home[u] = Home[t] => u = t
      BY <1>1 DEF IInv, LocalExclusion
    <3>2. \A u \in Thread : Handle(u) # None
      BY HomeAssumption, NoneAssumption DEF IInv, TypeOK, Handle
    <3>3. \A u \in Thread : pc[u] = "probed" => GenerationOK(u, t)
      BY DEF IInv, GenerationsOK
    <3> QED
      BY <1>2, <1>3, <3>1, <3>2, <3>3
      DEF IInv, HandlesOK, HandleOK, Handle, Others, Custodian, GenerationOK, SameToken, Fresh
  <2>2. HandleOK(t)'
    BY <1>2 DEF HandleOK, Handle
  <2> QED
    BY <2>1, <2>2 DEF HandlesOK
<1>9. OwnersOK'
  BY <1>2, <1>3 DEF IInv, OwnersOK, OwnerOK, Others, Fresh
<1>10. GenerationsOK'
  BY <1>2, <1>3 DEF IInv, GenerationsOK, GenerationOK, SameToken, Others, Fresh
<1>11. ProbesOK'
  BY <1>2, <1>3 DEF IInv, ProbesOK, ProbeOK, Others, Fresh
<1> QED
  BY <1>4, <1>5, <1>6, <1>7, <1>8, <1>9, <1>10, <1>11 DEF IInv

\* A custodian has its process to itself.
LEMMA Alone ==
  ASSUME IInv, NEW t \in Thread, Custodian(t)
  PROVE  /\ reservation[Home[t]] = token[t]
         /\ \A u \in Thread : Custodian(u) /\ Home[u] = Home[t] => u = t
BY DEF IInv, LocalExclusion

\* registerOwner keeps the invariant: the token is the one that holds the flock.
LEMMA RegisterOwnerStep ==
  ASSUME IInv, TypeOK', NEW t \in Thread, RegisterOwner(t)
  PROVE  IInv'
<1> DEFINE p == Home[t]
           k == token[t]
<1>1. /\ p \in Process /\ k \in Token /\ pc[t] = "writing" /\ pc'[t] = "owned"
      /\ native = <<p, k>> /\ owners[p][k] = "absent" /\ k \notin returned[p]
      /\ k < nextToken[p]
      /\ probe[p] # None => probe[p].token # k
  BY HomeAssumption
  DEF IInv, TypeOK, RegisterOwner, TokensOK, TokenOK, HandlesOK, HandleOK, Handle,
      OwnersOK, OwnerOK, ProbesOK, ProbeOK, Working, Fresh
<1>2. /\ \A u \in Thread : token'[u] = token[u] /\ (Custodian(u)' <=> Custodian(u))
      /\ Others(t)
      /\ UNCHANGED <<reservation, nextToken, probe, native, returned>>
  BY DEF IInv, TypeOK, RegisterOwner, Others, Custodian
<1>3. /\ owners'[p][k] = "available"
      /\ \A q \in Process, i \in Token : (q # p \/ i # k) => owners'[q][i] = owners[q][i]
  BY <1>1 DEF IInv, TypeOK, RegisterOwner
<1>4. \A u \in Thread : Custodian(u) /\ Home[u] = p => u = t
  BY <1>1, Alone DEF Custodian
<1>5. LocalExclusion'
  BY <1>2 DEF IInv, LocalExclusion
<1>6. HeldMeansReserved'
  BY <1>1, <1>2, <1>3 DEF IInv, HeldMeansReserved
<1>7. TokensOK'
  BY <1>1, <1>2 DEF IInv, TokensOK, TokenOK, Others
<1>8. RegistriesOK'
  <2> SUFFICES ASSUME NEW q \in Process PROVE RegistryOK(q)'
    BY DEF RegistriesOK
  <2>1. RegistryOK(q) /\ nextToken[q] \in Nat
    BY DEF IInv, TypeOK, RegistriesOK
  <2> QED
    BY <1>1, <1>2, <1>3, <2>1 DEF RegistryOK, Token
<1>9. HandlesOK'
  BY <1>1, <1>2 DEF IInv, HandlesOK, HandleOK, Handle, Others
<1>10. OwnersOK'
  <2>1. OwnerOK(t)'
    BY <1>1, <1>2, <1>3 DEF OwnerOK
  <2>2. ASSUME NEW u \in Thread, u # t, pc[u] \in Working
        PROVE  OwnerOK(u)'
    <3>1. OwnerOK(u) /\ Home[u] \in Process /\ token[u] \in Token
      BY <2>2, HomeAssumption DEF IInv, OwnersOK, TokensOK, TokenOK
    <3>2. GenerationOK(u, t)
      BY DEF IInv, GenerationsOK
    <3> QED
      BY <1>1, <1>2, <1>3, <1>4, <2>2, <3>1, <3>2
      DEF OwnerOK, GenerationOK, SameToken, Custodian, Others, Fresh
  <2> QED
    BY <1>2, <2>1, <2>2 DEF OwnersOK, OwnerOK, Others, Working, Fresh
<1>11. GenerationsOK'
  BY <1>1, <1>2 DEF IInv, GenerationsOK, GenerationOK, SameToken, Others, Fresh
<1>12. ProbesOK'
  BY <1>1, <1>2 DEF IInv, ProbesOK, ProbeOK, Others, Fresh
<1> QED
  BY <1>5, <1>6, <1>7, <1>8, <1>9, <1>10, <1>11, <1>12 DEF IInv

\* Entering the action, or turning back after the deadline, keeps the invariant.
LEMMA StartActionStep ==
  ASSUME IInv, TypeOK', NEW t \in Thread, StartAction(t)
  PROVE  IInv'
<1>1. /\ pc[t] = "owned" /\ pc'[t] \in {"action", "release"}
      /\ Others(t)
      /\ UNCHANGED <<reservation, nextToken, owners, probe, native, returned, token>>
  BY DEF IInv, TypeOK, StartAction, Others, registryVars
<1>2. \A u \in Thread : Custodian(u) /\ Home[u] = Home[t] => u = t
  BY <1>1, Alone DEF Custodian
<1>3. LocalExclusion'
  BY <1>1, <1>2 DEF IInv, LocalExclusion, Custodian, Others
<1>4. HeldMeansReserved'
  BY <1>1 DEF IInv, HeldMeansReserved
<1>5. TokensOK'
  BY <1>1 DEF IInv, TokensOK, TokenOK, Others, Working, Fresh
<1>6. RegistriesOK'
  BY <1>1 DEF IInv, RegistriesOK, RegistryOK
<1>7. HandlesOK'
  BY <1>1 DEF IInv, HandlesOK, HandleOK, Handle, Others
<1>8. OwnersOK'
  BY <1>1 DEF IInv, OwnersOK, OwnerOK, Others, Fresh
<1>9. GenerationsOK'
  BY <1>1, <1>2 DEF IInv, GenerationsOK, GenerationOK, SameToken, Custodian, Others, Fresh
<1>10. ProbesOK'
  BY <1>1 DEF IInv, ProbesOK, ProbeOK, Others, Fresh
<1> QED
  BY <1>3, <1>4, <1>5, <1>6, <1>7, <1>8, <1>9, <1>10 DEF IInv

\* The end of the action keeps the invariant; its token may now be released twice.
LEMMA EndActionStep ==
  ASSUME IInv, TypeOK', NEW t \in Thread, EndAction(t)
  PROVE  IInv'
<1> DEFINE p == Home[t]
           k == token[t]
<1>1. /\ p \in Process /\ pc[t] = "action" /\ pc'[t] = "release"
      /\ Others(t)
      /\ UNCHANGED <<reservation, nextToken, owners, probe, native, token>>
      /\ returned'[p] = returned[p] \cup {k}
      /\ \A q \in Process : q # p => returned'[q] = returned[q]
  BY HomeAssumption DEF IInv, TypeOK, EndAction, Others, registryVars
<1>2. \A u \in Thread : Custodian(u) /\ Home[u] = p => u = t
  BY <1>1, Alone DEF Custodian
<1>3. LocalExclusion'
  BY <1>1 DEF IInv, LocalExclusion, Custodian, Others
<1>4. HeldMeansReserved'
  BY <1>1 DEF IInv, HeldMeansReserved
<1>5. TokensOK'
  BY <1>1 DEF IInv, TokensOK, TokenOK, Others, Working, Fresh
<1>6. RegistriesOK'
  <2>1. k < nextToken[p]
    BY DEF IInv, TokensOK, TokenOK
  <2> QED
    BY <1>1, <2>1 DEF IInv, RegistriesOK, RegistryOK
<1>7. HandlesOK'
  BY <1>1 DEF IInv, HandlesOK, HandleOK, Handle, Others
<1>8. OwnersOK'
  <2>1. \A u \in Thread : GenerationOK(u, t)
    BY DEF IInv, GenerationsOK
  <2>2. ASSUME NEW u \in Thread, u # t PROVE OwnerOK(u)'
    <3>1. OwnerOK(u) /\ Home[u] \in Process
      BY HomeAssumption DEF IInv, OwnersOK
    <3> QED
      BY <1>1, <1>2, <2>1, <2>2, <3>1
      DEF OwnerOK, GenerationOK, SameToken, Custodian, Others, Fresh
  <2> QED
    BY <1>1, <2>2 DEF OwnersOK, OwnerOK, Fresh
<1>9. GenerationsOK'
  BY <1>1, <1>2 DEF IInv, GenerationsOK, GenerationOK, SameToken, Custodian, Others, Fresh
<1>10. ProbesOK'
  BY <1>1 DEF IInv, ProbesOK, ProbeOK, Others, Fresh
<1> QED
  BY <1>3, <1>4, <1>5, <1>6, <1>7, <1>8, <1>9, <1>10 DEF IInv

\* A probe that could not open the file keeps the invariant.
LEMMA OpenProbeFailsStep ==
  ASSUME IInv, TypeOK', NEW t \in Thread, OpenProbeFails(t)
  PROVE  IInv'
<1>1. /\ pc[t] = "probe" /\ pc'[t] = "probed"
      /\ Others(t)
      /\ UNCHANGED <<reservation, nextToken, owners, probe, native, returned, token>>
  BY DEF IInv, TypeOK, OpenProbeFails, Others, registryVars
<1>2. \A u \in Thread : Custodian(u) /\ Home[u] = Home[t] => u = t
  BY <1>1, Alone DEF Custodian
<1>3. LocalExclusion'
  BY <1>1 DEF IInv, LocalExclusion, Custodian, Others
<1>4. HeldMeansReserved'
  BY <1>1 DEF IInv, HeldMeansReserved
<1>5. TokensOK'
  BY <1>1 DEF IInv, TokensOK, TokenOK, Others, Working, Fresh
<1>6. RegistriesOK'
  BY <1>1 DEF IInv, RegistriesOK, RegistryOK
<1>7. HandlesOK'
  BY <1>1 DEF IInv, HandlesOK, HandleOK, Handle, Others
<1>8. OwnersOK'
  BY <1>1 DEF IInv, OwnersOK, OwnerOK, Others, Fresh
<1>9. GenerationsOK'
  BY <1>1, <1>2 DEF IInv, GenerationsOK, GenerationOK, SameToken, Custodian, Others, Fresh
<1>10. ProbesOK'
  BY <1>1 DEF IInv, ProbesOK, ProbeOK, Others, Fresh
<1> QED
  BY <1>3, <1>4, <1>5, <1>6, <1>7, <1>8, <1>9, <1>10 DEF IInv

\* A reservation is dropped once its own handle does not hold the flock and
\* nobody works on it.
LEMMA Abandoned ==
  ASSUME IInv, TypeOK', NEW t \in Thread, Others(t), token'[t] = token[t],
         pc'[t] \notin Working, native # Handle(t),
         \A u \in Thread : u # t /\ SameToken(u, t) => ~Custodian(u),
         reservation' = ReservationWithout(Home[t], token[t]),
         UNCHANGED <<nextToken, probe, native, returned>>,
         \A q \in Process, i \in Token :
           \/ owners'[q][i] = owners[q][i]
           \/ (q = Home[t] /\ i = token[t] /\ owners'[q][i] = "absent")
  PROVE  IInv'
<1> DEFINE p == Home[t]
           k == token[t]
<1>1. /\ p \in Process /\ k \in Nat
      /\ reservation'[p] = IF reservation[p] = k THEN None ELSE reservation[p]
      /\ \A q \in Process : q # p => reservation'[q] = reservation[q]
  BY HomeAssumption DEF IInv, TypeOK, ReservationWithout
<1>2. \A u \in Thread : Home[u] \in Process /\ token[u] \in Nat /\ token'[u] = token[u]
  BY HomeAssumption DEF IInv, TypeOK, Others
<1>3. LocalExclusion'
  <2> SUFFICES ASSUME NEW u \in Thread, Custodian(u)'
               PROVE  /\ reservation'[Home[u]] = token[u]
                      /\ \A v \in Thread : Custodian(v)' /\ Home[v] = Home[u] => v = u
    BY <1>2 DEF LocalExclusion
  <2>1. /\ u # t /\ Custodian(u)
        /\ \A v \in Thread : Custodian(v)' => Custodian(v)
    BY DEF Custodian, Others, Working, Fresh
  <2>2. /\ reservation[Home[u]] = token[u]
        /\ \A v \in Thread : Custodian(v) /\ Home[v] = Home[u] => v = u
    BY <2>1, Alone
  <2> QED
    BY <1>1, <1>2, <2>1, <2>2 DEF SameToken
<1>4. HeldMeansReserved'
  <2>1. native # None => native[1] \in Process /\ native = <<native[1], native[2]>>
    BY DEF IInv, TypeOK
  <2>2. native # None => reservation'[native[1]] = native[2]
    BY <1>1, <2>1 DEF IInv, HeldMeansReserved, Handle
  <2> QED
    BY <2>2 DEF IInv, HeldMeansReserved
<1>5. TokensOK'
  BY <1>2 DEF IInv, TokensOK, TokenOK, Others
<1>6. RegistriesOK'
  <2> SUFFICES ASSUME NEW q \in Process PROVE RegistryOK(q)'
    BY DEF RegistriesOK
  <2>1. RegistryOK(q)
    BY DEF IInv, RegistriesOK
  <2> QED
    BY <2>1 DEF RegistryOK
<1>7. HandlesOK'
  BY <1>2 DEF IInv, HandlesOK, HandleOK, Handle, Others, Working, Fresh
<1>8. OwnersOK'
  <2>1. ASSUME NEW u \in Thread, u # t, pc[u] \in Working
        PROVE  OwnerOK(u)'
    <3>1. OwnerOK(u) /\ Home[u] \in Process /\ token[u] \in Token
      BY <1>2, <2>1 DEF IInv, OwnersOK, TokensOK, TokenOK
    <3>2. /\ pc'[u] = pc[u] /\ token'[u] = token[u]
          /\ Custodian(u) => owners'[Home[u]][token[u]] = owners[Home[u]][token[u]]
          /\ \/ owners'[Home[u]][token[u]] = owners[Home[u]][token[u]]
             \/ owners'[Home[u]][token[u]] = "absent"
      BY <1>2, <2>1, <3>1 DEF Others, SameToken
    <3> QED
      BY <3>1, <3>2 DEF OwnerOK, Custodian
  <2> QED
    BY <2>1 DEF OwnersOK, OwnerOK, Others, Working, Fresh
<1>9. GenerationsOK'
  BY <1>2 DEF IInv, GenerationsOK, GenerationOK, SameToken, Others, Working, Fresh
<1>10. ProbesOK'
  BY <1>2 DEF IInv, ProbesOK, ProbeOK, Others, Working, Fresh
<1> QED
  BY <1>3, <1>4, <1>5, <1>6, <1>7, <1>8, <1>9, <1>10 DEF IInv

\* The holder closes its handle and still has the reservation.
LEMMA Closed ==
  ASSUME IInv, TypeOK', NEW t \in Thread, Others(t), token'[t] = token[t],
         <<pc[t], pc'[t]>> \in {<<"closing", "closed">>, <<"probing", "probed">>},
         native' = None, UNCHANGED <<reservation, nextToken, owners, probe, returned>>
  PROVE  IInv'
<1>1. /\ Custodian(t) /\ native = Handle(t)
      /\ \A u \in Thread : Handle(u) # None /\ token'[u] = token[u]
  BY HomeAssumption, NoneAssumption
  DEF IInv, TypeOK, HandlesOK, HandleOK, Handle, Custodian, Others
<1>2. \A u \in Thread : Custodian(u) /\ Home[u] = Home[t] => u = t
  BY <1>1, Alone
<1>3. owners[Home[t]][token[t]] # "available"
  BY DEF IInv, OwnersOK, OwnerOK
<1>4. LocalExclusion'
  BY <1>1 DEF IInv, LocalExclusion, Custodian, Others
<1>5. HeldMeansReserved'
  BY <1>1, <1>3 DEF IInv, HeldMeansReserved, Handle
<1>6. TokensOK'
  BY <1>1 DEF IInv, TokensOK, TokenOK, Others, Working, Fresh
<1>7. RegistriesOK'
  <2>1. probe[Home[t]] # None => probe[Home[t]].token # token[t]
    BY DEF IInv, ProbesOK, ProbeOK, Fresh
  <2> QED
    BY <1>1, <2>1 DEF IInv, RegistriesOK, RegistryOK, Handle
<1>8. HandlesOK'
  <2>1. \A u \in Thread : u # t =>
          /\ Custodian(u) => native # Handle(u)
          /\ pc'[u] = pc[u]
    BY <1>1, <1>2 DEF Handle, Others
  <2> QED
    BY <1>1, <2>1 DEF IInv, HandlesOK, HandleOK, Handle, Custodian
<1>9. OwnersOK'
  BY <1>1 DEF IInv, OwnersOK, OwnerOK, Others, Fresh
<1>10. GenerationsOK'
  <2>1. ASSUME NEW u \in Thread, NEW v \in Thread PROVE GenerationOK(u, v)'
    <3>1. GenerationOK(u, v) /\ GenerationOK(v, u)
      BY DEF IInv, GenerationsOK
    <3> QED
      BY <1>1, <1>2, <3>1 DEF GenerationOK, SameToken, Custodian, Others, Fresh
  <2> QED
    BY <2>1 DEF GenerationsOK
<1>11. ProbesOK'
  BY <1>1 DEF IInv, ProbesOK, ProbeOK, Others, Fresh
<1> QED
  BY <1>4, <1>5, <1>6, <1>7, <1>8, <1>9, <1>10, <1>11 DEF IInv

\* A handle without a registered owner is closed and its reservation dropped.
LEMMA Freed ==
  ASSUME IInv, TypeOK', NEW t \in Thread, Others(t), token'[t] = token[t],
         pc[t] \in {"writing", "reprobe"}, pc'[t] \notin Working,
         native' = None, reservation' = ReservationWithout(Home[t], token[t]),
         UNCHANGED <<nextToken, owners, returned>>,
         \A q \in Process : probe'[q] = probe[q] \/ (q = Home[t] /\ probe'[q] = None),
         pc[t] = "reprobe" => probe'[Home[t]] = None
  PROVE  IInv'
<1> DEFINE p == Home[t]
           k == token[t]
<1>1. /\ p \in Process /\ Custodian(t) /\ native = <<p, k>> /\ owners[p][k] = "absent"
      /\ \A q \in Process : q # p => reservation'[q] = reservation[q]
  BY HomeAssumption
  DEF IInv, TypeOK, HandlesOK, HandleOK, Handle, OwnersOK, OwnerOK, Custodian,
      ReservationWithout
<1>2. \A u \in Thread :
        /\ Home[u] \in Process /\ token'[u] = token[u]
        /\ Handle(u) # None
        /\ pc'[u] \in Working => u # t /\ pc'[u] = pc[u]
        /\ u # t /\ Custodian(u) => Home[u] # p
  BY <1>1, Alone, HomeAssumption, NoneAssumption DEF IInv, TypeOK, Others, Handle
<1>3. LocalExclusion'
  BY <1>1, <1>2 DEF IInv, LocalExclusion, Custodian, Working, Fresh
<1>4. HeldMeansReserved'
  BY <1>1, NoneAssumption DEF IInv, HeldMeansReserved
<1>5. TokensOK'
  BY <1>2 DEF IInv, TokensOK, TokenOK, Others
<1>6. RegistriesOK'
  <2>1. probe'[p] # None => probe[p].token # k /\ probe'[p] = probe[p]
    BY <1>1 DEF IInv, ProbesOK, ProbeOK, Fresh
  <2> QED
    BY <1>1, <2>1 DEF IInv, RegistriesOK, RegistryOK
<1>7. HandlesOK'
  <2>1. \A u \in Thread : u # t /\ Custodian(u) => native # Handle(u) /\ HandleOK(u)
    BY <1>1, <1>2 DEF IInv, HandlesOK, Handle
  <2> QED
    BY <1>2, <2>1 DEF HandlesOK, HandleOK, Handle, Custodian, Working, Fresh
<1>8. OwnersOK'
  BY <1>2 DEF IInv, OwnersOK, OwnerOK, Others, Working, Fresh
<1>9. GenerationsOK'
  BY <1>2 DEF IInv, GenerationsOK, GenerationOK, SameToken, Others, Working, Fresh
<1>10. ProbesOK'
  <2> SUFFICES ASSUME NEW u \in Thread PROVE ProbeOK(u)'
    BY DEF ProbesOK
  <2>1. ProbeOK(u)
    BY DEF IInv, ProbesOK
  <2>2. probe'[Home[u]] = probe[Home[u]] \/ (Home[u] = p /\ probe'[Home[u]] = None)
    BY <1>2
  <2> QED
    BY <1>2, <2>1, <2>2 DEF ProbeOK, Custodian, Working, Fresh
<1> QED
  BY <1>3, <1>4, <1>5, <1>6, <1>7, <1>8, <1>9, <1>10 DEF IInv

\* A release claims its owner: nobody works under the owner's token any more.
LEMMA Claimed ==
  ASSUME IInv, TypeOK', NEW t \in Thread, NEW k \in Token, Others(t), token'[t] = k,
         pc[t] \notin Working \/ (pc[t] = "release" /\ token[t] = k),
         pc'[t] = "closing",
         owners[Home[t]][k] = "available", ClaimOwner(Home[t], k),
         \A u \in Thread : u # t /\ Home[u] = Home[t] /\ token[u] = k => pc[u] \notin Fresh,
         UNCHANGED <<reservation, nextToken, probe, native, returned>>
  PROVE  IInv'
<1> DEFINE p == Home[t]
<1>1. /\ p \in Process /\ native = <<p, k>> /\ reservation[p] = k /\ k \in Nat
      /\ nextToken[p] \in Nat
  BY HomeAssumption, NoneAssumption DEF IInv, TypeOK, HeldMeansReserved, Token
<1>2. /\ owners'[p][k] = "closing"
      /\ \A q \in Process, i \in Token : (q # p \/ i # k) => owners'[q][i] = owners[q][i]
  BY <1>1 DEF IInv, TypeOK, ClaimOwner
<1>3. /\ k < nextToken[p]
      /\ probe[p] # None => probe[p].token # k
  BY <1>1 DEF IInv, RegistriesOK, RegistryOK
<1>4. ASSUME NEW u \in Thread, u # t, Home[u] = p, token[u] = k
      PROVE  pc[u] \notin Working \/ pc[u] = "release"
  BY <1>4 DEF IInv, OwnersOK, OwnerOK, Working, Fresh
<1>5. \A u \in Thread : u # t /\ Home[u] = p => ~Custodian(u)
  <2> SUFFICES ASSUME NEW u \in Thread, u # t, Home[u] = p, Custodian(u) PROVE FALSE
    OBVIOUS
  <2>1. token[u] = k
    BY <1>1, Alone
  <2> QED
    BY <2>1, <1>4 DEF Custodian, Working, Fresh
<1>6. LocalExclusion'
  BY <1>1, <1>5 DEF IInv, LocalExclusion, Custodian, Others
<1>7. HeldMeansReserved'
  BY <1>2 DEF IInv, HeldMeansReserved
<1>8. TokensOK'
  BY <1>3 DEF IInv, TokensOK, TokenOK, Others
<1>9. RegistriesOK'
  <2> SUFFICES ASSUME NEW q \in Process PROVE RegistryOK(q)'
    BY DEF RegistriesOK
  <2>1. RegistryOK(q)
    BY DEF IInv, RegistriesOK
  <2> QED
    BY <1>1, <1>2, <1>3, <2>1 DEF RegistryOK
<1>10. HandlesOK'
  BY <1>1 DEF IInv, HandlesOK, HandleOK, Handle, Others
<1>11. OwnersOK'
  <2>1. ASSUME NEW u \in Thread, u # t, pc[u] \in Working
        PROVE  OwnerOK(u)'
    <3>1. OwnerOK(u) /\ Home[u] \in Process /\ token[u] \in Token
      BY <2>1, HomeAssumption DEF IInv, OwnersOK, TokensOK, TokenOK
    <3> QED
      BY <1>2, <1>4, <2>1, <3>1 DEF OwnerOK, Others, Working, Fresh
  <2>2. OwnerOK(t)'
    BY <1>2 DEF OwnerOK, Fresh
  <2> QED
    BY <2>1, <2>2 DEF OwnersOK, OwnerOK, Others, Working, Fresh
<1>12. GenerationsOK'
  <2> SUFFICES ASSUME NEW u \in Thread, NEW v \in Thread PROVE GenerationOK(u, v)'
    BY DEF GenerationsOK
  <2>1. GenerationOK(u, v)
    BY DEF IInv, GenerationsOK
  <2> QED
    BY <1>4, <2>1 DEF GenerationOK, SameToken, Others, Working, Fresh
<1>13. ProbesOK'
  BY <1>3 DEF IInv, ProbesOK, ProbeOK, Others, Fresh
<1> QED
  BY <1>6, <1>7, <1>8, <1>9, <1>10, <1>11, <1>12, <1>13 DEF IInv

\* restoreOwner keeps the invariant: the handle is still the owner's.
LEMMA CloseOwnerSticksStep ==
  ASSUME IInv, TypeOK', NEW t \in Thread, CloseOwnerSticks(t)
  PROVE  IInv'
<1> DEFINE p == Home[t]
           k == token[t]
<1>1. /\ p \in Process /\ k \in Token /\ pc[t] = "closing" /\ pc'[t] = "retire"
      /\ native = <<p, k>> /\ owners[p][k] = "closing" /\ k < nextToken[p]
      /\ probe[p] # None => probe[p].token # k
      /\ Custodian(t)
  BY HomeAssumption
  DEF IInv, TypeOK, CloseOwnerSticks, TokensOK, TokenOK, HandlesOK, HandleOK, Handle,
      OwnersOK, OwnerOK, ProbesOK, ProbeOK, Working, Custodian
<1>2. /\ Others(t) /\ UNCHANGED <<reservation, nextToken, probe, native, returned, token>>
  BY DEF IInv, TypeOK, CloseOwnerSticks, Others
<1>3. /\ owners'[p][k] = "available"
      /\ \A q \in Process, i \in Token : (q # p \/ i # k) => owners'[q][i] = owners[q][i]
  BY <1>1 DEF IInv, TypeOK, CloseOwnerSticks
<1>4. \A u \in Thread : Custodian(u) /\ Home[u] = p => u = t
  BY <1>1, Alone
<1>5. LocalExclusion'
  BY <1>1, <1>2 DEF IInv, LocalExclusion, Custodian, Others
<1>6. HeldMeansReserved'
  BY <1>1, <1>2, <1>3 DEF IInv, HeldMeansReserved
<1>7. TokensOK'
  BY <1>1, <1>2 DEF IInv, TokensOK, TokenOK, Others, Working, Fresh
<1>8. RegistriesOK'
  <2> SUFFICES ASSUME NEW q \in Process PROVE RegistryOK(q)'
    BY DEF RegistriesOK
  <2>1. RegistryOK(q) /\ nextToken[q] \in Nat /\ Token \subseteq Nat
    BY DEF IInv, TypeOK, RegistriesOK, Token
  <2>2. \A i \in Token : i >= nextToken[q] => q # p \/ i # k
    BY <1>1, <2>1
  <2> QED
    BY <1>1, <1>2, <1>3, <2>1, <2>2 DEF RegistryOK
<1>9. HandlesOK'
  BY <1>1, <1>2 DEF IInv, HandlesOK, HandleOK, Handle, Others
<1>10. OwnersOK'
  <2>1. ASSUME NEW u \in Thread, u # t, pc[u] \in Working
        PROVE  OwnerOK(u)'
    <3>1. OwnerOK(u) /\ Home[u] \in Process /\ token[u] \in Token
      BY <2>1, HomeAssumption DEF IInv, OwnersOK, TokensOK, TokenOK
    <3> QED
      BY <1>1, <1>2, <1>3, <1>4, <2>1, <3>1 DEF OwnerOK, Custodian, Others, Fresh
  <2> QED
    BY <1>1, <1>2, <2>1 DEF OwnersOK, OwnerOK, Others, Working, Fresh
<1>11. GenerationsOK'
  BY <1>1, <1>2 DEF IInv, GenerationsOK, GenerationOK, SameToken, Others, Fresh
<1>12. ProbesOK'
  BY <1>1, <1>2 DEF IInv, ProbesOK, ProbeOK, Others, Fresh
<1> QED
  BY <1>5, <1>6, <1>7, <1>8, <1>9, <1>10, <1>11, <1>12 DEF IInv

\* A probe whose close fails is recorded under the token it still has.
LEMMA ProbeStuck ==
  ASSUME IInv, TypeOK', NEW t \in Thread, Others(t), token'[t] = token[t],
         pc[t] = "probing", pc'[t] = "probed",
         probe' = [probe EXCEPT ![Home[t]] = [token |-> token[t], state |-> "blocked"]],
         UNCHANGED <<reservation, nextToken, owners, native, returned>>
  PROVE  IInv'
<1> DEFINE p == Home[t]
           k == token[t]
<1>1. /\ p \in Process /\ k \in Token /\ k < nextToken[p] /\ native = <<p, k>>
      /\ owners[p][k] = "absent"
      /\ probe'[p] # None /\ probe'[p].token = k /\ probe'[p].state = "blocked"
      /\ \A q \in Process : q # p => probe'[q] = probe[q]
  <2>1. [token |-> k, state |-> "blocked"] # None /\ Home[t] \in Process
    BY HomeAssumption, NoneAssumption DEF IInv, TypeOK
  <2> QED
    BY <2>1
    DEF IInv, TypeOK, TokensOK, TokenOK, HandlesOK, HandleOK, Handle, OwnersOK, OwnerOK,
        Working, Fresh
<1>2. \A u \in Thread :
        /\ token'[u] = token[u] /\ (u # t => pc'[u] = pc[u])
        /\ Home[u] = p /\ u # t => ~Custodian(u)
        /\ SameToken(u, t) /\ u # t => pc[u] # "release"
  <2>1. \A u \in Thread : GenerationOK(u, t)
    BY DEF IInv, GenerationsOK
  <2> QED
    BY <2>1, Alone DEF Others, Custodian, GenerationOK, Fresh
<1>3. LocalExclusion'
  BY <1>2 DEF IInv, LocalExclusion, Custodian
<1>4. HeldMeansReserved'
  BY DEF IInv, HeldMeansReserved
<1>5. TokensOK'
  BY <1>2 DEF IInv, TokensOK, TokenOK, Working, Fresh
<1>6. RegistriesOK'
  BY <1>1 DEF IInv, RegistriesOK, RegistryOK
<1>7. HandlesOK'
  <2>1. HandleOK(t)'
    BY <1>1 DEF HandleOK
  <2>2. ASSUME NEW u \in Thread, u # t PROVE HandleOK(u)'
    <3>1. Home[u] = p /\ native = Handle(u) => token[u] = k
      BY <1>1 DEF Handle
    <3> QED
      BY <1>1, <1>2, <2>2, <3>1, HomeAssumption DEF IInv, HandlesOK, HandleOK, Handle
  <2> QED
    BY <2>1, <2>2 DEF HandlesOK
<1>8. OwnersOK'
  BY <1>2 DEF IInv, OwnersOK, OwnerOK, Fresh
<1>9. GenerationsOK'
  <2> SUFFICES ASSUME NEW u \in Thread, NEW v \in Thread PROVE GenerationOK(u, v)'
    BY DEF GenerationsOK
  <2>1. GenerationOK(u, v)
    BY DEF IInv, GenerationsOK
  <2> QED
    BY <1>2, <2>1 DEF GenerationOK, SameToken, Custodian, Fresh
<1>10. ProbesOK'
  <2> SUFFICES ASSUME NEW u \in Thread PROVE ProbeOK(u)'
    BY DEF ProbesOK
  <2>1. ProbeOK(u) /\ Home[u] \in Process
    BY HomeAssumption DEF IInv, ProbesOK
  <2>2. CASE Home[u] = p
    BY <1>1, <1>2, <2>1, <2>2 DEF ProbeOK, SameToken, Custodian, Fresh
  <2>3. CASE Home[u] # p
    BY <1>1, <1>2, <2>1, <2>3 DEF ProbeOK
  <2> QED
    BY <2>2, <2>3
<1> QED
  BY <1>3, <1>4, <1>5, <1>6, <1>7, <1>8, <1>9, <1>10 DEF IInv

\* A blocked probe is taken over by a later status call, or blocked again.
LEMMA RetryProbeStep ==
  ASSUME IInv, TypeOK', NEW t \in Thread, RetryProbe(t)
  PROVE  IInv'
<1> DEFINE p == Home[t]
           k == probe[p].token
<1>1. /\ p \in Process /\ k \in Token /\ k < nextToken[p] /\ native = <<p, k>>
      /\ probe[p] # None /\ probe[p].state = "blocked" /\ probe[p] \in ProbeValue
      /\ owners[p][k] = "absent" /\ reservation[p] = k
  <2>1. p \in Process
    BY HomeAssumption
  <2>2. native = <<p, k>> => reservation[p] = k
    BY <2>1, NoneAssumption DEF IInv, HeldMeansReserved, RegistriesOK, RegistryOK, RetryProbe, Token
  <2> QED
    BY <2>1, <2>2 DEF IInv, TypeOK, RetryProbe, RegistriesOK, RegistryOK
<1>2. /\ pc[t] = "idle" /\ pc'[t] = "reprobe" /\ token'[t] = k /\ Others(t)
      /\ UNCHANGED <<reservation, nextToken, owners, native, returned>>
  BY DEF IInv, TypeOK, RetryProbe, Others
<1>3. /\ probe'[p] = [token |-> k, state |-> "closing"]
      /\ \A q \in Process : q # p => probe'[q] = probe[q]
  BY <1>1 DEF IInv, TypeOK, RetryProbe, ProbeValue
<1>4. probe'[p] # None /\ probe'[p].token = k /\ probe'[p].state = "closing"
  BY <1>1, <1>3, NoneAssumption DEF Token
<1>5. \A u \in Thread : u # t => pc'[u] = pc[u] /\ token'[u] = token[u]
  BY <1>2 DEF Others
<1>6. \A u \in Thread : Home[u] = p => ~Custodian(u)
  <2> SUFFICES ASSUME NEW u \in Thread, Home[u] = p, Custodian(u) PROVE FALSE
    OBVIOUS
  <2>1. token[u] = k
    BY <1>1, Alone
  <2>2. ProbeOK(u)
    BY DEF IInv, ProbesOK
  <2> QED
    BY <1>1, <2>1, <2>2 DEF ProbeOK, Custodian, Fresh
<1>7. LocalExclusion'
  BY <1>1, <1>2, <1>5, <1>6 DEF IInv, LocalExclusion, Custodian
<1>8. HeldMeansReserved'
  BY <1>2 DEF IInv, HeldMeansReserved
<1>9. TokensOK'
  BY <1>1, <1>2, <1>5 DEF IInv, TokensOK, TokenOK
<1>10. RegistriesOK'
  BY <1>1, <1>2, <1>3, <1>4 DEF IInv, RegistriesOK, RegistryOK
<1>11. HandlesOK'
  <2>1. HandleOK(t)'
    BY <1>1, <1>2 DEF HandleOK, Handle
  <2>2. ASSUME NEW u \in Thread, u # t PROVE HandleOK(u)'
    <3>1. HandleOK(u) /\ Home[u] \in Process
      BY HomeAssumption DEF IInv, HandlesOK
    <3> QED
      BY <1>1, <1>2, <1>3, <1>4, <1>5, <2>2, <3>1 DEF HandleOK, Handle
  <2> QED
    BY <2>1, <2>2 DEF HandlesOK
<1>12. OwnersOK'
  BY <1>1, <1>2, <1>5 DEF IInv, OwnersOK, OwnerOK, Fresh
<1>13. GenerationsOK'
  <2> SUFFICES ASSUME NEW u \in Thread, NEW v \in Thread PROVE GenerationOK(u, v)'
    BY DEF GenerationsOK
  <2>1. GenerationOK(u, v)
    BY DEF IInv, GenerationsOK
  <2> QED
    BY <1>2, <1>5, <2>1 DEF GenerationOK, SameToken, Fresh
<1>14. ProbesOK'
  <2> SUFFICES ASSUME NEW u \in Thread PROVE ProbeOK(u)'
    BY DEF ProbesOK
  <2>1. ProbeOK(u) /\ Home[u] \in Process
    BY HomeAssumption DEF IInv, ProbesOK
  <2>2. CASE u = t
    BY <1>2, <1>3, <2>2 DEF ProbeOK, Fresh
  <2>3. CASE u # t /\ Home[u] = p
    BY <1>1, <1>2, <1>4, <1>5, <1>6, <2>1, <2>3 DEF ProbeOK, Custodian
  <2>4. CASE u # t /\ Home[u] # p
    BY <1>3, <1>5, <2>1, <2>4 DEF ProbeOK
  <2> QED
    BY <2>2, <2>3, <2>4
<1> QED
  BY <1>7, <1>8, <1>9, <1>10, <1>11, <1>12, <1>13, <1>14 DEF IInv

\* restoreBlockedProbe keeps the invariant: the handle is still the probe's.
LEMMA ProbeStuckAgain ==
  ASSUME IInv, TypeOK', NEW t \in Thread, Others(t), token'[t] = token[t],
         pc[t] = "reprobe", pc'[t] = "idle",
         probe' = [probe EXCEPT ![Home[t]].state = "blocked"],
         UNCHANGED <<reservation, nextToken, owners, native, returned>>
  PROVE  IInv'
<1> DEFINE p == Home[t]
           k == token[t]
<1>1. /\ p \in Process /\ k \in Token /\ native = <<p, k>>
      /\ probe[p] = [token |-> k, state |-> "closing"]
      /\ probe[p] # None
  BY HomeAssumption, NoneAssumption
  DEF IInv, TokensOK, TokenOK, HandlesOK, HandleOK, Handle, ProbesOK, ProbeOK, Working, Token
<1>2. /\ probe'[p] = [token |-> k, state |-> "blocked"]
      /\ probe'[p] # None
      /\ \A q \in Process : q # p => probe'[q] = probe[q]
  <2>1. [token |-> k, state |-> "blocked"] # None
    BY <1>1, NoneAssumption DEF Token
  <2>2. probe'[p] = [token |-> k, state |-> "blocked"]
    BY <1>1 DEF IInv, TypeOK
  <2>3. \A q \in Process : q # p => probe'[q] = probe[q]
    BY <1>1 DEF IInv, TypeOK
  <2> QED
    BY <2>1, <2>2, <2>3
<1>3. probe[p].token = k /\ probe'[p].token = k
  BY <1>1, <1>2
<1>4. \A u \in Thread :
        /\ token'[u] = token[u] /\ (u # t => pc'[u] = pc[u])
        /\ Home[u] = p /\ u # t => ~Custodian(u)
  BY Alone DEF Others, Custodian
<1>5. LocalExclusion'
  BY <1>4 DEF IInv, LocalExclusion, Custodian
<1>6. HeldMeansReserved'
  BY DEF IInv, HeldMeansReserved
<1>7. TokensOK'
  BY <1>4 DEF IInv, TokensOK, TokenOK, Working, Fresh
<1>8. RegistriesOK'
  BY <1>1, <1>2, <1>3 DEF IInv, RegistriesOK, RegistryOK
<1>9. HandlesOK'
  <2> SUFFICES ASSUME NEW u \in Thread PROVE HandleOK(u)'
    BY DEF HandlesOK
  <2>1. HandleOK(u) /\ Home[u] \in Process
    BY HomeAssumption DEF IInv, HandlesOK
  <2> QED
    BY <1>1, <1>2, <1>3, <1>4, <2>1 DEF HandleOK, Handle
<1>10. OwnersOK'
  BY <1>4 DEF IInv, OwnersOK, OwnerOK, Fresh
<1>11. GenerationsOK'
  BY <1>4 DEF IInv, GenerationsOK, GenerationOK, SameToken, Fresh
<1>12. ProbesOK'
  <2> SUFFICES ASSUME NEW u \in Thread PROVE ProbeOK(u)'
    BY DEF ProbesOK
  <2>1. ProbeOK(u) /\ Home[u] \in Process
    BY HomeAssumption DEF IInv, ProbesOK
  <2>2. CASE u = t
    BY <1>4, <2>2 DEF ProbeOK, Fresh
  <2>3. CASE u # t /\ Home[u] = p
    BY <1>1, <1>3, <1>4, <2>1, <2>3 DEF ProbeOK, Custodian, Fresh
  <2>4. CASE u # t /\ Home[u] # p
    BY <1>2, <1>4, <2>1, <2>4 DEF ProbeOK
  <2> QED
    BY <2>2, <2>3, <2>4
<1> QED
  BY <1>5, <1>6, <1>7, <1>8, <1>9, <1>10, <1>11, <1>12 DEF IInv

(***************************************************************************)
(* Types.                                                                  *)
(***************************************************************************)
LEMMA AppendType ==
  ASSUME NEW S, NEW s \in Seq(S), NEW e \in S
  PROVE  Append(s, e) \in Seq(S) /\ Len(Append(s, e)) = Len(s) + 1
OBVIOUS

\* Removing a ticket from a queue gives a queue that is no longer.
LEMMA WithoutType ==
  ASSUME NEW S, NEW s \in Seq(S), NEW e
  PROVE  Without(s, e) \in Seq(S) /\ Len(Without(s, e)) <= Len(s)
<1>1. CASE \E i \in 1..Len(s) : s[i] = e
  <2> DEFINE i == CHOOSE i \in 1..Len(s) : s[i] = e
  <2>1. i \in 1..Len(s) /\ Len(s) - 1 \in Nat
    BY <1>1
  <2>2. \A j \in 1..Len(s) - 1 : (IF j < i THEN s[j] ELSE s[j + 1]) \in S
    BY <2>1
  <2> DEFINE w == [j \in 1..Len(s) - 1 |-> IF j < i THEN s[j] ELSE s[j + 1]]
  <2>3. w \in Seq(S)
    BY <2>1, <2>2
  <2>4. Len(w) <= Len(s)
    <3>1. DOMAIN w = 1..Len(s) - 1
      OBVIOUS
    <3> QED
      BY <2>1, <2>3, <3>1
  <2> QED
    BY <1>1, <2>3, <2>4 DEF Without
<1>2. CASE ~ \E i \in 1..Len(s) : s[i] = e
  BY <1>2 DEF Without
<1> QED
  BY <1>1, <1>2

\* releaseLocal keeps the type of the reservations.
LEMMA ReservationType ==
  ASSUME TypeOK, NEW p, NEW k
  PROVE  ReservationWithout(p, k) \in [Process -> Nat \cup {None}]
BY DEF TypeOK, ReservationWithout

\* Updating one owner keeps the type of the owners.
LEMMA OwnersType ==
  ASSUME TypeOK, NEW p \in Process, NEW k \in Token,
         NEW s \in {"absent", "available", "closing"}
  PROVE  [owners EXCEPT ![p][k] = s] \in [Process -> [Token -> {"absent", "available", "closing"}]]
<1>1. [owners[p] EXCEPT ![k] = s] \in [Token -> {"absent", "available", "closing"}]
  BY DEF TypeOK
<1> QED
  BY <1>1 DEF TypeOK

\* The steps on the queue keep the types.
LEMMA QueueTypes ==
  ASSUME TypeOK, NEW t \in Thread,
         Enqueue(t) \/ Retire(t) \/ Expire(t) \/ Admit(t) \/ GiveUp(t)
  PROVE  TypeOK'
<1>1. Home[t] \in Process /\ queue[Home[t]] \in Seq(Thread)
      /\ \A p \in Process : queue[p] \in Seq(Thread) /\ Len(queue[p]) \in Nat
  BY HomeAssumption DEF TypeOK
<1>2. CASE Enqueue(t)
  <2>4. \A p \in Process : Len(queue'[p]) <= QueueLimit
    <3>1. /\ queue'[Home[t]] = Append(queue[Home[t]], t) /\ Len(queue[Home[t]]) < QueueLimit
          /\ \A p \in Process : p # Home[t] => queue'[p] = queue[p]
      BY <1>1, <1>2 DEF TypeOK, Enqueue
    <3>2. Len(queue'[Home[t]]) <= QueueLimit
      BY <1>1, <3>1, AppendType, BoundsAssumption
    <3> QED
      BY <3>1, <3>2 DEF TypeOK
  <2>1. queue' \in [Process -> Seq(Thread)]
    BY <1>1, <1>2, AppendType DEF TypeOK, Enqueue
  <2>2. behind' \in [Thread -> SUBSET Thread]
    BY <1>2 DEF TypeOK, Enqueue
  <2>3. pc' \in [Thread -> PC]
    BY <1>2 DEF TypeOK, Enqueue, PC
  <2> QED
    BY <1>2, <2>1, <2>2, <2>3, <2>4 DEF TypeOK, Enqueue, registryVars
<1>3. CASE Retire(t)
  <2>3. \A p \in Process : Len(queue'[p]) <= QueueLimit
    <3>1. /\ queue'[Home[t]] = Without(queue[Home[t]], t)
          /\ \A p \in Process : p # Home[t] => queue'[p] = queue[p]
      BY <1>1, <1>3 DEF TypeOK, Retire
    <3>2. Without(queue[Home[t]], t) \in Seq(Thread)
          /\ Len(Without(queue[Home[t]], t)) <= Len(queue[Home[t]])
      BY <1>1, WithoutType
    <3>3. Len(queue'[Home[t]]) \in Nat /\ Len(queue[Home[t]]) <= QueueLimit
      BY <1>1, <3>1, <3>2 DEF TypeOK
    <3>4. Len(queue'[Home[t]]) <= QueueLimit
      BY <1>1, <3>1, <3>2, <3>3, BoundsAssumption
    <3> QED
      BY <3>1, <3>4 DEF TypeOK
  <2>1. queue' \in [Process -> Seq(Thread)]
    BY <1>1, <1>3, WithoutType DEF TypeOK, Retire
  <2>2. pc' \in [Thread -> PC]
    BY <1>3 DEF TypeOK, Retire, PC
  <2> QED
    BY <1>3, <2>1, <2>2, <2>3 DEF TypeOK, Retire, registryVars
<1>4. CASE Expire(t)
  BY <1>4 DEF TypeOK, Expire, registryVars
<1>5. CASE Admit(t)
  BY <1>5 DEF TypeOK, Admit, waitVars, registryVars, PC
<1>6. CASE GiveUp(t)
  BY <1>6 DEF TypeOK, GiveUp, waitVars, registryVars, PC
<1> QED
  BY <1>2, <1>3, <1>4, <1>5, <1>6

\* The steps of an acquisition keep the types.
LEMMA AcquireTypes ==
  ASSUME IInv, NEW t \in Thread,
         \/ TryReserve(t) \/ OpenNative(t) \/ OpenFails(t) \/ RegisterOwner(t)
         \/ WriteFails(t) \/ StartAction(t) \/ EndAction(t)
  PROVE  TypeOK'
<1>1. TypeOK /\ Home[t] \in Process /\ (pc[t] \in Working => token[t] \in Token)
  BY HomeAssumption DEF IInv, TokensOK, TokenOK
<1>2. CASE TryReserve(t)
  BY <1>1, <1>2 DEF TypeOK, TryReserve, Reserve, waitVars, PC
<1>3. CASE OpenNative(t)
  BY <1>1, <1>3 DEF TypeOK, OpenNative, Handle, waitVars, registryVars, PC
<1>4. CASE OpenFails(t)
  <2>1. reservation' \in [Process -> Nat \cup {None}]
    BY <1>1, <1>4, ReservationType DEF OpenFails
  <2> QED
    BY <1>1, <1>4, <2>1 DEF TypeOK, OpenFails, waitVars, PC
<1>5. CASE RegisterOwner(t)
  <2>1. owners' \in [Process -> [Token -> {"absent", "available", "closing"}]]
    BY <1>1, <1>5, OwnersType DEF RegisterOwner, Working, Fresh
  <2> QED
    BY <1>1, <1>5, <2>1 DEF TypeOK, RegisterOwner, waitVars, PC
<1>6. CASE WriteFails(t)
  <2>1. reservation' \in [Process -> Nat \cup {None}]
    BY <1>1, <1>6, ReservationType DEF WriteFails, TypeOK
  <2> QED
    BY <1>1, <1>6, <2>1 DEF TypeOK, WriteFails, waitVars, PC
<1>7. CASE StartAction(t)
  BY <1>1, <1>7 DEF TypeOK, StartAction, waitVars, registryVars, PC
<1>8. CASE EndAction(t)
  <2>1. token[t] \in Token
    BY <1>1, <1>8 DEF EndAction, Working, Fresh
  <2>2. returned' \in [Process -> SUBSET Token]
    BY <1>1, <1>8, <2>1 DEF TypeOK, EndAction
  <2> QED
    BY <1>1, <1>8, <2>2 DEF TypeOK, EndAction, waitVars, registryVars, PC
<1> QED
  BY <1>2, <1>3, <1>4, <1>5, <1>6, <1>7, <1>8

\* The steps of a release keep the types.
LEMMA ReleaseTypes ==
  ASSUME IInv, NEW t \in Thread,
         \/ Release(t) \/ (\E k \in Token : ReleaseAgain(t, k)) \/ CloseOwner(t)
         \/ CloseOwnerSticks(t) \/ CompleteOwnerRelease(t)
  PROVE  TypeOK'
<1>1. TypeOK /\ Home[t] \in Process /\ (pc[t] \in Working => token[t] \in Token)
  BY HomeAssumption DEF IInv, TokensOK, TokenOK
<1>2. CASE Release(t)
  <2>1. owners' \in [Process -> [Token -> {"absent", "available", "closing"}]]
    <3>1. CASE UNCHANGED owners
      BY <1>1, <3>1 DEF TypeOK
    <3>2. CASE ClaimOwner(Home[t], token[t])
      BY <1>1, <1>2, <3>2, OwnersType DEF Release, ClaimOwner, Working
    <3> QED
      BY <1>2, <3>1, <3>2 DEF Release
  <2> QED
    BY <1>1, <1>2, <2>1 DEF TypeOK, Release, waitVars, PC
<1>3. CASE \E k \in Token : ReleaseAgain(t, k)
  <2> PICK k \in Token : ReleaseAgain(t, k)
    BY <1>3
  <2>1. owners' \in [Process -> [Token -> {"absent", "available", "closing"}]]
    BY <1>1, OwnersType DEF ReleaseAgain, ClaimOwner
  <2>2. token' \in [Thread -> Nat]
    BY <1>1 DEF TypeOK, ReleaseAgain, Token
  <2> QED
    BY <1>1, <2>1, <2>2 DEF TypeOK, ReleaseAgain, waitVars, PC
<1>4. CASE CloseOwner(t)
  BY <1>1, <1>4 DEF TypeOK, CloseOwner, waitVars, registryVars, PC
<1>5. CASE CloseOwnerSticks(t)
  <2>1. owners' \in [Process -> [Token -> {"absent", "available", "closing"}]]
    BY <1>1, <1>5, OwnersType DEF CloseOwnerSticks, Working
  <2> QED
    BY <1>1, <1>5, <2>1 DEF TypeOK, CloseOwnerSticks, waitVars, PC
<1>6. CASE CompleteOwnerRelease(t)
  <2>1. owners' \in [Process -> [Token -> {"absent", "available", "closing"}]]
    BY <1>1, <1>6, OwnersType DEF CompleteOwnerRelease, Working
  <2>2. reservation' \in [Process -> Nat \cup {None}]
    BY <1>1, <1>6, ReservationType DEF CompleteOwnerRelease
  <2> QED
    BY <1>1, <1>6, <2>1, <2>2 DEF TypeOK, CompleteOwnerRelease, waitVars, PC
<1> QED
  BY <1>2, <1>3, <1>4, <1>5, <1>6

\* The steps of a probe keep the types.
LEMMA ProbeTypes ==
  ASSUME IInv, NEW t \in Thread,
         \/ StartProbe(t) \/ OpenProbe(t) \/ OpenProbeFails(t) \/ CloseProbe(t)
         \/ EndProbe(t) \/ RetryProbe(t) \/ CloseRetriedProbe(t)
  PROVE  TypeOK'
<1>1. TypeOK /\ Home[t] \in Process /\ token[t] \in Nat
  BY HomeAssumption DEF IInv, TypeOK
<1>2. CASE StartProbe(t)
  BY <1>1, <1>2 DEF TypeOK, StartProbe, Reserve, waitVars, PC
<1>3. CASE OpenProbe(t)
  BY <1>1, <1>3 DEF TypeOK, OpenProbe, Handle, waitVars, registryVars, PC
<1>4. CASE OpenProbeFails(t)
  BY <1>1, <1>4 DEF TypeOK, OpenProbeFails, waitVars, registryVars, PC
<1>5. CASE CloseProbe(t)
  <2>1. [token |-> token[t], state |-> "blocked"] \in ProbeValue
    BY <1>1 DEF ProbeValue
  <2>2. probe' \in [Process -> ProbeValue \cup {None}]
    BY <1>1, <1>5, <2>1 DEF TypeOK, CloseProbe
  <2> QED
    BY <1>1, <1>5, <2>2 DEF TypeOK, CloseProbe, waitVars, PC
<1>6. CASE EndProbe(t)
  <2>1. reservation' \in [Process -> Nat \cup {None}]
    BY <1>1, <1>6, ReservationType DEF EndProbe, TypeOK
  <2> QED
    BY <1>1, <1>6, <2>1 DEF TypeOK, EndProbe, waitVars, PC
<1>7. CASE RetryProbe(t)
  <2>1. probe[Home[t]] \in ProbeValue
    BY <1>1, <1>7 DEF TypeOK, RetryProbe
  <2>2. probe' \in [Process -> ProbeValue \cup {None}]
    BY <1>1, <1>7, <2>1 DEF TypeOK, RetryProbe, ProbeValue
  <2>3. token' \in [Thread -> Nat]
    BY <1>1, <1>7, <2>1 DEF TypeOK, RetryProbe, ProbeValue
  <2> QED
    BY <1>1, <1>7, <2>2, <2>3 DEF TypeOK, RetryProbe, waitVars, PC
<1>8. CASE CloseRetriedProbe(t)
  <2>1. probe[Home[t]] = [token |-> token[t], state |-> "closing"]
    BY <1>8 DEF IInv, ProbesOK, ProbeOK, CloseRetriedProbe
  <2>2. [probe[Home[t]] EXCEPT !.state = "blocked"] \in ProbeValue
    BY <1>1, <2>1 DEF ProbeValue
  <2>3. probe' \in [Process -> ProbeValue \cup {None}]
    BY <1>1, <1>8, <2>2 DEF TypeOK, CloseRetriedProbe
  <2>4. reservation' \in [Process -> Nat \cup {None}]
    BY <1>1, <1>8, ReservationType DEF CloseRetriedProbe, TypeOK
  <2> QED
    BY <1>1, <1>8, <2>3, <2>4 DEF TypeOK, CloseRetriedProbe, waitVars, PC
<1> QED
  BY <1>2, <1>3, <1>4, <1>5, <1>6, <1>7, <1>8

(***************************************************************************)
(* The invariant.                                                          *)
(***************************************************************************)
\* A crash resets one process and touches no other.
LEMMA CrashStep ==
  ASSUME IInv, NEW p \in Process, Crash(p)
  PROVE  IInv'
<1>1. \A u \in Thread : Home[u] \in Process
  BY HomeAssumption
<1>2. TypeOK'
  <2>1. owners' \in [Process -> [Token -> {"absent", "available", "closing"}]]
    <3>1. [k \in Token |-> "absent"] \in [Token -> {"absent", "available", "closing"}]
      OBVIOUS
    <3>2. owners' = [owners EXCEPT ![p] = [k \in Token |-> "absent"]]
      BY DEF Crash
    <3> QED
      BY <3>1, <3>2 DEF IInv, TypeOK
  <2>2. queue' \in [Process -> Seq(Thread)] /\ \A q \in Process : Len(queue'[q]) <= QueueLimit
    <3>1. queue' = [queue EXCEPT ![p] = <<>>] /\ <<>> \in Seq(Thread) /\ Len(<<>>) = 0
      BY DEF Crash
    <3>2. 0 <= QueueLimit
      BY BoundsAssumption
    <3> QED
      BY <3>1, <3>2 DEF IInv, TypeOK
  <2>3. pc' \in [Thread -> PC] /\ token' \in [Thread -> Nat]
    BY DEF IInv, TypeOK, Crash, PC
  <2>4. expired' \in [Thread -> BOOLEAN]
    BY DEF IInv, TypeOK, Crash
  <2>5. behind' \in [Thread -> SUBSET Thread]
    BY DEF IInv, TypeOK, Crash
  <2>6. reservation' \in [Process -> Nat \cup {None}] /\ nextToken' \in [Process -> Nat \ {0}]
    BY DEF IInv, TypeOK, Crash
  <2>7. probe' \in [Process -> ProbeValue \cup {None}] /\ returned' \in [Process -> SUBSET Token]
    BY DEF IInv, TypeOK, Crash
  <2>8. native' \in (Process \X Nat) \cup {None}
    BY DEF IInv, TypeOK, Crash
  <2> QED
    BY <2>1, <2>2, <2>3, <2>4, <2>5, <2>6, <2>7, <2>8 DEF TypeOK
<1>3. \A u \in Thread :
        /\ Home[u] = p => pc'[u] = "idle" /\ token'[u] = 0
        /\ Home[u] # p => pc'[u] = pc[u] /\ token'[u] = token[u]
  BY DEF Crash
<1>4. /\ nextToken'[p] = 1 /\ probe'[p] = None /\ returned'[p] = {}
      /\ \A k \in Token : owners'[p][k] = "absent"
      /\ native' = IF native # None /\ native[1] = p THEN None ELSE native
  BY DEF IInv, TypeOK, Crash
<1>5. \A q \in Process : q # p =>
        /\ reservation'[q] = reservation[q] /\ nextToken'[q] = nextToken[q]
        /\ owners'[q] = owners[q] /\ probe'[q] = probe[q] /\ returned'[q] = returned[q]
  BY DEF IInv, TypeOK, Crash
<1>6. \A q \in Process : q # p =>
        \A k \in Nat : native = <<q, k>> <=> native' = <<q, k>>
  <2>1. native \in (Process \X Nat) \cup {None}
    BY DEF IInv, TypeOK
  <2> QED
    BY <1>4, <2>1, NoneAssumption
<1>7. LocalExclusion'
  BY <1>1, <1>3, <1>5 DEF IInv, LocalExclusion, Custodian
<1>8. HeldMeansReserved'
  <2>1. native' # None => native[1] \in Process /\ native[1] # p /\ native' = native
    BY <1>4 DEF IInv, TypeOK
  <2>2. native' # None => reservation'[native'[1]] = native'[2]
    BY <1>5, <2>1 DEF IInv, HeldMeansReserved
  <2>3. ASSUME NEW q \in Process, NEW k \in Token, owners'[q][k] = "available"
        PROVE  native' = <<q, k>>
    <3>1. q # p /\ owners[q][k] = "available"
      BY <1>4, <1>5, <2>3
    <3>2. native = <<q, k>>
      BY <3>1 DEF IInv, HeldMeansReserved
    <3> QED
      BY <1>6, <3>1, <3>2 DEF Token
  <2> QED
    BY <2>2, <2>3 DEF HeldMeansReserved
<1>9. TokensOK'
  BY <1>1, <1>3, <1>4, <1>5 DEF IInv, TokensOK, TokenOK, Working, Fresh
<1>10. RegistriesOK'
  <2> SUFFICES ASSUME NEW q \in Process PROVE RegistryOK(q)'
    BY DEF RegistriesOK
  <2>1. CASE q = p
    BY <1>4, <2>1 DEF RegistryOK
  <2>2. CASE q # p
    BY <1>5, <1>6, <2>2 DEF IInv, RegistriesOK, RegistryOK, Token
  <2> QED
    BY <2>1, <2>2
<1>11. HandlesOK'
  <2> SUFFICES ASSUME NEW u \in Thread PROVE HandleOK(u)'
    BY DEF HandlesOK
  <2>1. CASE Home[u] = p
    BY <1>3, <2>1 DEF HandleOK
  <2>2. CASE Home[u] # p
    <3>1. token[u] \in Nat
      BY DEF IInv, TypeOK
    <3> QED
      BY <1>1, <1>3, <1>5, <1>6, <2>2, <3>1 DEF IInv, HandlesOK, HandleOK, Handle
  <2> QED
    BY <2>1, <2>2
<1>12. OwnersOK'
  <2> SUFFICES ASSUME NEW u \in Thread PROVE OwnerOK(u)'
    BY DEF OwnersOK
  <2>1. CASE Home[u] = p
    BY <1>3, <2>1 DEF OwnerOK, Fresh
  <2>2. CASE Home[u] # p
    BY <1>1, <1>3, <1>5, <2>2 DEF IInv, OwnersOK, OwnerOK
  <2> QED
    BY <2>1, <2>2
<1>13. GenerationsOK'
  BY <1>1, <1>3 DEF IInv, GenerationsOK, GenerationOK, SameToken
<1>14. ProbesOK'
  <2> SUFFICES ASSUME NEW u \in Thread PROVE ProbeOK(u)'
    BY DEF ProbesOK
  <2>1. CASE Home[u] = p
    BY <1>3, <2>1 DEF ProbeOK, Fresh
  <2>2. CASE Home[u] # p
    BY <1>1, <1>3, <1>5, <2>2 DEF IInv, ProbesOK, ProbeOK
  <2> QED
    BY <2>1, <2>2
<1> QED
  BY <1>2, <1>7, <1>8, <1>9, <1>10, <1>11, <1>12, <1>13, <1>14 DEF IInv

\* The inductive invariant holds initially.
LEMMA InitInv == Init => IInv
<1> SUFFICES ASSUME Init PROVE IInv
  OBVIOUS
<1>0. \A p \in Process : Len(queue[p]) <= QueueLimit
  <2>1. \A p \in Process : queue[p] = <<>>
    BY DEF Init
  <2> QED
    BY <2>1, BoundsAssumption
<1>1. TypeOK
  BY <1>0 DEF Init, TypeOK, PC
<1>2. \A t \in Thread : pc[t] = "idle" /\ token[t] = 0 /\ Home[t] \in Process
  BY HomeAssumption DEF Init
<1>3. \A p \in Process :
        /\ nextToken[p] = 1 /\ probe[p] = None /\ returned[p] = {}
        /\ \A k \in Token : owners[p][k] = "absent"
  BY DEF Init
<1>4. LocalExclusion /\ HeldMeansReserved
  BY <1>2, <1>3 DEF Init, LocalExclusion, HeldMeansReserved, Custodian
<1>5. TokensOK /\ RegistriesOK
  BY <1>2, <1>3 DEF TokensOK, TokenOK, RegistriesOK, RegistryOK, Working, Fresh
<1>6. HandlesOK /\ OwnersOK
  BY <1>2 DEF HandlesOK, HandleOK, OwnersOK, OwnerOK, Fresh
<1>7. GenerationsOK /\ ProbesOK
  BY <1>2 DEF GenerationsOK, GenerationOK, ProbesOK, ProbeOK, Fresh
<1> QED
  BY <1>1, <1>4, <1>5, <1>6, <1>7 DEF IInv

\* A thread's own steps.
LEMMA QueueSteps ==
  ASSUME IInv, NEW t \in Thread,
         Enqueue(t) \/ Retire(t) \/ Expire(t) \/ Admit(t) \/ GiveUp(t)
  PROVE  IInv'
<1>1. TypeOK'
  BY QueueTypes DEF IInv
<1>2. Others(t) /\ UNCHANGED <<registryVars, native, returned, token>>
  BY DEF IInv, TypeOK, Others, Enqueue, Retire, Expire, Admit, GiveUp
<1>3. pc'[t] = pc[t] \/ pc'[t] \notin Working
  BY DEF IInv, TypeOK, Enqueue, Retire, Expire, Admit, GiveUp, Working, Fresh
<1> QED
  BY <1>1, <1>2, <1>3, Quiet

\* The steps of an acquisition keep the invariant.
LEMMA AcquireSteps ==
  ASSUME IInv, NEW t \in Thread,
         \/ TryReserve(t) \/ OpenNative(t) \/ OpenFails(t) \/ RegisterOwner(t)
         \/ WriteFails(t) \/ StartAction(t) \/ EndAction(t)
  PROVE  IInv'
<1>1. TypeOK'
  BY AcquireTypes
<1>2. CASE TryReserve(t)
  BY <1>1, <1>2, NewReservation DEF TryReserve, Working, Fresh
<1>3. CASE OpenNative(t)
  <2>1. Others(t) /\ token'[t] = token[t] /\ <<pc[t], pc'[t]>> = <<"reserved", "writing">>
    BY <1>3 DEF IInv, TypeOK, OpenNative, Others
  <2> QED
    BY <1>1, <1>3, <2>1, Opened DEF OpenNative
<1>4. CASE OpenFails(t)
  <2>1. /\ Others(t) /\ token'[t] = token[t] /\ pc'[t] \notin Working
        /\ pc[t] = "reserved" /\ native # Handle(t)
        /\ UNCHANGED <<nextToken, owners, probe, native, returned>>
    BY <1>4 DEF IInv, TypeOK, OpenFails, Others, Working, Fresh, HandlesOK, HandleOK
  <2>2. \A u \in Thread : u # t /\ SameToken(u, t) => ~Custodian(u)
    BY <2>1, Alone DEF Custodian, SameToken
  <2> QED
    BY <1>1, <1>4, <2>1, <2>2, Abandoned DEF OpenFails
<1>5. CASE RegisterOwner(t)
  BY <1>1, <1>5, RegisterOwnerStep
<1>6. CASE WriteFails(t)
  <2>1. /\ Others(t) /\ token'[t] = token[t] /\ pc'[t] \notin Working
        /\ pc[t] = "writing"
        /\ UNCHANGED <<nextToken, owners, probe, returned>>
    BY <1>6 DEF IInv, TypeOK, WriteFails, Others, Working, Fresh
  <2>2. CASE native' = None /\ reservation' = ReservationWithout(Home[t], token[t])
    BY <1>1, <2>1, <2>2, Freed
  <2>3. CASE UNCHANGED <<native, reservation>>
    BY <1>1, <2>1, <2>3, Quiet DEF registryVars
  <2> QED
    BY <1>6, <2>2, <2>3 DEF WriteFails
<1>7. CASE StartAction(t)
  BY <1>1, <1>7, StartActionStep
<1>8. CASE EndAction(t)
  BY <1>1, <1>8, EndActionStep
<1> QED
  BY <1>2, <1>3, <1>4, <1>5, <1>6, <1>7, <1>8

\* The steps of a release keep the invariant, a late second one included.
LEMMA ReleaseSteps ==
  ASSUME IInv, NEW t \in Thread,
         \/ Release(t) \/ (\E k \in Token : ReleaseAgain(t, k)) \/ CloseOwner(t)
         \/ CloseOwnerSticks(t) \/ CompleteOwnerRelease(t)
  PROVE  IInv'
<1>1. TypeOK'
  BY ReleaseTypes
<1>2. CASE Release(t)
  <2>1. /\ Others(t) /\ token'[t] = token[t] /\ pc[t] = "release" /\ token[t] \in Token
        /\ UNCHANGED <<reservation, nextToken, probe, native, returned>>
    BY <1>2 DEF IInv, TypeOK, TokensOK, TokenOK, Release, Others, Working
  <2>2. CASE owners[Home[t]][token[t]] = "available"
    <3>1. \A u \in Thread : u # t /\ Home[u] = Home[t] /\ token[u] = token[t] => pc[u] \notin Fresh
      BY <2>1 DEF IInv, GenerationsOK, GenerationOK, SameToken
    <3>2. ClaimOwner(Home[t], token[t]) /\ pc'[t] = "closing"
      BY <1>2, <2>2 DEF IInv, TypeOK, Release
    <3> QED
      BY <1>1, <2>1, <2>2, <3>1, <3>2, Claimed
  <2>3. CASE owners[Home[t]][token[t]] # "available"
    <3>1. UNCHANGED owners /\ pc'[t] = "retire"
      BY <1>2, <2>3 DEF IInv, TypeOK, Release
    <3> QED
      BY <1>1, <2>1, <3>1, Quiet DEF registryVars, Working, Fresh
  <2> QED
    BY <2>2, <2>3
<1>3. CASE \E k \in Token : ReleaseAgain(t, k)
  <2> PICK k \in Token : ReleaseAgain(t, k)
    BY <1>3
  <2>1. /\ Others(t) /\ token'[t] = k /\ pc[t] = "idle" /\ pc'[t] = "closing"
        /\ owners[Home[t]][k] = "available" /\ ClaimOwner(Home[t], k)
        /\ UNCHANGED <<reservation, nextToken, probe, native, returned>>
    BY DEF IInv, TypeOK, ReleaseAgain, Others
  <2>2. \A u \in Thread : u # t /\ Home[u] = Home[t] /\ token[u] = k => pc[u] \notin Fresh
    BY DEF IInv, OwnersOK, OwnerOK, ReleaseAgain
  <2>3. pc[t] \notin Working
    BY <2>1 DEF Working, Fresh
  <2> QED
    BY <1>1, <2>1, <2>2, <2>3, Claimed
<1>4. CASE CloseOwner(t)
  <2>1. Others(t) /\ token'[t] = token[t] /\ <<pc[t], pc'[t]>> = <<"closing", "closed">>
    BY <1>4 DEF IInv, TypeOK, CloseOwner, Others
  <2> QED
    BY <1>1, <1>4, <2>1, Closed DEF CloseOwner, registryVars
<1>5. CASE CloseOwnerSticks(t)
  BY <1>1, <1>5, CloseOwnerSticksStep
<1>6. CASE CompleteOwnerRelease(t)
  <2>1. /\ Others(t) /\ token'[t] = token[t] /\ pc'[t] \notin Working
        /\ pc[t] = "closed" /\ native # Handle(t)
        /\ UNCHANGED <<nextToken, probe, native, returned>>
    BY <1>6 DEF IInv, TypeOK, CompleteOwnerRelease, Others, Working, Fresh, HandlesOK, HandleOK
  <2>2. \A u \in Thread : u # t /\ SameToken(u, t) => ~Custodian(u)
    BY <2>1, Alone DEF Custodian, SameToken
  <2>3. \A q \in Process, i \in Token :
          \/ owners'[q][i] = owners[q][i]
          \/ (q = Home[t] /\ i = token[t] /\ owners'[q][i] = "absent")
    BY <1>6 DEF IInv, TypeOK, CompleteOwnerRelease
  <2> QED
    BY <1>1, <1>6, <2>1, <2>2, <2>3, Abandoned DEF CompleteOwnerRelease
<1> QED
  BY <1>2, <1>3, <1>4, <1>5, <1>6

\* The steps of a status probe keep the invariant, the stuck closes included.
LEMMA ProbeSteps ==
  ASSUME IInv, NEW t \in Thread,
         \/ StartProbe(t) \/ OpenProbe(t) \/ OpenProbeFails(t) \/ CloseProbe(t)
         \/ EndProbe(t) \/ RetryProbe(t) \/ CloseRetriedProbe(t)
  PROVE  IInv'
<1>1. TypeOK'
  BY ProbeTypes
<1>2. CASE StartProbe(t)
  BY <1>1, <1>2, NewReservation DEF StartProbe, Working, Fresh
<1>3. CASE OpenProbe(t)
  <2>1. Others(t) /\ token'[t] = token[t] /\ <<pc[t], pc'[t]>> = <<"probe", "probing">>
    BY <1>3 DEF IInv, TypeOK, OpenProbe, Others
  <2> QED
    BY <1>1, <1>3, <2>1, Opened DEF OpenProbe
<1>4. CASE OpenProbeFails(t)
  BY <1>1, <1>4, OpenProbeFailsStep
<1>5. CASE CloseProbe(t)
  <2>1. /\ Others(t) /\ token'[t] = token[t] /\ pc[t] = "probing" /\ pc'[t] = "probed"
        /\ UNCHANGED <<reservation, nextToken, owners, returned>>
    BY <1>5 DEF IInv, TypeOK, CloseProbe, Others
  <2>2. CASE native' = None /\ UNCHANGED probe
    BY <1>1, <2>1, <2>2, Closed
  <2>3. CASE /\ probe' = [probe EXCEPT ![Home[t]] = [token |-> token[t], state |-> "blocked"]]
             /\ UNCHANGED native
    BY <1>1, <2>1, <2>3, ProbeStuck
  <2> QED
    BY <1>5, <2>2, <2>3 DEF CloseProbe
<1>6. CASE EndProbe(t)
  <2>1. /\ Others(t) /\ token'[t] = token[t] /\ pc[t] = "probed" /\ pc'[t] \notin Working
        /\ UNCHANGED <<nextToken, owners, probe, native, returned>>
    BY <1>6 DEF IInv, TypeOK, EndProbe, Others, Working, Fresh
  <2>2. CASE probe[Home[t]] # None /\ probe[Home[t]].token = token[t]
    <3>1. UNCHANGED reservation
      BY <1>6, <2>2 DEF EndProbe
    <3> QED
      BY <1>1, <2>1, <3>1, Quiet DEF registryVars
  <2>3. CASE ~(probe[Home[t]] # None /\ probe[Home[t]].token = token[t])
    <3>1. native # Handle(t)
      BY <2>1, <2>3 DEF IInv, HandlesOK, HandleOK
    <3>2. \A u \in Thread : u # t /\ SameToken(u, t) => ~Custodian(u)
      <4> SUFFICES ASSUME NEW u \in Thread, u # t, SameToken(u, t), Custodian(u)
                   PROVE  FALSE
        OBVIOUS
      <4>1. pc[u] = "reprobe"
        BY <2>1 DEF IInv, GenerationsOK, GenerationOK, SameToken, Custodian, Fresh
      <4>2. probe[Home[u]] = [token |-> token[u], state |-> "closing"] /\ token[u] \in Nat
        BY <4>1 DEF IInv, TypeOK, ProbesOK, ProbeOK
      <4>3. probe[Home[u]] # None /\ probe[Home[u]].token = token[u]
        BY <4>2, NoneAssumption
      <4> QED
        BY <2>3, <4>3 DEF SameToken
    <3>3. reservation' = ReservationWithout(Home[t], token[t])
      BY <1>6, <2>3 DEF EndProbe
    <3> QED
      BY <1>1, <2>1, <3>1, <3>2, <3>3, Abandoned
  <2> QED
    BY <2>2, <2>3
<1>7. CASE RetryProbe(t)
  BY <1>1, <1>7, RetryProbeStep
<1>8. CASE CloseRetriedProbe(t)
  <2>1. /\ Others(t) /\ token'[t] = token[t] /\ pc[t] = "reprobe" /\ pc'[t] = "idle"
        /\ UNCHANGED <<nextToken, owners, returned>>
    BY <1>8 DEF IInv, TypeOK, CloseRetriedProbe, Others
  <2>2. CASE /\ native' = None /\ probe' = [probe EXCEPT ![Home[t]] = None]
             /\ reservation' = ReservationWithout(Home[t], token[t])
    <3>1. \A q \in Process : probe'[q] = probe[q] \/ (q = Home[t] /\ probe'[q] = None)
      BY <2>2 DEF IInv, TypeOK
    <3>2. probe'[Home[t]] = None
      BY <2>2, HomeAssumption DEF IInv, TypeOK
    <3>3. pc'[t] \notin Working
      BY <2>1 DEF Working, Fresh
    <3> QED
      BY <1>1, <2>1, <2>2, <3>1, <3>2, <3>3, Freed
  <2>3. CASE /\ probe' = [probe EXCEPT ![Home[t]].state = "blocked"]
             /\ UNCHANGED <<native, reservation>>
    BY <1>1, <2>1, <2>3, ProbeStuckAgain
  <2> QED
    BY <1>8, <2>2, <2>3 DEF CloseRetriedProbe
<1> QED
  BY <1>2, <1>3, <1>4, <1>5, <1>6, <1>7, <1>8

\* The invariant only speaks of the variables of the module.
LEMMA StutterInv ==
  ASSUME IInv, UNCHANGED vars
  PROVE  IInv'
BY DEF IInv, vars, TypeOK, LocalExclusion, HeldMeansReserved, Custodian,
       TokensOK, TokenOK, RegistriesOK, RegistryOK, HandlesOK, HandleOK, Handle,
       OwnersOK, OwnerOK, GenerationsOK, GenerationOK, SameToken, ProbesOK, ProbeOK

\* Every step keeps the invariant.
LEMMA NextInv == IInv /\ [Next]_vars => IInv'
<1> SUFFICES ASSUME IInv, [Next]_vars PROVE IInv'
  OBVIOUS
<1>1. ASSUME NEW t \in Thread, Step(t) PROVE IInv'
  BY <1>1, QueueSteps, AcquireSteps, ReleaseSteps, ProbeSteps DEF Step, TimeOut
<1>2. ASSUME NEW t \in Thread, Call(t) PROVE IInv'
  BY <1>2, QueueSteps, AcquireSteps, ReleaseSteps, ProbeSteps DEF Call, Cancel
<1>3. ASSUME NEW t \in Thread, Expire(t) PROVE IInv'
  BY <1>3, QueueSteps
<1>4. ASSUME NEW p \in Process, Crash(p) PROVE IInv'
  BY <1>4, CrashStep
<1> QED
  BY <1>1, <1>2, <1>3, <1>4, StutterInv DEF Next

(***************************************************************************)
(* The theorems.                                                           *)
(***************************************************************************)
\* The inductive invariant holds in every reachable state of any number of
\* processes and threads, crashes, failed closes and late releases included.
THEOREM Invariance == Spec => []IInv
BY InitInv, NextInv, PTL DEF Spec

\* Type correctness of the lock's state.
THEOREM TypeCorrect == Spec => []TypeOK
<1>1. IInv => TypeOK
  BY DEF IInv
<1> QED
  BY <1>1, Invariance, PTL

\* withGitLock: at most one protected action runs, and its own handle holds
\* the flock for as long as it runs.
LEMMA IInvExcludes == IInv => MutualExclusion
<1> SUFFICES ASSUME IInv, NEW t \in Thread, pc[t] = "action"
             PROVE  /\ native = Handle(t)
                    /\ \A u \in Thread : pc[u] = "action" => u = t
  BY DEF MutualExclusion
<1>1. \A u \in Thread : pc[u] = "action" => native = Handle(u) /\ Custodian(u)
  BY DEF IInv, HandlesOK, HandleOK, Custodian
<1>2. \A u \in Thread : pc[u] = "action" => Home[u] = Home[t]
  BY <1>1 DEF Handle
<1> QED
  BY <1>1, <1>2, Alone

\* withGitLock excludes every other protected action, over all processes.
THEOREM Exclusion == Spec => []MutualExclusion
BY Invariance, IInvExcludes, PTL

\* reserveLocal, releaseLocal: a custodian is alone in its process and its
\* reservation is never cleared by another generation.
THEOREM LocallyExclusive == Spec => []LocalExclusion
<1>1. IInv => LocalExclusion
  BY DEF IInv
<1> QED
  BY <1>1, Invariance, PTL

\* No handle holds the flock that its process has forgotten.
THEOREM NoForgottenHandle == Spec => []HeldMeansReserved
<1>1. IInv => HeldMeansReserved
  BY DEF IInv
<1> QED
  BY <1>1, Invariance, PTL

(***************************************************************************)
(* Refinement: the threads that run a protected action behave as           *)
(* ExclusiveLock says.                                                     *)
(***************************************************************************)
Inside == {t \in Thread : pc[t] = "action"}

\* Only StartAction and EndAction move their own thread into or out of the
\* protected action.
LEMMA InsideFrame ==
  ASSUME IInv, NEW t \in Thread,
         Step(t) \/ Call(t) \/ Expire(t), ~StartAction(t), ~EndAction(t)
  PROVE  Inside' = Inside
<1>1. \/ pc' = pc
      \/ /\ pc[t] # "action"
         /\ \E c \in PC \ {"action"} : pc' = [pc EXCEPT ![t] = c]
  <2>1. CASE Enqueue(t) \/ Expire(t) \/ Admit(t) \/ GiveUp(t) \/ Retire(t)
    BY <2>1 DEF PC, Enqueue, Expire, Admit, GiveUp, Retire
  <2>2. CASE TryReserve(t) \/ OpenNative(t) \/ OpenFails(t) \/ RegisterOwner(t) \/ WriteFails(t)
    BY <2>2 DEF PC, TryReserve, OpenNative, OpenFails, RegisterOwner, WriteFails
  <2>3. CASE \/ Release(t) \/ (\E k \in Token : ReleaseAgain(t, k)) \/ CloseOwner(t)
             \/ CloseOwnerSticks(t) \/ CompleteOwnerRelease(t)
    BY <2>3 DEF PC, Release, ReleaseAgain, CloseOwner, CloseOwnerSticks, CompleteOwnerRelease
  <2>4. CASE \/ StartProbe(t) \/ OpenProbe(t) \/ OpenProbeFails(t) \/ CloseProbe(t)
             \/ EndProbe(t) \/ RetryProbe(t) \/ CloseRetriedProbe(t)
    BY <2>4 DEF PC, StartProbe, OpenProbe, OpenProbeFails, CloseProbe, EndProbe,
                RetryProbe, CloseRetriedProbe
  <2> QED
    BY <2>1, <2>2, <2>3, <2>4 DEF Step, Call, TimeOut, Cancel
<1> QED
  BY <1>1 DEF IInv, TypeOK, Inside

\* A step enters an empty lock, leaves it, or moves nobody in or out.
LEMMA InsideStep ==
  ASSUME IInv, [Next]_vars
  PROVE  \/ Inside' = Inside
         \/ \E t \in Thread : Inside = {} /\ Inside' = {t}
         \/ Inside # {} /\ Inside' = {}
<1>1. MutualExclusion
  BY IInvExcludes
<1>2. ASSUME NEW t \in Thread, StartAction(t)
      PROVE  Inside = {} /\ Inside' \in {{}, {t}}
  <2>1. pc[t] = "owned" /\ native = Handle(t) /\ Custodian(t)
    BY <1>2 DEF IInv, StartAction, HandlesOK, HandleOK, Custodian
  <2>2. ASSUME NEW u \in Thread, pc[u] = "action" PROVE FALSE
    <3>1. native = Handle(u) /\ Custodian(u)
      BY <1>1, <2>2 DEF MutualExclusion, Custodian
    <3> QED
      BY <2>1, <2>2, <3>1, Alone DEF Handle
  <2> QED
    BY <1>2, <2>2 DEF IInv, TypeOK, StartAction, Inside
<1>3. ASSUME NEW t \in Thread, EndAction(t)
      PROVE  Inside # {} /\ Inside' = {}
  BY <1>1, <1>3 DEF IInv, TypeOK, EndAction, Inside, MutualExclusion
<1>4. ASSUME NEW p \in Process, Crash(p)
      PROVE  Inside' = Inside \/ (Inside # {} /\ Inside' = {})
  <2>1. Inside' = {u \in Inside : Home[u] # p}
    BY <1>4 DEF Crash, Inside
  <2>2. \A u, v \in Inside : u = v
    BY <1>1 DEF MutualExclusion, Inside
  <2> QED
    BY <2>1, <2>2
<1>5. ASSUME UNCHANGED vars PROVE Inside' = Inside
  BY <1>5 DEF vars, Inside
<1> QED
  BY <1>2, <1>3, <1>4, <1>5, InsideFrame DEF Next

\* The lock with its queue, registry, probes, failed closes and crashes
\* implements the abstract exclusive lock.
THEOREM Implementation == Spec => ImplementsExclusiveLock
<1>1. Init => Abstract!Init
  BY DEF Init, Abstract!Init
<1>2. IInv /\ [Next]_vars => [Abstract!Next]_Inside
  BY InsideStep DEF Abstract!Next, Abstract!Enter, Abstract!Leave, Inside
<1>3. Abstract!Spec <=> Abstract!Init /\ [][Abstract!Next]_Inside
  BY DEF Abstract!Spec, Inside
<1> QED
  BY <1>1, <1>2, <1>3, Invariance, PTL DEF Spec, ImplementsExclusiveLock

(***************************************************************************)
(* First come, first served.                                               *)
(***************************************************************************)
\* Without takes one ticket out and moves those behind it up by one.
LEMMA WithoutMoves ==
  ASSUME NEW S, NEW s \in Seq(S), NEW k \in 1..Len(s),
         \A i, j \in 1..Len(s) : s[i] = s[j] => i = j
  PROVE  /\ Len(Without(s, s[k])) = Len(s) - 1
         /\ \A j \in 1..Len(s) - 1 : Without(s, s[k])[j] = IF j < k THEN s[j] ELSE s[j + 1]
<1> DEFINE i == CHOOSE i \in 1..Len(s) : s[i] = s[k]
           w == [j \in 1..Len(s) - 1 |-> IF j < i THEN s[j] ELSE s[j + 1]]
<1>1. i = k
  OBVIOUS
<1>2. Without(s, s[k]) = w
  BY DEF Without
<1>3. Len(s) - 1 \in Nat /\ \A j \in 1..Len(s) - 1 : j \in 1..Len(s) /\ j + 1 \in 1..Len(s)
  OBVIOUS
<1>4. \A j \in 1..Len(s) - 1 : (IF j < i THEN s[j] ELSE s[j + 1]) \in S
  BY <1>3
<1>5. w \in Seq(S) /\ DOMAIN w = 1..Len(s) - 1
  BY <1>3, <1>4
<1>6. Len(w) = Len(s) - 1
  BY <1>3, <1>5
<1>7. \A j \in 1..Len(s) - 1 : w[j] = IF j < k THEN s[j] ELSE s[j + 1]
  BY <1>1
<1> QED
  BY <1>2, <1>6, <1>7

\* What the removal of a ticket, which is in a queue once, leaves: the others, each
\* once and in their order.
LEMMA WithoutKeeps ==
  ASSUME NEW S, NEW s \in Seq(S), NEW e,
         \A i, j \in 1..Len(s) : s[i] = s[j] => i = j
  PROVE  LET w == Without(s, e) IN
         /\ \A j \in 1..Len(w) : w[j] # e /\ \E i \in 1..Len(s) : w[j] = s[i]
         /\ \A i \in 1..Len(s) : s[i] # e => \E j \in 1..Len(w) : w[j] = s[i]
         /\ \A i, j \in 1..Len(w) : w[i] = w[j] => i = j
         /\ \A i, j \in 1..Len(w) : i < j =>
              \E k, m \in 1..Len(s) : k < m /\ w[i] = s[k] /\ w[j] = s[m]
<1>1. CASE \E k \in 1..Len(s) : s[k] = e
  <2> PICK k \in 1..Len(s) : s[k] = e
    BY <1>1
  <2> DEFINE w == Without(s, e)
  <2>1. /\ Len(w) = Len(s) - 1
        /\ \A j \in 1..Len(w) : w[j] = IF j < k THEN s[j] ELSE s[j + 1]
    BY WithoutMoves
  <2> HIDE DEF w
  <2>2. Len(s) \in Nat
    OBVIOUS
  <2>3. \A j \in 1..Len(w) : \E i \in 1..Len(s) : i # k /\ w[j] = s[i]
    <3> TAKE j \in 1..Len(w)
    <3>1. CASE j < k
      BY <2>1, <2>2, <3>1
    <3>2. CASE ~(j < k)
      <4>1. j + 1 \in 1..Len(s) /\ j + 1 # k /\ w[j] = s[j + 1]
        BY <2>1, <2>2, <3>2
      <4> QED
        BY <4>1
    <3> QED
      BY <3>1, <3>2
  <2>4. \A i \in 1..Len(s) : i # k => \E j \in 1..Len(w) : w[j] = s[i]
    <3> TAKE i \in 1..Len(s)
    <3> HAVE i # k
    <3>1. CASE i < k
      BY <2>1, <2>2, <3>1
    <3>2. CASE k < i
      <4>1. i - 1 \in 1..Len(w) /\ ~(i - 1 < k) /\ (i - 1) + 1 = i
        BY <2>1, <2>2, <3>2
      <4>2. w[i - 1] = s[i]
        BY <2>1, <4>1
      <4> QED
        BY <4>1, <4>2
    <3> QED
      BY <3>1, <3>2
  <2>5. \A i, j \in 1..Len(w) : i < j =>
          \E n, m \in 1..Len(s) : n < m /\ w[i] = s[n] /\ w[j] = s[m]
    <3> TAKE i, j \in 1..Len(w)
    <3> HAVE i < j
    <3> DEFINE n == IF i < k THEN i ELSE i + 1
               m == IF j < k THEN j ELSE j + 1
    <3>1. n \in 1..Len(s) /\ m \in 1..Len(s) /\ n < m
      BY <2>1, <2>2
    <3>2. w[i] = s[n] /\ w[j] = s[m]
      BY <2>1
    <3> QED
      BY <3>1, <3>2
  <2>6. \A i, j \in 1..Len(w) : w[i] = w[j] => i = j
    <3>1. \A i, j \in 1..Len(w) : i < j => w[i] # w[j]
      BY <2>2, <2>5
    <3> QED
      BY <2>1, <2>2, <3>1
  <2>7. \A j \in 1..Len(w) : w[j] # e /\ \E i \in 1..Len(s) : w[j] = s[i]
    BY <2>3
  <2>8. \A i \in 1..Len(s) : s[i] # e => \E j \in 1..Len(w) : w[j] = s[i]
    BY <2>4
  <2> QED
    BY <2>5, <2>6, <2>7, <2>8 DEF w
<1>2. CASE ~ \E k \in 1..Len(s) : s[k] = e
  BY <1>2 DEF Without
<1> QED
  BY <1>1, <1>2

\* A step that leaves the queues alone, starts nobody's waiting and ends nobody's call.
LEMMA SameQueues ==
  ASSUME TypeOK, FifoInv, NEW t \in Thread, UNCHANGED <<queue, behind>>,
         \E c \in PC : /\ pc' = [pc EXCEPT ![t] = c]
                       /\ c = "queued" => pc[t] = "queued"
                       /\ c \in Outside => pc[t] \in Outside
  PROVE  FifoInv'
<1>1. \A u \in Thread : /\ pc'[u] = "queued" => pc[u] = "queued"
                        /\ pc'[u] \in Outside => pc[u] \in Outside
  BY DEF TypeOK
<1>2. \A p \in Process : \A i \in 1..Len(queue[p]) : queue[p][i] \in Thread
  BY DEF TypeOK
<1>3. ASSUME NEW p \in Process PROVE LineOK(p)'
  BY <1>1, <1>2 DEF FifoInv, LineOK
<1>4. ASSUME NEW u \in Thread PROVE TicketOK(u)'
  BY <1>1 DEF FifoInv, TicketOK
<1>5. ASSUME NEW u \in Thread, NEW v \in Thread PROVE TurnOK(u, v)'
  BY <1>1 DEF FifoInv, TurnOK
<1> QED
  BY <1>3, <1>4, <1>5 DEF FifoInv

\* A thread without a ticket joins at the end, behind everyone who waits.
LEMMA Joined ==
  ASSUME TypeOK, FifoInv, NEW t \in Thread, Enqueue(t)
  PROVE  FifoInv'
<1> DEFINE h == Home[t]
           s == queue[h]
           n == Len(s)
<1>1. h \in Process /\ s \in Seq(Thread) /\ n \in Nat /\ pc[t] = "idle"
  <2>1. h \in Process
    BY HomeAssumption
  <2> HIDE DEF h
  <2>2. s \in Seq(Thread)
    BY <2>1 DEF TypeOK
  <2> QED
    BY <2>1, <2>2 DEF Enqueue
<1>2. /\ Len(queue'[h]) = n + 1 /\ queue'[h][n + 1] = t
      /\ \A i \in 1..n : queue'[h][i] = s[i]
      /\ \A p \in Process : p # h => queue'[p] = queue[p]
  BY <1>1 DEF TypeOK, Enqueue
<1>3. pc'[t] = "queued" /\ \A u \in Thread : u # t => pc'[u] = pc[u]
  BY <1>1 DEF TypeOK, Enqueue
<1>4. \A u \in Thread :
        behind'[u] = IF pc[u] = "queued" /\ Home[u] = h THEN behind[u] \cup {t} ELSE behind[u]
  BY DEF Enqueue
<1>5. \A i \in 1..n : s[i] \in Thread /\ s[i] # t
  BY <1>1 DEF FifoInv, LineOK, Outside
<1>6. \A p \in Process : \A i \in 1..Len(queue[p]) : queue[p][i] \in Thread /\ queue[p][i] # t
  BY <1>1 DEF TypeOK, FifoInv, LineOK, Outside
<1> HIDE DEF s
<1>7. ASSUME NEW p \in Process PROVE LineOK(p)'
  <2>1. CASE p = h
    <3>1. \A i \in 1..(n + 1) :
            /\ Home[queue'[h][i]] = h /\ pc'[queue'[h][i]] \notin Outside
            /\ i = n + 1 \/ (i \in 1..n /\ queue'[h][i] = s[i])
      <4> TAKE i \in 1..(n + 1)
      <4>1. CASE i = n + 1
        BY <1>2, <1>3, <4>1 DEF Outside
      <4>2. CASE i \in 1..n
        <5>1. queue'[h][i] = s[i] /\ s[i] \in Thread /\ pc'[s[i]] = pc[s[i]]
          BY <1>2, <1>3, <1>5, <4>2
        <5>2. Home[s[i]] = h /\ pc[s[i]] \notin Outside
          BY <1>1, <4>2 DEF FifoInv, LineOK, s
        <5> QED
          BY <4>2, <5>1, <5>2
      <4> QED
        BY <1>1, <4>1, <4>2
    <3>2. \A i, j \in 1..n : s[i] = s[j] => i = j
      BY <1>1 DEF FifoInv, LineOK, s
    <3> HIDE DEF n, h
    <3>3. \A i, j \in 1..(n + 1) : queue'[h][i] = queue'[h][j] => i = j
      BY <1>2, <1>5, <3>1, <3>2
    <3> QED
      BY <1>2, <2>1, <3>1, <3>3 DEF LineOK
  <2>2. CASE p # h
    BY <1>2, <1>3, <1>6, <2>2 DEF FifoInv, LineOK
  <2> QED
    BY <2>1, <2>2
<1>8. ASSUME NEW u \in Thread PROVE TicketOK(u)'
  <2>1. Home[u] \in Process
    BY HomeAssumption
  <2>2. CASE u = t
    <3>1. n + 1 \in 1..Len(queue'[h])
      BY <1>1, <1>2
    <3> QED
      BY <1>2, <1>3, <2>2, <3>1 DEF TicketOK, Outside
  <2>3. CASE u # t
    <3>1. TicketOK(u) /\ pc'[u] = pc[u]
      BY <1>3, <2>3 DEF FifoInv
    <3>2. pc[u] \in Outside => behind'[u] = behind[u]
      BY <1>4 DEF Outside
    <3>3. ASSUME pc[u] = "queued"
          PROVE  \E i \in 1..Len(queue'[Home[u]]) : queue'[Home[u]][i] = u
      <4> PICK i \in 1..Len(queue[Home[u]]) : queue[Home[u]][i] = u
        BY <3>1, <3>3 DEF TicketOK
      <4>1. CASE Home[u] = h
        BY <1>1, <1>2, <4>1 DEF s
      <4>2. CASE Home[u] # h
        BY <1>2, <2>1, <4>2
      <4> QED
        BY <4>1, <4>2
    <3> QED
      BY <3>1, <3>2, <3>3 DEF TicketOK
  <2> QED
    BY <2>2, <2>3
<1>9. ASSUME NEW u \in Thread, NEW v \in Thread PROVE TurnOK(u, v)'
  <2>1. Home[u] \in Process /\ TurnOK(u, v)
    BY HomeAssumption DEF FifoInv
  <2>2. CASE u = t
    <3>1. behind'[u] = {}
      BY <1>1, <1>4, <2>2 DEF FifoInv, TicketOK, Outside
    <3> QED
      BY <3>1 DEF TurnOK
  <2>3. CASE u # t /\ v # t
    <3>1. (v \in behind'[u] => v \in behind[u]) /\ pc'[u] = pc[u] /\ pc'[v] = pc[v]
      BY <1>3, <1>4, <2>3
    <3>2. CASE Home[u] = h
      <4>1. \A i \in 1..(n + 1) : queue'[h][i] \in {u, v} => i \in 1..n /\ queue'[h][i] = s[i]
        BY <1>1, <1>2, <2>3
      <4>2. ASSUME v \in behind'[u], pc'[u] = "queued", pc'[v] = "queued",
                   NEW i \in 1..(n + 1), NEW j \in 1..(n + 1),
                   queue'[h][i] = u, queue'[h][j] = v
            PROVE  i < j
        <5>1. i \in 1..n /\ j \in 1..n /\ s[i] = u /\ s[j] = v
          BY <4>1, <4>2
        <5>2. v \in behind[u] /\ pc[u] = "queued" /\ pc[v] = "queued"
          BY <3>1, <4>2
        <5> QED
          BY <2>1, <3>2, <5>1, <5>2 DEF TurnOK, s
      <4> QED
        BY <1>2, <2>1, <3>1, <3>2, <4>2 DEF TurnOK
    <3>3. CASE Home[u] # h
      BY <1>2, <2>1, <3>1, <3>3 DEF TurnOK
    <3> QED
      BY <3>2, <3>3
  <2>4. CASE u # t /\ v = t
    <3>1. v \in behind'[u] => Home[v] = Home[u]
      BY <1>4, <2>1, <2>4 DEF TurnOK
    <3>2. ASSUME Home[u] = h, NEW i \in 1..Len(queue'[h]), NEW j \in 1..Len(queue'[h]),
                 queue'[h][i] = u, queue'[h][j] = t
          PROVE  i < j
      <4>1. j = n + 1
        BY <1>1, <1>2, <1>5, <3>2
      <4>2. i # n + 1
        BY <1>2, <2>4, <3>2
      <4> QED
        BY <1>1, <1>2, <3>2, <4>1, <4>2
    <3> QED
      BY <2>4, <3>1, <3>2 DEF TurnOK
  <2> QED
    BY <2>2, <2>3, <2>4
<1> QED
  BY <1>7, <1>8, <1>9 DEF FifoInv

\* A ticket that is retired leaves the others in their order.
LEMMA Retired ==
  ASSUME TypeOK, FifoInv, NEW t \in Thread, Retire(t)
  PROVE  FifoInv'
<1> DEFINE h == Home[t]
           s == queue[h]
           w == Without(s, t)
<1>1. h \in Process
  BY HomeAssumption
<1>2. s \in Seq(Thread) /\ \A i, j \in 1..Len(s) : s[i] = s[j] => i = j
  BY <1>1 DEF TypeOK, FifoInv, LineOK
<1>3. queue'[h] = w /\ \A p \in Process : p # h => queue'[p] = queue[p]
  BY <1>1 DEF TypeOK, Retire
<1>4. /\ pc[t] = "retire" /\ pc'[t] = "idle" /\ behind'[t] = {}
      /\ \A u \in Thread : u # t => pc'[u] = pc[u] /\ behind'[u] = behind[u]
  BY DEF TypeOK, Retire
<1>5. /\ \A j \in 1..Len(w) : w[j] # t /\ \E i \in 1..Len(s) : w[j] = s[i]
      /\ \A i \in 1..Len(s) : s[i] # t => \E j \in 1..Len(w) : w[j] = s[i]
      /\ \A i, j \in 1..Len(w) : w[i] = w[j] => i = j
      /\ \A i, j \in 1..Len(w) : i < j =>
           \E k, m \in 1..Len(s) : k < m /\ w[i] = s[k] /\ w[j] = s[m]
  BY <1>2, WithoutKeeps
<1>6. Len(w) \in Nat
  BY <1>2, WithoutType
<1> HIDE DEF w
<1>7. \A p \in Process : \A i \in 1..Len(queue[p]) : queue[p][i] \in Thread
  BY DEF TypeOK
<1>8. \A p \in Process : p # h => \A i \in 1..Len(queue[p]) : queue[p][i] # t
  BY DEF FifoInv, LineOK
<1>9. ASSUME NEW p \in Process PROVE LineOK(p)'
  <2>1. CASE p = h
    <3>1. \A j \in 1..Len(w) : Home[w[j]] = h /\ pc'[w[j]] \notin Outside
      <4> TAKE j \in 1..Len(w)
      <4> PICK i \in 1..Len(s) : w[j] = s[i] /\ w[j] # t
        BY <1>5
      <4>1. s[i] \in Thread /\ Home[s[i]] = h /\ pc[s[i]] \notin Outside
        BY <1>1, <1>2 DEF FifoInv, LineOK
      <4> QED
        BY <1>4, <4>1
    <3>2. \A i, j \in 1..Len(w) : w[i] = w[j] => i = j
      BY <1>5
    <3> HIDE DEF h
    <3> QED
      BY <1>3, <2>1, <3>1, <3>2 DEF LineOK
  <2>2. CASE p # h
    BY <1>3, <1>4, <1>7, <1>8, <2>2 DEF FifoInv, LineOK
  <2> QED
    BY <2>1, <2>2
<1>10. ASSUME NEW u \in Thread PROVE TicketOK(u)'
  <2>1. Home[u] \in Process /\ TicketOK(u)
    BY HomeAssumption DEF FifoInv
  <2>2. CASE u = t
    BY <1>4, <2>2 DEF TicketOK
  <2>3. CASE u # t
    <3>1. ASSUME pc[u] = "queued"
          PROVE  \E i \in 1..Len(queue'[Home[u]]) : queue'[Home[u]][i] = u
      <4> PICK i \in 1..Len(queue[Home[u]]) : queue[Home[u]][i] = u
        BY <2>1, <3>1 DEF TicketOK
      <4>1. CASE Home[u] = h
        <5>1. i \in 1..Len(s) /\ s[i] = u
          BY <4>1
        <5> HIDE DEF s, h
        <5>2. PICK j \in 1..Len(w) : w[j] = u
          BY <1>5, <2>3, <5>1
        <5> QED
          BY <1>3, <4>1, <5>2
      <4>2. CASE Home[u] # h
        BY <1>3, <2>1, <4>2
      <4> QED
        BY <4>1, <4>2
    <3> QED
      BY <1>4, <2>1, <2>3, <3>1 DEF TicketOK
  <2> QED
    BY <2>2, <2>3
<1>11. ASSUME NEW u \in Thread, NEW v \in Thread PROVE TurnOK(u, v)'
  <2>1. Home[u] \in Process /\ TurnOK(u, v)
    BY HomeAssumption DEF FifoInv
  <2>2. CASE u = t \/ v = t
    BY <1>4, <2>1, <2>2 DEF TurnOK
  <2>3. CASE u # t /\ v # t
    <3>1. pc'[u] = pc[u] /\ pc'[v] = pc[v] /\ behind'[u] = behind[u]
      BY <1>4, <2>3
    <3>2. CASE Home[u] = h
      <4>1. ASSUME v \in behind[u], pc[u] = "queued", pc[v] = "queued",
                   NEW i \in 1..Len(w), NEW j \in 1..Len(w), w[i] = u, w[j] = v
            PROVE  i < j
        <5>1. \A k, m \in 1..Len(s) : (s[k] = u /\ s[m] = v) => k < m
          BY <2>1, <3>2, <4>1 DEF TurnOK
        <5> HIDE DEF s, h
        <5>2. i # j
          <6> SUFFICES ASSUME i = j PROVE FALSE
            OBVIOUS
          <6>1. PICK k \in 1..Len(s) : w[i] = s[k]
            BY <1>5
          <6>2. k < k
            BY <4>1, <5>1, <6>1
          <6> QED
            BY <6>2
        <5>3. ~(j < i)
          <6> SUFFICES ASSUME j < i PROVE FALSE
            OBVIOUS
          <6>1. PICK k, m \in 1..Len(s) : k < m /\ w[j] = s[k] /\ w[i] = s[m]
            BY <1>5
          <6>2. m < k
            BY <4>1, <5>1, <6>1
          <6> QED
            BY <6>1, <6>2
        <5> QED
          BY <1>6, <5>2, <5>3
      <4> QED
        BY <1>3, <2>1, <3>1, <3>2, <4>1 DEF TurnOK
    <3>3. CASE Home[u] # h
      BY <1>3, <2>1, <3>1, <3>3 DEF TurnOK
    <3> QED
      BY <3>2, <3>3
  <2> QED
    BY <2>2, <2>3
<1> QED
  BY <1>9, <1>10, <1>11 DEF FifoInv

\* With its process, a queue and everyone in it are gone.
LEMMA Crashed ==
  ASSUME TypeOK, FifoInv, NEW p \in Process, Crash(p)
  PROVE  FifoInv'
<1>1. /\ queue'[p] = <<>> /\ \A q \in Process : q # p => queue'[q] = queue[q]
      /\ \A u \in Thread : IF Home[u] = p THEN pc'[u] = "idle" /\ behind'[u] = {}
                           ELSE pc'[u] = pc[u] /\ behind'[u] = behind[u]
  BY DEF TypeOK, Crash
<1>2. \A q \in Process : \A i \in 1..Len(queue[q]) : queue[q][i] \in Thread
  BY DEF TypeOK
<1>3. ASSUME NEW q \in Process PROVE LineOK(q)'
  <2>1. CASE q = p
    BY <1>1, <2>1 DEF LineOK
  <2>2. CASE q # p
    BY <1>1, <1>2, <2>2 DEF FifoInv, LineOK
  <2> QED
    BY <2>1, <2>2
<1>4. ASSUME NEW u \in Thread PROVE TicketOK(u)'
  BY <1>1, HomeAssumption DEF FifoInv, TicketOK
<1>5. ASSUME NEW u \in Thread, NEW v \in Thread PROVE TurnOK(u, v)'
  BY <1>1, HomeAssumption DEF FifoInv, TurnOK
<1> QED
  BY <1>3, <1>4, <1>5 DEF FifoInv

\* The steps of an acquisition, a release and a probe leave the queues alone.
LEMMA Elsewhere ==
  ASSUME TypeOK, NEW t \in Thread,
         Step(t) \/ Call(t) \/ Expire(t), ~Enqueue(t), ~Retire(t)
  PROVE  /\ UNCHANGED <<queue, behind>>
         /\ \E c \in PC : /\ pc' = [pc EXCEPT ![t] = c]
                          /\ c = "queued" => pc[t] = "queued"
                          /\ c \in Outside => pc[t] \in Outside
                          /\ (pc[t] = "queued" /\ c = "acquire") => IsHead(t)
<1>1. CASE Expire(t) \/ Admit(t) \/ GiveUp(t)
  BY <1>1 DEF Expire, Admit, GiveUp, TypeOK, PC, Outside, waitVars
<1>2. CASE TryReserve(t) \/ OpenNative(t) \/ OpenFails(t) \/ RegisterOwner(t) \/ WriteFails(t)
  BY <1>2 DEF TryReserve, OpenNative, OpenFails, RegisterOwner, WriteFails, PC, Outside, waitVars
<1>3. CASE StartAction(t) \/ EndAction(t) \/ Release(t) \/ CloseOwner(t)
           \/ CloseOwnerSticks(t) \/ CompleteOwnerRelease(t)
  BY <1>3 DEF StartAction, EndAction, Release, CloseOwner, CloseOwnerSticks,
              CompleteOwnerRelease, PC, Outside, waitVars
<1>4. CASE \E k \in Token : ReleaseAgain(t, k)
  BY <1>4 DEF ReleaseAgain, PC, Outside, waitVars
<1>5. CASE StartProbe(t) \/ OpenProbe(t) \/ OpenProbeFails(t) \/ CloseProbe(t)
           \/ EndProbe(t) \/ RetryProbe(t) \/ CloseRetriedProbe(t)
  BY <1>5 DEF StartProbe, OpenProbe, OpenProbeFails, CloseProbe, EndProbe, RetryProbe,
              CloseRetriedProbe, PC, Outside, waitVars
<1> QED
  BY <1>1, <1>2, <1>3, <1>4, <1>5 DEF Step, Call, TimeOut, Cancel

\* The order of the queues is kept by every step.
LEMMA FifoInductive == IInv /\ FifoInv /\ [Next]_vars => FifoInv'
<1> SUFFICES ASSUME TypeOK, FifoInv, [Next]_vars PROVE FifoInv'
  BY DEF IInv
<1>1. CASE UNCHANGED vars
  BY <1>1 DEF vars, FifoInv, LineOK, TicketOK, TurnOK
<1>2. ASSUME NEW t \in Thread, Step(t) \/ Call(t) \/ Expire(t) PROVE FifoInv'
  BY <1>2, Joined, Retired, Elsewhere, SameQueues
<1> QED
  BY <1>1, <1>2, Crashed DEF Next

\* Whom a step admits is the head of its queue, so nobody who waits stands before it.
LEMMA AdmitsTheFirst ==
  ASSUME TypeOK, FifoInv, [Next]_vars, NEW t \in Thread, NEW u \in Thread,
         pc[t] = "queued", u \in behind[t], pc'[t] = "queued",
         pc[u] = "queued", pc'[u] = "acquire"
  PROVE  FALSE
<1>1. IsHead(u)
  <2>1. ASSUME NEW v \in Thread, Step(v) \/ Call(v) \/ Expire(v) PROVE IsHead(u)
    <3>1. CASE Enqueue(v) \/ Retire(v)
      BY <3>1 DEF Enqueue, Retire, TypeOK
    <3>2. CASE ~Enqueue(v) /\ ~Retire(v)
      BY <2>1, <3>2, Elsewhere DEF TypeOK
    <3> QED
      BY <3>1, <3>2
  <2>2. ASSUME NEW p \in Process, Crash(p) PROVE FALSE
    BY <2>2 DEF Crash
  <2>3. ~UNCHANGED vars
    BY DEF vars
  <2> QED
    BY <2>1, <2>2, <2>3 DEF Next
<1>2. Home[u] = Home[t] /\ Home[t] \in Process
  BY HomeAssumption DEF FifoInv, TurnOK
<1>3. 1 \in 1..Len(queue[Home[t]]) /\ queue[Home[t]][1] = u
  BY <1>1, <1>2 DEF IsHead, TypeOK
<1>4. PICK i \in 1..Len(queue[Home[t]]) : queue[Home[t]][i] = t
  BY DEF FifoInv, TicketOK
<1>5. i < 1
  BY <1>3, <1>4 DEF FifoInv, TurnOK
<1> QED
  BY <1>5

\* Admission is first come, first served in every process, whatever deadlines,
\* cancellations, releases and crashes happen to those who wait.
THEOREM FirstComeFirstServed == Spec => NoOvertaking
<1>1. Init => FifoInv
  BY DEF Init, FifoInv, LineOK, TicketOK, TurnOK
<1>2. IInv /\ FifoInv /\ [Next]_vars =>
        [\A t, u \in Thread :
           (pc[t] = "queued" /\ u \in behind[t] /\ pc'[t] = "queued")
             => ~(pc[u] = "queued" /\ pc'[u] = "acquire")]_vars
  BY AdmitsTheFirst DEF IInv
<1> QED
  BY <1>1, <1>2, FifoInductive, Invariance, PTL DEF Spec, NoOvertaking
=============================================================================
