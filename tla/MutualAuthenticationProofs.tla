---------------------- MODULE MutualAuthenticationProofs ----------------------
(* What follows from MutualAuthentication, and so, by the refinement proved *)
(* in HandshakeProofs, for the handshake.                                  *)
EXTENDS MutualAuthentication, TLAPS

AgreementInv == pending = [k \in Slots |-> pending[k]] /\ Agreement

(* Acceptance comes after verification on both sides, and each challenge   *)
(* can be claimed once.                                                    *)
THEOREM AgreementHolds ==
    ASSUME UserOf \in [Sessions -> Users]
    PROVE  Spec => []Agreement
<1>1. Init => AgreementInv
  BY DEF Init, AgreementInv, Agreement
<1>2. AgreementInv /\ [Next]_vars => AgreementInv'
  <2> SUFFICES ASSUME AgreementInv, [Next]_vars
               PROVE  AgreementInv'
    OBVIOUS
  <2> USE DEF AgreementInv, Agreement
  <2>1. ASSUME NEW s \in Sessions, Trust(s) \/ Accept(s)
        PROVE  AgreementInv'
    BY <2>1 DEF Trust, Accept, Slots
  <2>2. ASSUME NEW s \in Sessions, NEW p \in Places, Offer(s, p)
        PROVE  AgreementInv'
    <3>1. <<p, UserOf[s]>> \in Slots /\ <<p, UserOf[s]>>[2] = UserOf[s]
      BY DEF Slots
    <3>2. pending' = [pending EXCEPT ![<<p, UserOf[s]>>] = s] /\ s \notin offered
      BY <2>2 DEF Offer
    <3>3. \A k \in Slots : pending'[k] = IF k = <<p, UserOf[s]>> THEN s ELSE pending[k]
      BY <3>1, <3>2
    <3>4. pending' = [k \in Slots |-> pending'[k]]
      BY <3>2
    <3>5. offered' = offered \cup {s} /\ UNCHANGED <<trusted, claimed, accepted>> /\ s \notin claimed
      BY <2>2, <3>2 DEF Offer
    <3>6. ASSUME NEW k \in Slots, pending'[k] # None
          PROVE  /\ pending'[k] \in offered' \ claimed'
                 /\ UserOf[pending'[k]] = k[2]
                 /\ \A l \in Slots : pending'[l] = pending'[k] => l = k
      <4>1. CASE k = <<p, UserOf[s]>>
        BY <3>1, <3>2, <3>3, <3>5, <3>6, <4>1
      <4>2. CASE k # <<p, UserOf[s]>>
        BY <3>1, <3>2, <3>3, <3>5, <3>6, <4>2
      <4> QED BY <4>1, <4>2
    <3> QED BY <3>4, <3>5, <3>6 DEF Slots
  <2>3. ASSUME NEW s \in Sessions, NEW p \in Places, Claim(s, p)
        PROVE  AgreementInv'
    <3>1. <<p, UserOf[s]>> \in Slots
      BY DEF Slots
    <3> QED BY <2>3, <3>1 DEF Claim, Slots
  <2>4. ASSUME NEW S \in SUBSET Slots, Drop(S)
        PROVE  AgreementInv'
    BY <2>4 DEF Drop, Slots
  <2>5. CASE UNCHANGED vars
    BY <2>5 DEF vars, Slots
  <2> QED BY <2>1, <2>2, <2>3, <2>4, <2>5 DEF Next
<1>3. AgreementInv => Agreement
  BY DEF AgreementInv
<1> QED BY <1>1, <1>2, <1>3, PTL DEF Spec
===============================================================================
