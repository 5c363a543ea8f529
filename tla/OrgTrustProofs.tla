--------------------------- MODULE OrgTrustProofs ---------------------------
(* Proofs about OrgTrust for every life time and every number of restarts and *)
(* losses.                                                                    *)
(*                                                                            *)
(* The argument: without losses the key file decides. As soon as it exists    *)
(* it is the key of the certificate file, and neither is replaced; an issuer  *)
(* that serves holds that key, so it is the only one that ever signs. The     *)
(* trust pool is read earlier, from the certificate file alone: it is the     *)
(* same as long as no first certificate was replaced, that is, as long as     *)
(* webui was not stopped between the two files.                               *)
EXTENDS OrgTrust, TLAPS

\* What the key file decides.
KeyInv ==
    losses = 0 =>
        /\ keyFile # None => certFile = keyFile
        /\ uiPc \in {"cert", "key"} => keyFile = None /\ uiGen \in Nat
        /\ uiPc = "key" => certFile = uiGen
        /\ pxPc = "serving" => keyFile # None /\ issuerKey = keyFile
        /\ \A g \in issued : keyFile = g

\* What the certificate file decides before there is a key.
PoolInv ==
    losses = 0 /\ ~torn =>
        /\ uiPc = "cert" => certFile = None
        /\ certFile # None => keyFile # None \/ uiPc = "key"
        /\ pxPc # "stopped" => certFile # None /\ pool = certFile
        /\ pxPc \in {"issuer", "serving"} => issuerCert = certFile

\* An issuer that has come so far has a certificate.
IssuerInv == pxPc \in {"issuer", "serving"} => issuerCert \in Nat

IInv == TypeOK /\ IssuerInv /\ KeyInv /\ PoolInv

-----------------------------------------------------------------------------
LEMMA InitIInv == Init => IInv
<1> SUFFICES ASSUME Init PROVE IInv
  OBVIOUS
<1>1. TypeOK
  BY DEF Init, TypeOK, OrNone
<1>2. IssuerInv /\ KeyInv /\ PoolInv
  BY DEF Init, IssuerInv, KeyInv, PoolInv
<1> QED BY <1>1, <1>2 DEF IInv

LEMMA TypePreserved ==
    TypeOK /\ IssuerInv /\ [Next]_vars => TypeOK' /\ IssuerInv'
<1> SUFFICES ASSUME TypeOK, IssuerInv, [Next]_vars PROVE TypeOK' /\ IssuerInv'
  OBVIOUS
<1> USE NoneAssumption
        DEF TypeOK, OrNone, IssuerInv, files, webui, proxy, counts
<1>1. CASE UiLoad
  BY <1>1 DEF UiLoad
<1>2. CASE UiGenerate
  BY <1>2 DEF UiGenerate
<1>3. CASE UiWriteCert
  BY <1>3 DEF UiWriteCert
<1>4. CASE UiWriteKey
  BY <1>4 DEF UiWriteKey
<1>5. CASE UiStop
  BY <1>5 DEF UiStop
<1>6. CASE LoseFile
  BY <1>6 DEF LoseFile
<1>7. CASE PxListen
  BY <1>7 DEF PxListen
<1>8. CASE PxReadCert
  BY <1>8 DEF PxReadCert, ProxyGone
<1>9. CASE PxReadKey
  BY <1>9 DEF PxReadKey, ProxyGone
<1>10. CASE PxStop
  BY <1>10 DEF PxStop, ProxyGone
<1>11. CASE Enroll
  BY <1>11 DEF Enroll
<1>12. CASE Tick
  BY <1>12 DEF Tick
<1>13. CASE UNCHANGED vars
  BY <1>13 DEF vars
<1> QED BY <1>1, <1>2, <1>3, <1>4, <1>5, <1>6, <1>7, <1>8, <1>9, <1>10, <1>11,
        <1>12, <1>13 DEF Next

LEMMA KeyPreserved == IInv /\ [Next]_vars => KeyInv'
<1> SUFFICES ASSUME IInv, [Next]_vars PROVE KeyInv'
  OBVIOUS
<1> USE NoneAssumption
        DEF IInv, TypeOK, OrNone, IssuerInv, KeyInv, files, webui, proxy, counts
<1>1. CASE UiLoad
  BY <1>1 DEF UiLoad
<1>2. CASE UiGenerate
  BY <1>2 DEF UiGenerate
<1>3. CASE UiWriteCert
  BY <1>3 DEF UiWriteCert
<1>4. CASE UiWriteKey
  BY <1>4 DEF UiWriteKey
<1>5. CASE UiStop
  BY <1>5 DEF UiStop
<1>6. CASE LoseFile
  BY <1>6 DEF LoseFile
<1>7. CASE PxListen
  BY <1>7 DEF PxListen
<1>8. CASE PxReadCert
  BY <1>8 DEF PxReadCert, ProxyGone
<1>9. CASE PxReadKey
  BY <1>9 DEF PxReadKey, ProxyGone
<1>10. CASE PxStop
  BY <1>10 DEF PxStop, ProxyGone
<1>11. CASE Enroll
  BY <1>11 DEF Enroll
<1>12. CASE Tick
  BY <1>12 DEF Tick
<1>13. CASE UNCHANGED vars
  BY <1>13 DEF vars
<1> QED BY <1>1, <1>2, <1>3, <1>4, <1>5, <1>6, <1>7, <1>8, <1>9, <1>10, <1>11,
        <1>12, <1>13 DEF Next

LEMMA PoolPreserved == IInv /\ [Next]_vars => PoolInv'
<1> SUFFICES ASSUME IInv, [Next]_vars PROVE PoolInv'
  OBVIOUS
<1> USE NoneAssumption
        DEF IInv, TypeOK, OrNone, KeyInv, PoolInv, files, webui, proxy, counts
<1>1. CASE UiLoad
  BY <1>1 DEF UiLoad
<1>2. CASE UiGenerate
  BY <1>2 DEF UiGenerate
<1>3. CASE UiWriteCert
  BY <1>3 DEF UiWriteCert
<1>4. CASE UiWriteKey
  BY <1>4 DEF UiWriteKey
<1>5. CASE UiStop
  BY <1>5 DEF UiStop
<1>6. CASE LoseFile
  BY <1>6 DEF LoseFile
<1>7. CASE PxListen
  BY <1>7 DEF PxListen
<1>8. CASE PxReadCert
  BY <1>8 DEF PxReadCert, ProxyGone
<1>9. CASE PxReadKey
  BY <1>9 DEF PxReadKey, ProxyGone
<1>10. CASE PxStop
  BY <1>10 DEF PxStop, ProxyGone
<1>11. CASE Enroll
  BY <1>11 DEF Enroll
<1>12. CASE Tick
  BY <1>12 DEF Tick
<1>13. CASE UNCHANGED vars
  BY <1>13 DEF vars
<1> QED BY <1>1, <1>2, <1>3, <1>4, <1>5, <1>6, <1>7, <1>8, <1>9, <1>10, <1>11,
        <1>12, <1>13 DEF Next

LEMMA IInvAlways == Spec => []IInv
<1>1. IInv /\ [Next]_vars => IInv'
  BY TypePreserved, KeyPreserved, PoolPreserved DEF IInv
<1> QED BY InitIInv, <1>1, PTL DEF Spec

-----------------------------------------------------------------------------
\* Every reachable state of the two programs and of the CA files is well typed.
THEOREM TypeCorrect == Spec => []TypeOK
<1>1. IInv => TypeOK
  BY DEF IInv
<1> QED BY <1>1, IInvAlways, PTL

\* The key pair that signed a device certificate stays the organization CA.
THEOREM IssuedStayCurrentHolds == Spec => []IssuedStayCurrent
<1>1. IInv => IssuedStayCurrent
  BY NoneAssumption DEF IInv, TypeOK, KeyInv, IssuedStayCurrent
<1> QED BY <1>1, IInvAlways, PTL

\* An enrolled device is accepted by every later mTLS listener.
THEOREM EnrolledAreAcceptedHolds == Spec => []EnrolledAreAccepted
<1>1. IInv => EnrolledAreAccepted
  BY NoneAssumption
     DEF IInv, TypeOK, KeyInv, PoolInv, EnrolledAreAccepted
<1> QED BY <1>1, IInvAlways, PTL

\* An endpoint that serves has read a certificate and a key of one pair.
THEOREM EndpointCanSignHolds == Spec => []EndpointCanSign
<1>1. IInv => EndpointCanSign
  BY NoneAssumption DEF IInv, TypeOK, KeyInv, PoolInv, EndpointCanSign
<1> QED BY <1>1, IInvAlways, PTL
=============================================================================
