------------------------------ MODULE OrgTrust ------------------------------
(* The certificates of the system over restarts and time: webui makes the     *)
(* organization CA (webui/orgca.go), tls-proxy reads it twice at its start -  *)
(* the certificate as trust pool of the mTLS listener (tls-proxy/mtls.go),    *)
(* certificate and key as issuer of the enrollment endpoint                   *)
(* (tls-proxy/enroll.go) - and mints the listener's server certificate once.  *)
(*                                                                            *)
(* A key pair is the number of the generation it was made in. org-ca.pem and  *)
(* org-ca.key hold such a number or are missing (None); every write is a      *)
(* rename, so a file is never partly written. The clock counts spans of 12    *)
(* hours. What is left out: parse errors of the files (only whole files       *)
(* written by webui are in them), the ten years of the CA itself, and the     *)
(* certificates of intercepted hosts with their cache and their CA, which no  *)
(* program writes.                                                            *)
EXTENDS Naturals

CONSTANTS
    None,     \* a missing file, an empty variable
    LeafLife, \* life of a minted certificate, in clock units
    MaxTime,  \* bound of the clock
    MaxStops, \* bound of the crashes and restarts of the two programs
    MaxLosses \* bound of the files lost from the configuration volume

ASSUME NoneAssumption == None \notin Nat
ASSUME LifeAssumption == LeafLife \in Nat \ {0}
ASSUME BoundsAssumption == MaxTime \in Nat /\ MaxStops \in Nat /\ MaxLosses \in Nat

VARIABLES
    certFile,   \* org-ca.pem
    keyFile,    \* org-ca.key
    gens,       \* key pairs generated so far
    uiPc,       \* where webui is in newOrgCA
    uiGen,      \* the key pair webui holds
    pxPc,       \* where tls-proxy is in its start
    pool,       \* mtlsConfig.OrgCAs
    issuerCert, \* enrollConfig.OrgCACert
    issuerKey,  \* enrollConfig.OrgCAKey
    mtlsCert,   \* when the listener's server certificate was minted
    issued,     \* history: generations that signed device certificates
    clock,
    stops,
    losses,
    torn        \* history: webui stopped between the two files

files  == <<certFile, keyFile>>
webui  == <<gens, uiPc, uiGen>>
proxy  == <<pxPc, pool, issuerCert, issuerKey, mtlsCert>>
counts == <<clock, stops, losses, torn>>
vars   == <<files, webui, proxy, issued, counts>>

OrNone(S) == S \union {None}

TypeOK ==
    /\ certFile \in OrNone(Nat) /\ keyFile \in OrNone(Nat)
    /\ gens \in Nat /\ uiGen \in OrNone(Nat)
    /\ uiPc \in {"stopped", "cert", "key", "serving"}
    /\ pxPc \in {"stopped", "listening", "issuer", "serving"}
    /\ pool \in OrNone(Nat)
    /\ issuerCert \in OrNone(Nat) /\ issuerKey \in OrNone(Nat)
    /\ mtlsCert \in OrNone(Nat)
    /\ issued \subseteq Nat
    /\ clock \in Nat /\ stops \in Nat /\ losses \in Nat /\ torn \in BOOLEAN

Init ==
    /\ certFile = None /\ keyFile = None
    /\ gens = 0 /\ uiPc = "stopped" /\ uiGen = None
    /\ pxPc = "stopped" /\ pool = None
    /\ issuerCert = None /\ issuerKey = None
    /\ mtlsCert = None
    /\ issued = {}
    /\ clock = 0 /\ stops = 0 /\ losses = 0 /\ torn = FALSE

-----------------------------------------------------------------------------
(* webui: newOrgCA.                                                           *)

\* Variant: only the certificate is looked for.
UiLoadCertOnly ==
    /\ uiPc = "stopped"
    /\ certFile # None
    /\ uiPc' = "serving"
    /\ uiGen' = certFile
    /\ UNCHANGED <<files, gens, proxy, issued, counts>>

\* load: both files are there. What they hold is not compared.
UiLoad ==
    /\ uiPc = "stopped"
    /\ certFile # None /\ keyFile # None
    /\ uiPc' = "serving"
    /\ uiGen' = certFile
    /\ UNCHANGED <<files, gens, proxy, issued, counts>>

\* Variant: a complete CA is replaced.
UiGenerateAlways ==
    /\ uiPc = "stopped"
    /\ gens' = gens + 1
    /\ uiGen' = gens + 1
    /\ uiPc' = "cert"
    /\ UNCHANGED <<files, proxy, issued, counts>>

\* load finds a file missing, generate makes a new key pair.
UiGenerate ==
    /\ uiPc = "stopped"
    /\ certFile = None \/ keyFile = None
    /\ gens' = gens + 1
    /\ uiGen' = gens + 1
    /\ uiPc' = "cert"
    /\ UNCHANGED <<files, proxy, issued, counts>>

UiWriteCert ==
    /\ uiPc = "cert"
    /\ certFile' = uiGen
    /\ uiPc' = "key"
    /\ UNCHANGED <<keyFile, gens, uiGen, proxy, issued, counts>>

UiWriteKey ==
    /\ uiPc = "key"
    /\ keyFile' = uiGen
    /\ uiPc' = "serving"
    /\ UNCHANGED <<certFile, gens, uiGen, proxy, issued, counts>>

\* A crash, a stop of the container, or a write that fails: newOrgCA returns
\* the error and main exits.
UiStop ==
    /\ uiPc # "stopped"
    /\ stops < MaxStops
    /\ stops' = stops + 1
    /\ torn' = (torn \/ uiPc = "key")
    /\ uiPc' = "stopped"
    /\ uiGen' = None
    /\ UNCHANGED <<files, gens, proxy, issued, clock, losses>>

\* External: a file is missing after a restore of the configuration volume.
LoseFile ==
    /\ losses < MaxLosses
    /\ losses' = losses + 1
    /\ \/ certFile' = None /\ UNCHANGED keyFile
       \/ keyFile' = None /\ UNCHANGED certFile
    /\ UNCHANGED <<webui, proxy, issued, clock, stops, torn>>

-----------------------------------------------------------------------------
(* tls-proxy.                                                                 *)

\* The memory of a process that has exited.
ProxyGone ==
    /\ pxPc' = "stopped"
    /\ pool' = None /\ issuerCert' = None /\ issuerKey' = None
    /\ mtlsCert' = None

\* Variant: the listener starts without the CA.
PxListenWithoutCA ==
    /\ pxPc = "stopped"
    /\ pxPc' = "listening"
    /\ pool' = certFile
    /\ mtlsCert' = clock
    /\ UNCHANGED <<files, webui, issuerCert, issuerKey, issued, counts>>

\* main up to startMTLSListener: the certificate file becomes the trust pool,
\* the listener's certificate is minted (the cache it is taken from is empty in
\* a new process). Without the file main exits.
PxListen ==
    /\ pxPc = "stopped"
    /\ certFile # None
    /\ pxPc' = "listening"
    /\ pool' = certFile
    /\ mtlsCert' = clock
    /\ UNCHANGED <<files, webui, issuerCert, issuerKey, issued, counts>>

\* loadOrgCA reads the certificate for the enrollment endpoint ...
PxReadCert ==
    /\ pxPc = "listening"
    /\ \/ /\ certFile # None
          /\ issuerCert' = certFile
          /\ pxPc' = "issuer"
          /\ UNCHANGED <<pool, issuerKey, mtlsCert>>
       \/ certFile = None /\ ProxyGone
    /\ UNCHANGED <<files, webui, issued, counts>>

\* ... and then the key. A missing file ends the process.
PxReadKey ==
    /\ pxPc = "issuer"
    /\ \/ /\ keyFile # None
          /\ issuerKey' = keyFile
          /\ pxPc' = "serving"
          /\ UNCHANGED <<pool, issuerCert, mtlsCert>>
       \/ keyFile = None /\ ProxyGone
    /\ UNCHANGED <<files, webui, issued, counts>>

PxStop ==
    /\ pxPc # "stopped"
    /\ stops < MaxStops
    /\ stops' = stops + 1
    /\ ProxyGone
    /\ UNCHANGED <<files, webui, issued, clock, losses, torn>>

\* signCSR of a served enrollment. With a key that is not the certificate's
\* the library refuses to sign.
Enroll ==
    /\ pxPc = "serving"
    /\ issuerCert = issuerKey
    /\ issued' = issued \union {issuerCert}
    /\ UNCHANGED <<files, webui, proxy, counts>>

Tick ==
    /\ clock < MaxTime
    /\ clock' = clock + 1
    /\ UNCHANGED <<files, webui, proxy, issued, stops, losses, torn>>

-----------------------------------------------------------------------------
Next ==
    \/ UiLoad \/ UiGenerate \/ UiWriteCert \/ UiWriteKey \/ UiStop
    \/ LoseFile
    \/ PxListen \/ PxReadCert \/ PxReadKey \/ PxStop
    \/ Enroll
    \/ Tick

\* Both services are restarted by docker compose ("unless-stopped"), and a
\* program that runs goes on; nothing else is fair.
Fairness ==
    /\ WF_vars(UiLoad) /\ WF_vars(UiGenerate)
    /\ WF_vars(UiWriteCert) /\ WF_vars(UiWriteKey)
    /\ WF_vars(PxListen) /\ WF_vars(PxReadCert) /\ WF_vars(PxReadKey)

Spec == Init /\ [][Next]_vars /\ Fairness

-----------------------------------------------------------------------------
\* As long as no file is lost, the key pair that signed a device certificate
\* stays the organization CA: webui replaces a CA only while it is incomplete
\* (orgca.go load), and the endpoint signs with a complete one only. Stops of
\* both programs at any point are included.
IssuedStayCurrent ==
    losses = 0 => \A g \in issued : certFile = g /\ keyFile = g

\* A device that enrolled is accepted by the mTLS listener of every later
\* serving tls-proxy, as long as no file is lost and webui was not stopped
\* between the two files of a new CA. (When it was, tls-proxy may have read the
\* first certificate for its pool and the second for its issuer.)
EnrolledAreAccepted ==
    (losses = 0 /\ ~torn /\ pxPc = "serving") => issued \subseteq {pool}

\* The endpoint that serves can sign: the certificate and the key it read in
\* two steps (tls-proxy/enroll.go loadOrgCA), while webui may have been writing
\* the same two files, belong together, with the same two exceptions.
EndpointCanSign ==
    (losses = 0 /\ ~torn /\ pxPc = "serving") => issuerCert = issuerKey

\* Whatever the order the two services are started in, and wherever they were
\* stopped, both come to serve: tls-proxy exits on an incomplete CA and is
\* restarted until webui has completed it. A lost file may prevent it: webui
\* restores it only at its own next start.
BothComeToServe ==
    <>(losses > 0) \/ <>[](uiPc = "serving" /\ pxPc = "serving")

\* The certificate of the mTLS listener has not expired while it listens. The
\* code mints it once per process (mtls.go mintServerCertForMTLS).
ListenerIsValid ==
    pxPc # "stopped" => clock < mtlsCert + LeafLife
=============================================================================
