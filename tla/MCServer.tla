------------------------------ MODULE MCServer ------------------------------
EXTENDS ConfigReload, CertReload, ServerLifecycle

ClientIP == [type |-> "clientip", header |-> FALSE, cidrs |-> TRUE]

MCBoot == [parses |-> TRUE, valid |-> TRUE, fixed |-> 1, limits |-> 1, keys |-> ClientIP,
           fallback |-> ClientIP, external |-> 1, backend |-> 1,
           auth |-> [service |-> 1, policy |-> "failclosed"]]

\* One content for each way a reload can go.
MCContents ==
    {MCBoot,
     [MCBoot EXCEPT !.parses = FALSE],
     [MCBoot EXCEPT !.fixed = 2],
     [MCBoot EXCEPT !.fixed = 2, !.limits = 2],
     [MCBoot EXCEPT !.auth.policy = "failopen", !.backend = 2],
     [MCBoot EXCEPT !.auth = Absent, !.external = Absent],
     [MCBoot EXCEPT !.keys.type = "global", !.fallback.cidrs = FALSE],
     [MCBoot EXCEPT !.keys.cidrs = FALSE]}

MCServerConfigs ==
    [tls : BOOLEAN, http3 : BOOLEAN, mtls : BOOLEAN, certFile : BOOLEAN, caFile : {TRUE},
     address : {":8080"}, listenAddr : {":8080", ":8443"}]

AllOn == [tls |-> TRUE, http3 |-> TRUE, mtls |-> TRUE, certFile |-> TRUE, caFile |-> TRUE,
          address |-> ":8080", listenAddr |-> ":8443"]

\* The three share no variable.  A behaviour of all is a shuffle of one of
\* each, and every property is about one: it is enough to run each with the
\* others at one of their starts.
MCInit == ConfigInit /\ CertInit /\ RunInit

ConfigRests == ConfigInit /\ ~volume
CertRests == CertInit /\ ~secret
RunRests == RunInit /\ config = AllOn

MCNext ==
    \/ CertRests /\ RunRests /\ ConfigNext /\ UNCHANGED <<certVars, runVars>>
    \/ ConfigRests /\ RunRests /\ CertNext /\ UNCHANGED <<configVars, runVars>>
    \/ ConfigRests /\ CertRests /\ RunNext /\ UNCHANGED <<configVars, certVars>>

MCSpec == MCInit /\ [][MCNext]_<<configVars, certVars, runVars>> /\ RunFairness
=============================================================================
