----------------------------- MODULE CertReload -----------------------------
(***************************************************************************)
(* Hot reload of the server's certificate: config.CertWatcher polls the    *)
(* two files, and certHolder.Reload loads the pair and stores it.  It is   *)
(* called from two goroutines, the watcher's and, at the end of a reload   *)
(* of the configuration, the config watcher's.  Each read of a file is a   *)
(* step.  The client CA bundle is reloaded by the same code, with one file *)
(* for both and no second caller.                                          *)
(***************************************************************************)
EXTENDS Naturals

CONSTANTS
    MaxRenewals,   \* BOUND: certificates issued after the first
    Unread

ASSUME CertAssumption == MaxRenewals \in Nat

VARIABLES
    secret,        \* TRUE: a Kubernetes volume, both files swapped at once
    cert, key,     \* the number of the certificate in each file
    target,        \* where the "..data" link points
    lastCert, lastKey, lastLink,   \* what the watcher has seen
    pos, read,     \* each caller of certHolder.Reload, the certificate it read
    inUse,         \* certHolder.cert
    overwritten    \* HISTORY: an older pair was stored over a newer one

Loaders == {"certs", "config"}

secretFiles == <<secret, cert, key, target>>
seen == <<lastCert, lastKey, lastLink>>
certVars == <<secretFiles, seen, pos, read, inUse, overwritten>>

CertInit ==
    /\ secret \in BOOLEAN /\ cert = 0 /\ key = 0 /\ target = 0
    /\ lastCert = 0 /\ lastKey = 0 /\ lastLink = 0
    /\ pos = [w \in Loaders |-> "idle"] /\ read = [w \in Loaders |-> Unread]
    /\ inUse = 0 /\ overwritten = FALSE

(***************************************************************************)
(* Renewal: a volume is swapped as a whole, plain files are written one    *)
(* after the other (external).                                             *)
(***************************************************************************)

Swap ==
    /\ secret /\ cert < MaxRenewals
    /\ cert' = cert + 1 /\ key' = cert + 1 /\ target' = target + 1
    /\ UNCHANGED <<secret, seen, pos, read, inUse, overwritten>>

WriteCert ==
    /\ ~secret /\ cert = key /\ cert < MaxRenewals
    /\ cert' = cert + 1
    /\ UNCHANGED <<secret, key, target, seen, pos, read, inUse, overwritten>>

WriteKey ==
    /\ ~secret /\ key < cert
    /\ key' = cert
    /\ UNCHANGED <<secret, cert, target, seen, pos, read, inUse, overwritten>>

(***************************************************************************)
(* CertWatcher.Start.                                                      *)
(***************************************************************************)

\* Mutant: the key file is not looked at.
CertChanged == target # lastLink \/ cert # lastCert

Changed == target # lastLink \/ cert # lastCert \/ key # lastKey

PollCert ==
    /\ pos["certs"] = "idle" /\ Changed
    /\ lastLink' = target
    /\ pos' = [pos EXCEPT !["certs"] = "hashCert"]
    /\ UNCHANGED <<secretFiles, lastCert, lastKey, read, inUse, overwritten>>

HashCert ==
    /\ pos["certs"] = "hashCert" /\ lastCert' = cert
    /\ pos' = [pos EXCEPT !["certs"] = "hashKey"]
    /\ UNCHANGED <<secretFiles, lastKey, lastLink, read, inUse, overwritten>>

HashKey ==
    /\ pos["certs"] = "hashKey" /\ lastKey' = key
    /\ pos' = [pos EXCEPT !["certs"] = "load"]
    /\ UNCHANGED <<secretFiles, lastCert, lastLink, read, inUse, overwritten>>

(***************************************************************************)
(* certHolder.Reload.                                                      *)
(***************************************************************************)

\* The last part of Server.Reload.
ReloadConfig ==
    /\ pos["config"] = "idle"
    /\ pos' = [pos EXCEPT !["config"] = "load"]
    /\ UNCHANGED <<secretFiles, seen, read, inUse, overwritten>>

LoadCert(w) ==
    /\ pos[w] = "load"
    /\ pos' = [pos EXCEPT ![w] = "loadKey"] /\ read' = [read EXCEPT ![w] = cert]
    /\ UNCHANGED <<secretFiles, seen, inUse, overwritten>>

\* A key of another certificate is an error, and the old pair stays.
LoadKey(w) ==
    /\ pos[w] = "loadKey"
    /\ IF key = read[w]
       THEN pos' = [pos EXCEPT ![w] = "store"] /\ UNCHANGED read
       ELSE pos' = [pos EXCEPT ![w] = "idle"] /\ read' = [read EXCEPT ![w] = Unread]
    /\ UNCHANGED <<secretFiles, seen, inUse, overwritten>>

StorePair(w) ==
    /\ pos[w] = "store" /\ pos' = [pos EXCEPT ![w] = "idle"]
    /\ inUse' = read[w]
    /\ overwritten' = (w = "config" /\ read[w] < inUse)
    /\ read' = [read EXCEPT ![w] = Unread]
    /\ UNCHANGED <<secretFiles, seen>>

CertNext ==
    \/ Swap \/ WriteCert \/ WriteKey \/ PollCert \/ HashCert \/ HashKey \/ ReloadConfig
    \/ \E w \in Loaders : LoadCert(w) \/ LoadKey(w) \/ StorePair(w)

CertSpec == CertInit /\ [][CertNext]_certVars

-----------------------------------------------------------------------------

\* While the watcher rests and the files hold a matching pair, that pair is in
\* use or the next poll finds it: a renewal is not lost although the two files
\* change one after the other, or between the hashes and the load.  The
\* exception is an older pair that the config watcher's goroutine had read and
\* stored after the newer one.
CertFresh ==
    pos["certs"] = "idle" /\ cert = key => inUse = cert \/ Changed \/ overwritten
=============================================================================
