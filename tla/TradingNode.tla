---------------------------- MODULE TradingNode ----------------------------
(***************************************************************************)
(* A node (main of zkapp/node/src/main.rs) over several lives: it opens    *)
(* its key files, recovers the book from the log and serves clients, until *)
(* it is stopped, crashes or the power fails.  It composes TradingService, *)
(* and with it MarketProcessor, with KeyFiles.                             *)
(***************************************************************************)
EXTENDS TradingService

CONSTANTS None, Torn, MaxSaves, MaxKeys, MaxPowerFailures

VARIABLES keystore, kept, tmp, saver, saves, saved, p2p, process, keys, used, power

Keys == INSTANCE KeyFiles

ASSUME NodeAssumption == Keys!KeysAssumption

keyVars == <<keystore, kept, tmp, saver, saves, saved, p2p, process, keys, used, power>>

nodeVars == <<marketVars, serviceVars, keyVars>>

\* The node of a new installation.
NodeInit == ServiceInit /\ Keys!Init

\* The keys are opened, or the operator saves a keystore.
NodeOpensKeys ==
  /\ Keys!SaveToPath \/ Keys!OpenKeys
  /\ UNCHANGED <<marketVars, serviceVars>>

\* With the keys at hand the processor recovers and the service starts.
NodeStarts ==
  /\ ~ serving
  /\ Keys!At({"node"}, "have")
  /\ Recover
  /\ Reopen
  /\ UNCHANGED keyVars

NodeServes == Serve /\ UNCHANGED keyVars

\* The process of the node ends, or that of --get-peer-id.
NodeStops ==
  /\ Keys!Stop
  /\ IF up THEN Crash ELSE UNCHANGED marketVars
  /\ IF serving THEN EndCalls ELSE UNCHANGED serviceVars

\* The power fails.  The log is not synced, so its end may be lost.
PowerFails ==
  /\ Keys!PowerFailure
  /\ EndCalls
  /\ \E k \in 0 .. Len(file) : file' = SubSeq(file, 1, k)
  /\ buffer' = <<>>
  /\ executed' = <<>>
  /\ current' = Idle
  /\ up' = FALSE
  /\ lost' = TRUE
  /\ UNCHANGED <<sent, answered, written, failed, failures, crashes>>

NodeNext == NodeOpensKeys \/ NodeStarts \/ NodeServes \/ NodeStops \/ PowerFails

NodeSpec == NodeInit /\ [][NodeNext]_nodeVars

-----------------------------------------------------------------------------
(***************************************************************************)
(* Properties, of KeyFiles under this composition                          *)
(***************************************************************************)

\* See KeyFiles: a keystore that is read is a whole one, wherever save_to_path or the
\* power stopped.
KeystoreIsWhole == Keys!KeystoreIsWhole

\* See KeyFiles: a keystore for which save_to_path returned Ok is not lost.
SavedKeystoreStays == Keys!SavedKeystoreStays

\* See KeyFiles: without a power failure the node has one PeerId in all its lives.
IdentityIsKept == Keys!IdentityIsKept
=============================================================================
