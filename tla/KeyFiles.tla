------------------------------ MODULE KeyFiles ------------------------------
(***************************************************************************)
(* The key files of a node on disk.                                        *)
(*                                                                         *)
(* keystore: the encrypted signing key, which Keystore::save_to_path       *)
(* (evice-multi-sequencer/src/keystore.rs) replaces by way of a temporary  *)
(* file, and which an authority node reads when it starts.                 *)
(*                                                                         *)
(* p2p_keypair: the key whose hash is the PeerId of the node.  The node    *)
(* makes it at its first start, or `node --get-peer-id' does before        *)
(* (zkapp/node/src/main.rs).  It is written in place.                      *)
(*                                                                         *)
(* Processes may end between any two system calls.  When the power fails,  *)
(* data that was not synced may be lost, and so may be the renaming of a   *)
(* file in a directory that was not synced.  The operator does not run     *)
(* --get-peer-id while the node starts.                                    *)
(***************************************************************************)
EXTENDS Naturals

CONSTANTS
  None, Torn,         \* no file; a file with part of its contents
  MaxSaves, MaxKeys,  \* bounds: calls of save_to_path, p2p keys made
  MaxPowerFailures    \* bound

\* The two marks are no contents.
KeysAssumption == None # Torn /\ {None, Torn} \cap Nat = {}

VARIABLES
  keystore,  \* what the path names
  kept,      \* what it names on the disk
  tmp,       \* the temporary file
  saver,     \* where save_to_path is
  saves,     \* calls of save_to_path; each writes its number
  saved,     \* the last one that returned Ok
  p2p,       \* p2p_keypair
  process,   \* the process at p2p_keypair, and where it is
  keys,      \* p2p keys made so far
  used,      \* history: the keys the node ran with or --get-peer-id printed
  power      \* power failures so far

keystoreVars == <<keystore, kept, tmp, saver, saves, saved>>
p2pVars == <<p2p, process, keys, used>>
vars == <<keystore, kept, tmp, saver, saves, saved, p2p, process, keys, used, power>>

File(content, synced) == [content |-> content, synced |-> synced]

Nobody == [who |-> "nobody", at |-> "end"]

Init ==
  /\ keystore = File(None, TRUE)
  /\ kept = keystore
  /\ tmp = keystore
  /\ saver = "idle"
  /\ saves = 0
  /\ saved = 0
  /\ p2p = File(None, TRUE)
  /\ process = Nobody
  /\ keys = 0
  /\ used = {}
  /\ power = 0

-----------------------------------------------------------------------------
(***************************************************************************)
(* save_to_path                                                            *)
(***************************************************************************)

\* The temporary file is created under a name of its own.
CreateTmp ==
  /\ saver = "idle"
  /\ saves < MaxSaves
  /\ saves' = saves + 1
  /\ saver' = "created"
  /\ tmp' = File(Torn, FALSE)
  /\ UNCHANGED <<keystore, kept, saved, p2pVars, power>>

\* write_all
WriteTmp ==
  /\ saver = "created"
  /\ saver' = "written"
  /\ tmp' = File(saves, FALSE)
  /\ UNCHANGED <<keystore, kept, saves, saved, p2pVars, power>>

\* Variant: the data is left to the operating system.
SyncTmpNot ==
  /\ saver = "written"
  /\ saver' = "synced"
  /\ UNCHANGED <<tmp, keystore, kept, saves, saved, p2pVars, power>>

\* sync_all
SyncTmp ==
  /\ saver = "written"
  /\ saver' = "synced"
  /\ tmp' = File(tmp.content, TRUE)
  /\ UNCHANGED <<keystore, kept, saves, saved, p2pVars, power>>

Rename ==
  /\ saver = "synced"
  /\ saver' = "renamed"
  /\ keystore' = tmp
  /\ UNCHANGED <<tmp, kept, saves, saved, p2pVars, power>>

\* Variant: the directory is not synced.
SyncDirNot ==
  /\ saver = "renamed"
  /\ saver' = "idle"
  /\ saved' = saves
  /\ UNCHANGED <<keystore, kept, tmp, saves, p2pVars, power>>

\* The directory is synced, and save_to_path returns.
SyncDir ==
  /\ saver = "renamed"
  /\ saver' = "idle"
  /\ kept' = keystore
  /\ saved' = saves
  /\ UNCHANGED <<keystore, tmp, saves, p2pVars, power>>

\* save_to_path returns an error, or its process ends.
SaverStops ==
  /\ saver # "idle"
  /\ saver' = "idle"
  /\ UNCHANGED <<keystore, kept, tmp, saves, saved, p2pVars, power>>

-----------------------------------------------------------------------------
(***************************************************************************)
(* p2p_keypair                                                             *)
(***************************************************************************)

At(who, at) == process.who \in who /\ process.at = at

GoTo(at) == process' = [process EXCEPT !.at = at]

Both == {"node", "tool"}

\* `node' is started, or `node --get-peer-id'.
Start(who) ==
  /\ process = Nobody
  /\ process' = [who |-> who, at |-> IF who = "node" THEN "keystore" ELSE "p2p"]
  /\ UNCHANGED <<keystoreVars, p2p, keys, used, power>>

\* from_path and decrypt succeed, given the right password.
Opens(file) == file.content \notin {None, Torn}

\* The node opens the keystore.  It ends if it cannot, or if the password or the VRF
\* key is wrong.
LoadKeystore ==
  /\ At({"node"}, "keystore")
  /\ \/ Opens(keystore) /\ GoTo("p2p")
     \/ process' = Nobody
  /\ UNCHANGED <<keystoreVars, p2p, keys, used, power>>

\* Variant: a new key is made at every start.
LoadP2pKeypairNot ==
  /\ At(Both, "p2p")
  /\ GoTo("create")
  /\ UNCHANGED <<keystoreVars, p2p, keys, used, power>>

\* The key is read if there is a file.  If it cannot be parsed, the node puts the file
\* aside and makes another; --get-peer-id ends.
LoadP2pKeypair ==
  /\ At(Both, "p2p")
  /\ \/ /\ p2p.content = None
        /\ GoTo("create")
        /\ UNCHANGED <<p2p, used>>
     \/ /\ p2p.content = Torn
        /\ IF process.who = "node"
             THEN GoTo("create") /\ p2p' = File(None, FALSE)
             ELSE process' = Nobody /\ UNCHANGED p2p
        /\ UNCHANGED used
     \/ /\ p2p.content \notin {None, Torn}
        /\ GoTo("have")
        /\ used' = used \cup {p2p.content}
        /\ UNCHANGED p2p
  /\ UNCHANGED <<keystoreVars, keys, power>>

\* A key is made; fs::write creates the file.
CreateP2pKeypair ==
  /\ At(Both, "create")
  /\ keys < MaxKeys
  /\ keys' = keys + 1
  /\ p2p' = File(Torn, FALSE)
  /\ GoTo("write")
  /\ UNCHANGED <<keystoreVars, used, power>>

\* fs::write writes the key.
WriteP2pKeypair ==
  /\ At(Both, "write")
  /\ p2p' = File(keys, FALSE)
  /\ GoTo("have")
  /\ used' = used \cup {keys}
  /\ UNCHANGED <<keystoreVars, keys, power>>

\* The process ends: --get-peer-id has printed the PeerId, or at any other point.
Stop ==
  /\ process # Nobody
  /\ process' = Nobody
  /\ UNCHANGED <<keystoreVars, p2p, keys, used, power>>

\* The operating system writes p2p_keypair to the disk.
WriteBack ==
  /\ ~ p2p.synced
  /\ p2p' = File(p2p.content, TRUE)
  /\ UNCHANGED <<keystoreVars, process, keys, used, power>>

\* What may be left of a file.
Remains(file) == IF file.synced THEN {file} ELSE {file, File(Torn, TRUE)}

PowerFailure ==
  /\ power < MaxPowerFailures
  /\ power' = power + 1
  /\ \E file \in Remains(keystore) \cup Remains(kept) :
       keystore' = File(file.content, TRUE) /\ kept' = keystore'
  /\ \E file \in Remains(p2p) \cup (IF p2p.synced THEN {} ELSE {File(None, TRUE)}) :
       p2p' = File(file.content, TRUE)
  /\ saver' = "idle"
  /\ process' = Nobody
  /\ UNCHANGED <<tmp, saves, saved, keys, used>>

SaveToPath == CreateTmp \/ WriteTmp \/ SyncTmp \/ Rename \/ SyncDir \/ SaverStops

OpenKeys ==
  \/ Start("node") \/ Start("tool")
  \/ LoadKeystore \/ LoadP2pKeypair \/ CreateP2pKeypair \/ WriteP2pKeypair \/ WriteBack

Next == SaveToPath \/ OpenKeys \/ Stop \/ PowerFailure

Spec == Init /\ [][Next]_vars

-----------------------------------------------------------------------------
(***************************************************************************)
(* Properties                                                              *)
(***************************************************************************)

\* A reader of the keystore finds no file, or a whole one: never a part of one,
\* wherever save_to_path was stopped, also after a power failure.
KeystoreIsWhole == keystore.content # Torn

\* A keystore for which save_to_path returned Ok is not lost: the file has it, or a
\* later one, also after a power failure.
SavedKeystoreStays == saved > 0 => keystore.content \in saved .. saves

\* As long as the power does not fail, the node has one PeerId in all its lives, and
\* --get-peer-id prints no other, although p2p_keypair is written in place and its
\* writer may be stopped half-way.
IdentityIsKept == power = 0 => \A k, l \in used : k = l
=============================================================================
