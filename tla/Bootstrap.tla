----------------------------- MODULE Bootstrap -----------------------------
(***************************************************************************)
(* The way from `node --bootstrap' to the first election: the validators'  *)
(* keys and genesis.json (zkapp/node/src/main.rs), its reading when a node *)
(* starts (evice-multi-sequencer/src/genesis.rs), the address book made of *)
(* it, and the sub-committee that the consensus engine draws from the      *)
(* address book (consensus/engine.rs).                                     *)
(***************************************************************************)
EXTENDS AddressBook, Sequences, FiniteSets

CONSTANTS
  Missing, Torn,     \* no file; a file that cannot be parsed
  Validators,        \* NUM_VALIDATORS of them
  PublicKeySize,     \* 1312, the bytes of a public key
  SubCommitteeSize   \* sub_committee_size

VARIABLES
  file,     \* genesis.json: Missing, Torn or its accounts
  writing,  \* `node --bootstrap' is writing the file
  book,     \* the address books of the nodes that run
  elected   \* the sub-committees of their first rounds

vars == <<file, writing, book, elected>>

\* The accounts of the file: each under the hex form of its public key, with the
\* peer of its network identity.  (The p2p keys of these identities are generated and
\* dropped, so no node ever runs with one of them; elections do not look at peers.)
Accounts == [v \in Validators |-> [size |-> PublicKeySize, peer |-> v]]

Readable == file \notin {Missing, Torn}

Running == DOMAIN book

\* determine_sub_committee: the first SubCommitteeSize validators of a shuffle, which
\* is the same on all nodes with the same address book and seed.
SubCommittees(validators) ==
  LET n == Cardinality(validators)
      size == IF n < SubCommitteeSize THEN n ELSE SubCommitteeSize
  IN {s \in [1 .. size -> validators] : \A i, j \in 1 .. size : i # j => s[i] # s[j]}

-----------------------------------------------------------------------------

Init ==
  /\ file = Missing
  /\ writing = FALSE
  /\ book = [v \in {} |-> Accounts]
  /\ elected = [v \in {} |-> <<>>]

\* `node --bootstrap' creates the file, or empties the one that is there.
CreateGenesis ==
  /\ ~ writing
  /\ writing' = TRUE
  /\ file' = Torn
  /\ UNCHANGED <<book, elected>>

\* It writes the file and ends, or is stopped before.
WriteGenesis ==
  /\ writing
  /\ writing' = FALSE
  /\ file' \in {Torn, Accounts}
  /\ UNCHANGED <<book, elected>>

\* The node of a validator starts, if it can read the file.
StartNode(v) ==
  /\ v \notin Running
  /\ Readable
  /\ book' = [w \in Running \cup {v} |->
                IF w = v THEN UpdateFromGenesis(file) ELSE book[w]]
  /\ UNCHANGED <<file, writing, elected>>

\* handle_round_step comes to the election of its first round.
HandleRoundStep(v) ==
  /\ v \in Running \ DOMAIN elected
  /\ \E committee \in SubCommittees(DOMAIN book[v]) :
       elected' = [w \in DOMAIN elected \cup {v} |->
                     IF w = v THEN committee ELSE elected[w]]
  /\ UNCHANGED <<file, writing, book>>

Next ==
  \/ CreateGenesis \/ WriteGenesis
  \/ \E v \in Validators : StartNode(v) \/ HandleRoundStep(v)

Spec == Init /\ [][Next]_vars

-----------------------------------------------------------------------------
(***************************************************************************)
(* Properties                                                              *)
(***************************************************************************)

\* Every election among the nodes that were started with a genesis.json of
\* `node --bootstrap' gives a leader ("orchestrates sub-committee elections, triggers
\* block proposals when chosen as a leader", consensus/engine.rs; "a complete
\* genesis.json", zkapp/node/src/main.rs).
ElectionsHaveALeader == \A v \in DOMAIN elected : elected[v] # <<>>
=============================================================================
