---------------------------- MODULE AddressBook ----------------------------
(***************************************************************************)
(* The address book of evice-multi-sequencer/src/p2p/types.rs: which peer  *)
(* each validator is, as far as genesis.json tells.                        *)
(*                                                                         *)
(* An account of genesis.json stands for its key in the file: `size' is    *)
(* the number of bytes that the key has, `peer' the peer named in its      *)
(* network_identity (NoPeer if there is none, or none that can be parsed). *)
(***************************************************************************)
EXTENDS Integers

CONSTANTS
  AddressSize,  \* 20, the bytes of an address
  NoPeer

\* update_from_genesis: accounts whose key is an address and that have a network
\* identity.  The others are passed over without a word.
UpdateFromGenesis(accounts) ==
  LET isValidator(a) == accounts[a].peer # NoPeer /\ accounts[a].size = AddressSize
  IN [a \in {x \in DOMAIN accounts : isValidator(x)} |-> accounts[a].peer]

GetAllPeerIds(book) == {book[a] : a \in DOMAIN book}
=============================================================================
