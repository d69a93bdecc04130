------------------------- MODULE TradingNodeProofs -------------------------
(***************************************************************************)
(* Proofs about the node: its key files, and its log, book and answers,    *)
(* for any number of commands, saves, keys, crashes and power failures.    *)
(***************************************************************************)
EXTENDS TradingNode, WellFoundedInduction, TLAPS

-----------------------------------------------------------------------------
(***************************************************************************)
(* Sequences                                                               *)
(***************************************************************************)

\* A sequence is a function on an initial segment of the positive numbers.
LEMMA SeqFacts ==
  ASSUME NEW S, NEW s \in Seq(S)
  PROVE  Len(s) \in Nat /\ DOMAIN s = 1 .. Len(s) /\ \A i \in 1 .. Len(s) : s[i] \in S
OBVIOUS

\* Such functions are sequences.
LEMMA SeqFromFunction ==
  ASSUME NEW S, NEW n \in Nat, NEW f \in [1 .. n -> S]
  PROVE  f \in Seq(S) /\ Len(f) = n
OBVIOUS

\* Append adds one element, at the end.
LEMMA AppendFacts ==
  ASSUME NEW S, NEW s \in Seq(S), NEW e \in S
  PROVE  /\ Append(s, e) \in Seq(S) /\ Len(Append(s, e)) = Len(s) + 1
         /\ \A i \in 1 .. Len(s) : Append(s, e)[i] = s[i]
         /\ Append(s, e)[Len(s) + 1] = e
OBVIOUS

\* The elements of the second sequence follow those of the first.
LEMMA ConcatFacts ==
  ASSUME NEW S, NEW s \in Seq(S), NEW t \in Seq(S)
  PROVE  /\ s \o t \in Seq(S) /\ Len(s \o t) = Len(s) + Len(t)
         /\ \A i \in 1 .. Len(s) + Len(t) :
              (s \o t)[i] = IF i <= Len(s) THEN s[i] ELSE t[i - Len(s)]
OBVIOUS

\* Nothing follows.
LEMMA NothingAfter ==
  ASSUME NEW S, NEW s \in Seq(S)
  PROVE  s \o <<>> = s
OBVIOUS

\* The elements of a concatenation are those of the two sequences.
LEMMA RangeOfConcat ==
  ASSUME NEW S, NEW s \in Seq(S), NEW t \in Seq(S)
  PROVE  Range(s \o t) \subseteq Range(s) \cup Range(t)
<1> DEFINE both == s \o t
<1> SUFFICES ASSUME NEW i \in DOMAIN both PROVE both[i] \in Range(s) \cup Range(t)
  BY Zenon DEF Range
<1>1. \/ i \in DOMAIN s /\ both[i] = s[i]
      \/ i - Len(s) \in DOMAIN t /\ both[i] = t[i - Len(s)]
  OBVIOUS
<1> QED BY <1>1, Zenon DEF Range

\* Sequences with the same elements at the same places are equal.
LEMMA SameSeq ==
  ASSUME NEW S, NEW s \in Seq(S), NEW t \in Seq(S),
         Len(s) = Len(t), \A i \in 1 .. Len(s) : s[i] = t[i]
  PROVE  s = t
OBVIOUS

\* A run of a sequence.
LEMMA SubSeqFacts ==
  ASSUME NEW S, NEW s, NEW m \in Int, NEW n \in Int, \A i \in m .. n : s[i] \in S
  PROVE  /\ SubSeq(s, m, n) \in Seq(S)
         /\ Len(SubSeq(s, m, n)) = IF m <= n THEN (n - m) + 1 ELSE 0
         /\ \A i \in 1 .. (n - m) + 1 : SubSeq(s, m, n)[i] = s[(m + i) - 1]
OBVIOUS

\* A sequence is cut in two.
LEMMA TwoParts ==
  ASSUME NEW S, NEW s \in Seq(S), NEW k \in 0 .. Len(s)
  PROVE  SubSeq(s, 1, k) \o SubSeq(s, k + 1, Len(s)) = s
<1> DEFINE one == SubSeq(s, 1, k)
           two == SubSeq(s, k + 1, Len(s))
<1>1. one \in Seq(S) /\ Len(one) = k /\ \A i \in 1 .. k : one[i] = s[i]
  OBVIOUS
<1>2. two \in Seq(S) /\ Len(two) = Len(s) - k /\ \A i \in 1 .. Len(s) - k : two[i] = s[k + i]
  OBVIOUS
<1> HIDE DEF one, two
<1>3. /\ one \o two \in Seq(S) /\ Len(one \o two) = Len(one) + Len(two)
      /\ \A i \in 1 .. Len(one) + Len(two) :
           (one \o two)[i] = IF i <= Len(one) THEN one[i] ELSE two[i - Len(one)]
  BY <1>1, <1>2, ConcatFacts, ZenonT(30)
<1>4. Len(one \o two) = Len(s)
  BY <1>1, <1>2, <1>3
<1>5. \A i \in 1 .. Len(s) : (one \o two)[i] = s[i]
  BY <1>1, <1>2, <1>3
<1>6. one \o two = s
  BY <1>3, <1>4, <1>5, SameSeq, Zenon
<1> QED BY <1>6, Zenon DEF one, two

-----------------------------------------------------------------------------
(***************************************************************************)
(* The key files: the keystore                                             *)
(***************************************************************************)

\* A keystore that may be read, now or after a power failure: synced, and as recent as
\* the last save that returned Ok.
IsGood(f) ==
  /\ f.synced
  /\ f.content \in {None} \cup 1 .. saves
  /\ saved > 0 => f.content \in saved .. saves

\* What save_to_path keeps true at every point: the temporary file is whole and synced
\* before it takes the name of the keystore.
KeystoreInv ==
  /\ saves \in Nat
  /\ saved \in 0 .. saves
  /\ saver \in {"idle", "created", "written", "synced", "renamed"}
  /\ saver # "idle" => saved < saves
  /\ saver = "written" => tmp.content = saves
  /\ saver = "synced" => tmp.content = saves /\ tmp.synced
  /\ saver = "renamed" => keystore.content = saves
  /\ IsGood(keystore)
  /\ IsGood(kept)

\* What the steps of the node and of --get-peer-id do to the keystore: nothing.
LEMMA OpenKeysKeepsKeystore ==
  Keys!OpenKeys \/ Keys!Stop => UNCHANGED Keys!keystoreVars
BY Zenon DEF Keys!OpenKeys, Keys!Stop, Keys!Start, Keys!LoadKeystore, Keys!LoadP2pKeypair,
       Keys!CreateP2pKeypair, Keys!WriteP2pKeypair, Keys!WriteBack

\* KeystoreInv is inductive.
LEMMA KeystoreInvKept ==
  ASSUME KeystoreInv, [Keys!Next]_(Keys!vars)
  PROVE  KeystoreInv'
<1> USE NodeAssumption, KeystoreInv DEF KeystoreInv, IsGood, Keys!File
<1>1. CASE Keys!CreateTmp
  BY <1>1 DEF Keys!CreateTmp
<1>2. CASE Keys!WriteTmp
  BY <1>2, Zenon DEF Keys!WriteTmp
<1>3. CASE Keys!SyncTmp
  BY <1>3, Zenon DEF Keys!SyncTmp
<1>4. CASE Keys!Rename
  BY <1>4 DEF Keys!Rename
<1>5. CASE Keys!SyncDir
  BY <1>5 DEF Keys!SyncDir
<1>6. CASE Keys!SaverStops
  BY <1>6, Zenon DEF Keys!SaverStops
<1>7. CASE Keys!OpenKeys \/ Keys!Stop
  BY <1>7, OpenKeysKeepsKeystore, Zenon DEF Keys!keystoreVars
<1>8. CASE Keys!PowerFailure
  <2>1. Keys!Remains(keystore) = {keystore} /\ Keys!Remains(kept) = {kept}
    BY Zenon DEF Keys!Remains
  <2>2. PICK f \in {keystore, kept} :
          keystore' = Keys!File(f.content, TRUE) /\ kept' = keystore'
    BY <1>8, <2>1, Zenon DEF Keys!PowerFailure
  <2>3. saver' = "idle" /\ UNCHANGED <<tmp, saves, saved>>
    BY <1>8, Zenon DEF Keys!PowerFailure
  <2> QED BY <2>2, <2>3, Zenon
<1>9. CASE UNCHANGED Keys!vars
  BY <1>9, Zenon DEF Keys!vars
<1> QED BY <1>1, <1>2, <1>3, <1>4, <1>5, <1>6, <1>7, <1>8, <1>9, Zenon
      DEF Keys!Next, Keys!SaveToPath

\* Whoever reads the keystore finds none or a whole one, and one for which save_to_path
\* returned Ok is never lost, wherever the process is stopped or the power fails.
THEOREM KeystoreIsSafe == Keys!Spec => [](Keys!KeystoreIsWhole /\ Keys!SavedKeystoreStays)
<1>1. Keys!Init => KeystoreInv
  BY DEF Keys!Init, KeystoreInv, IsGood, Keys!File
<1>2. KeystoreInv /\ [Keys!Next]_(Keys!vars) => KeystoreInv'
  BY KeystoreInvKept, Zenon
<1>3. KeystoreInv => Keys!KeystoreIsWhole /\ Keys!SavedKeystoreStays
  BY NodeAssumption
  DEF KeystoreInv, IsGood, Keys!KeystoreIsWhole, Keys!SavedKeystoreStays, Keys!KeysAssumption
<1> QED BY <1>1, <1>2, <1>3, PTL DEF Keys!Spec

-----------------------------------------------------------------------------
(***************************************************************************)
(* p2p_keypair                                                             *)
(***************************************************************************)

\* Until the power fails, a key that was used is the one in the file, and nobody is
\* about to make another.
IdentityInv ==
  /\ power \in Nat /\ keys \in Nat
  /\ p2p.content \in {None, Torn} \cup Nat
  /\ process \in [who : {"node", "tool", "nobody"},
                 at : {"keystore", "p2p", "create", "write", "have", "end"}]
  /\ power = 0 => /\ used \subseteq Nat \cap {p2p.content}
                  /\ process.at \in {"create", "write"} => used = {}

\* What save_to_path does to p2p_keypair: nothing.
LEMMA SaveKeepsIdentity ==
  Keys!SaveToPath => UNCHANGED <<Keys!p2pVars, power>>
BY Zenon DEF Keys!SaveToPath, Keys!CreateTmp, Keys!WriteTmp, Keys!SyncTmp, Keys!Rename,
       Keys!SyncDir, Keys!SaverStops

\* IdentityInv is inductive.
LEMMA IdentityInvKept ==
  ASSUME IdentityInv, [Keys!Next]_(Keys!vars)
  PROVE  IdentityInv'
<1> USE NodeAssumption, IdentityInv DEF IdentityInv, Keys!File
<1>1. CASE Keys!SaveToPath
  BY <1>1, SaveKeepsIdentity DEF Keys!p2pVars
<1>2. CASE \E who \in {"node", "tool"} : Keys!Start(who)
  BY <1>2 DEF Keys!Start
<1>3. CASE Keys!LoadKeystore
  BY <1>3 DEF Keys!LoadKeystore, Keys!GoTo, Keys!Nobody
<1>4. CASE Keys!LoadP2pKeypair
  <2>1. CASE p2p.content = None
    BY <1>4, <2>1 DEF Keys!LoadP2pKeypair, Keys!GoTo, Keys!KeysAssumption
  <2>2. CASE p2p.content = Torn
    BY <1>4, <2>2 DEF Keys!LoadP2pKeypair, Keys!GoTo, Keys!Nobody, Keys!KeysAssumption
  <2>3. CASE p2p.content \notin {None, Torn}
    BY <1>4, <2>3 DEF Keys!LoadP2pKeypair, Keys!GoTo
  <2> QED BY <2>1, <2>2, <2>3
<1>5. CASE Keys!CreateP2pKeypair
  BY <1>5 DEF Keys!CreateP2pKeypair, Keys!At, Keys!GoTo
<1>6. CASE Keys!WriteP2pKeypair
  BY <1>6 DEF Keys!WriteP2pKeypair, Keys!At, Keys!GoTo
<1>7. CASE Keys!WriteBack \/ Keys!Stop
  BY <1>7 DEF Keys!WriteBack, Keys!Stop, Keys!Nobody
<1>8. CASE Keys!PowerFailure
  <2>1. power' = power + 1 /\ process' = Keys!Nobody /\ keys' = keys
    BY <1>8 DEF Keys!PowerFailure
  <2>2. p2p'.content \in {None, Torn} \cup Nat
    BY <1>8 DEF Keys!PowerFailure, Keys!Remains
  <2> QED BY <2>1, <2>2 DEF Keys!Nobody
<1>9. CASE UNCHANGED Keys!vars
  BY <1>9 DEF Keys!vars
<1> QED BY <1>1, <1>2, <1>3, <1>4, <1>5, <1>6, <1>7, <1>8, <1>9 DEF Keys!Next, Keys!OpenKeys

\* Without a power failure a node has one PeerId for ever, although p2p_keypair is
\* written in place.
THEOREM IdentityIsSafe == Keys!Spec => []Keys!IdentityIsKept
<1>1. Keys!Init => IdentityInv
  BY DEF Keys!Init, IdentityInv, Keys!Nobody, Keys!File
<1>2. IdentityInv /\ [Keys!Next]_(Keys!vars) => IdentityInv'
  BY IdentityInvKept
<1>3. IdentityInv => Keys!IdentityIsKept
  BY DEF IdentityInv, Keys!IdentityIsKept
<1> QED BY <1>1, <1>2, <1>3, PTL DEF Keys!Spec

-----------------------------------------------------------------------------
(***************************************************************************)
(* The key files in the node                                               *)
(***************************************************************************)

\* Every step of the node is one of the key files, or leaves them alone.
LEMMA NodeStepsAreKeySteps ==
  ASSUME [NodeNext]_nodeVars
  PROVE  [Keys!Next]_(Keys!vars)
BY DEF NodeNext, NodeOpensKeys, NodeStarts, NodeServes, NodeStops, PowerFails,
       nodeVars, keyVars, Keys!Next, Keys!vars

\* The composition keeps the promise of the key files: what holds of KeyFiles alone
\* holds of them in the node.
THEOREM NodeKeepsKeys == NodeSpec => Keys!Spec
<1>1. NodeInit => Keys!Init
  BY DEF NodeInit
<1>2. [NodeNext]_nodeVars => [Keys!Next]_(Keys!vars)
  BY NodeStepsAreKeySteps
<1> QED BY <1>1, <1>2, PTL DEF NodeSpec, Keys!Spec

\* In the node, whatever else it does and wherever it or the power stops, a keystore that
\* load_from_path reads is a whole one.
THEOREM NodeKeystoreIsWhole == NodeSpec => []KeystoreIsWhole
<1>1. Keys!KeystoreIsWhole => KeystoreIsWhole
  BY DEF KeystoreIsWhole
<1> QED BY <1>1, KeystoreIsSafe, NodeKeepsKeys, PTL

\* And a keystore for which save_to_path returned Ok is not lost, wherever the node or the
\* power stops later.
THEOREM NodeKeystoreStays == NodeSpec => []SavedKeystoreStays
<1>1. Keys!SavedKeystoreStays => SavedKeystoreStays
  BY DEF SavedKeystoreStays
<1> QED BY <1>1, KeystoreIsSafe, NodeKeepsKeys, PTL

\* In the node, as long as the power does not fail, load_or_create_p2p_keypair gives one
\* PeerId in all its lives.
THEOREM NodeIdentityIsSafe == NodeSpec => []IdentityIsKept
<1>1. Keys!IdentityIsKept => IdentityIsKept
  BY DEF IdentityIsKept
<1> QED BY <1>1, IdentityIsSafe, NodeKeepsKeys, PTL

-----------------------------------------------------------------------------
(***************************************************************************)
(* Reading the log                                                         *)
(***************************************************************************)

\* A set of naturals has a least element.
LEMMA Least ==
  ASSUME NEW T \in SUBSET Nat, T # {}
  PROVE  \E x \in T : \A y \in T : x <= y
<1>1. PICK x \in T : \A y \in T : ~ (<<y, x>> \in OpToRel(<, Nat))
  BY NatLessThanWellFounded, WFMin, Zenon
<1>2. \A y \in T : ~ (y < x)
  BY <1>1, Zenon DEF OpToRel
<1> QED BY <1>2

\* read_all decodes entries up to the first error, or to the end.
LEMMA ReadableIs ==
  ASSUME NEW pieces \in Seq(Pieces)
  PROVE  /\ Readable(pieces) \in 0 .. Len(pieces) \div 2
         /\ \A k \in 1 .. Readable(pieces) : IsEntry(pieces, k)
         /\ Readable(pieces) < Len(pieces) \div 2 => ~ IsEntry(pieces, Readable(pieces) + 1)
<1> DEFINE all == Len(pieces) \div 2
           Stops(n) == n < all => ~ IsEntry(pieces, n + 1)
           T == {n \in 0 .. all : Stops(n)}
<1>1. all \in Nat
  OBVIOUS
<1> HIDE DEF all
<1>2. all \in T
  BY <1>1
<1>3. T \in SUBSET Nat /\ T # {}
  <2>1. \A n \in T : n \in Nat
    BY <1>1
  <2> HIDE DEF T
  <2> QED BY <1>2, <2>1
<1>4. PICK n \in T : \A m \in T : n <= m
  BY <1>3, Least, Zenon
<1>5. \A k \in 1 .. n : IsEntry(pieces, k)
  <2> SUFFICES ASSUME NEW k \in 1 .. n, ~ IsEntry(pieces, k)
               PROVE  FALSE
    OBVIOUS
  <2>1. k - 1 \in 0 .. all /\ (k - 1) + 1 = k
    BY <1>1, <1>4
  <2>2. k - 1 \in T
    BY <2>1
  <2> QED BY <1>1, <1>4, <2>2
<1>6. \E m \in 0 .. all : /\ \A k \in 1 .. m : IsEntry(pieces, k)
                          /\ m < all => ~ IsEntry(pieces, m + 1)
  BY <1>4, <1>5
<1>7. Readable(pieces) = CHOOSE m \in 0 .. all : /\ \A k \in 1 .. m : IsEntry(pieces, k)
                                                 /\ m < all => ~ IsEntry(pieces, m + 1)
  BY DEF Readable, all
<1> QED BY <1>6, <1>7 DEF all

\* What is read are entries.
LEMMA ReadAllType ==
  ASSUME NEW pieces \in Seq(Pieces)
  PROVE  ReadAll(pieces) \in Seq(Entry)
<1>1. Readable(pieces) \in 0 .. Len(pieces) \div 2
  BY ReadableIs
<1>2. Readable(pieces) \in Nat /\ 2 * Readable(pieces) <= Len(pieces)
  BY <1>1
<1>3. \A k \in 1 .. Readable(pieces) : 2 * k \in 1 .. Len(pieces)
  BY <1>2
<1>4. ASSUME NEW k \in 1 .. Readable(pieces)
      PROVE  pieces[2 * k].entry \in Entry
  <2>1. pieces[2 * k] \in Pieces
    BY <1>3, SeqFacts
  <2> QED BY <2>1 DEF Pieces
<1>5. ReadAll(pieces) \in [1 .. Readable(pieces) -> Entry]
  BY <1>4 DEF ReadAll
<1> QED BY <1>2, <1>5, SeqFromFunction

\* The pieces are those of the entries, none cut short.
Encodes(pieces, entries) ==
  /\ Len(pieces) = 2 * Len(entries)
  /\ \A k \in 1 .. Len(entries) :
       /\ pieces[2 * k - 1] = [entry |-> entries[k], half |-> 1]
       /\ pieces[2 * k] = [entry |-> entries[k], half |-> 2]

\* read_all returns what was written, if none of it was cut short.
LEMMA EncodedIsRead ==
  ASSUME NEW pieces \in Seq(Pieces), NEW entries \in Seq(Entry), Encodes(pieces, entries)
  PROVE  /\ ReadAll(pieces) = entries
         /\ Misread(pieces) = {<<>>}
<1> DEFINE n == Len(entries)
<1>1. n \in Nat /\ Len(pieces) = 2 * n /\ Len(pieces) \div 2 = n
  BY DEF Encodes
<1>2. ASSUME NEW k \in 1 .. n
      PROVE  IsEntry(pieces, k) /\ pieces[2 * k].entry = entries[k]
  <2>1. /\ pieces[2 * k - 1] = [entry |-> entries[k], half |-> 1]
        /\ pieces[2 * k] = [entry |-> entries[k], half |-> 2]
    BY DEF Encodes
  <2> QED BY <2>1 DEF IsEntry
<1>3. Readable(pieces) = n
  BY <1>1, <1>2, ReadableIs
<1>4. ReadAll(pieces) = [k \in 1 .. n |-> pieces[2 * k].entry]
  BY <1>3 DEF ReadAll
<1>5. ReadAll(pieces) = entries
  BY <1>2, <1>4
<1> QED BY <1>1, <1>3, <1>5 DEF Misread

\* An entry is written after the others.
LEMMA EncodesMore ==
  ASSUME NEW pieces \in Seq(Pieces), NEW entries \in Seq(Entry), NEW e \in Entry,
         Encodes(pieces, entries)
  PROVE  /\ pieces \o Encode(e) \in Seq(Pieces)
         /\ Encodes(pieces \o Encode(e), Append(entries, e))
<1> DEFINE n == Len(entries)
           more == pieces \o Encode(e)
<1>1. /\ Encode(e) \in Seq(Pieces) /\ Len(Encode(e)) = 2
      /\ Encode(e)[1] = [entry |-> e, half |-> 1]
      /\ Encode(e)[2] = [entry |-> e, half |-> 2]
  BY DEF Encode, Pieces
<1>2. /\ more \in Seq(Pieces)
      /\ Len(more) = Len(pieces) + 2
      /\ \A i \in 1 .. Len(pieces) + 2 :
           more[i] = IF i <= Len(pieces) THEN pieces[i] ELSE Encode(e)[i - Len(pieces)]
  <2>1. /\ more \in Seq(Pieces)
        /\ Len(more) = Len(pieces) + Len(Encode(e))
        /\ \A i \in 1 .. Len(pieces) + Len(Encode(e)) :
             more[i] = IF i <= Len(pieces) THEN pieces[i] ELSE Encode(e)[i - Len(pieces)]
    BY <1>1, ConcatFacts, Zenon
  <2> QED BY <1>1, <2>1, Zenon
<1> HIDE DEF more
<1>3. /\ n \in Nat /\ Len(pieces) = 2 * n /\ Len(Append(entries, e)) = n + 1
      /\ \A k \in 1 .. n : Append(entries, e)[k] = entries[k]
      /\ Append(entries, e)[n + 1] = e
  BY AppendFacts DEF Encodes
<1>4. ASSUME NEW k \in 1 .. n
      PROVE  /\ more[2 * k - 1] = [entry |-> entries[k], half |-> 1]
             /\ more[2 * k] = [entry |-> entries[k], half |-> 2]
  <2>1. /\ 2 * k - 1 \in 1 .. Len(pieces) + 2 /\ 2 * k \in 1 .. Len(pieces) + 2
        /\ 2 * k - 1 <= Len(pieces) /\ 2 * k <= Len(pieces)
    BY <1>3
  <2>2. more[2 * k - 1] = pieces[2 * k - 1] /\ more[2 * k] = pieces[2 * k]
    BY <1>2, <2>1
  <2>3. /\ pieces[2 * k - 1] = [entry |-> entries[k], half |-> 1]
        /\ pieces[2 * k] = [entry |-> entries[k], half |-> 2]
    BY Zenon DEF Encodes
  <2> QED BY <2>2, <2>3, Zenon
<1>5. /\ more[2 * (n + 1) - 1] = [entry |-> e, half |-> 1]
      /\ more[2 * (n + 1)] = [entry |-> e, half |-> 2]
  <2>1. more[2 * n + 1] = Encode(e)[1] /\ more[2 * n + 2] = Encode(e)[2]
    <3>1. /\ 2 * n + 1 \in 1 .. Len(pieces) + 2 /\ 2 * n + 2 \in 1 .. Len(pieces) + 2
          /\ ~(2 * n + 1 <= Len(pieces)) /\ ~(2 * n + 2 <= Len(pieces))
          /\ 2 * n + 1 - Len(pieces) = 1 /\ 2 * n + 2 - Len(pieces) = 2
      BY <1>3
    <3>2. more[2 * n + 1] = Encode(e)[2 * n + 1 - Len(pieces)]
      BY <1>2, <3>1
    <3>3. more[2 * n + 2] = Encode(e)[2 * n + 2 - Len(pieces)]
      BY <1>2, <3>1
    <3> QED BY <3>1, <3>2, <3>3
  <2>2. 2 * (n + 1) - 1 = 2 * n + 1 /\ 2 * (n + 1) = 2 * n + 2
    BY <1>3
  <2> QED BY <1>1, <2>1, <2>2
<1>6. Encodes(more, Append(entries, e))
  <2>1. Len(more) = 2 * (n + 1)
    BY <1>2, <1>3
  <2>2. \A k \in 1 .. n + 1 : k \in 1 .. n \/ k = n + 1
    BY <1>3
  <2> HIDE DEF n
  <2> QED BY <1>3, <1>4, <1>5, <2>1, <2>2, Zenon DEF Encodes, n
<1> QED BY <1>2, <1>6 DEF more

-----------------------------------------------------------------------------
(***************************************************************************)
(* The processor: types                                                    *)
(***************************************************************************)

\* The state of a command that is being handled.
Handling == [command : Commands, part : Nat \ {0}, at : {"write", "execute"}]

\* The types, and what makes them inductive: an order is executed only if the command
\* has it, and only a process whose last write failed has pieces that are not in the
\* file.
MarketInv ==
  /\ TypeOK
  /\ current # Idle =>
       /\ up /\ current.command \in sent
       /\ current.at = "execute" => current.part <= Size[current.command]
  /\ buffer # <<>> => up /\ failed

\* Every step of the node is one of the processor, leaves it alone, or is the failure
\* of the power.
LEMMA NodeStepsAreMarketSteps ==
  ASSUME [NodeNext]_nodeVars
  PROVE  [Next]_vars \/ PowerFails
<1>1. CASE NodeServes
  BY <1>1 DEF NodeServes, Serve, Take, Work, Reply, ProcessorPanics, Subscribe, Show,
       PlaceLimitOrder, ExecuteSolverBundle, CancelOrderCall, GetOrderBookDepth,
       SubmitIntentBid, Accept, Refuse, Send, SendFails, GiveUp, Next, marketVars
<1>2. CASE ~ NodeServes
  BY <1>2 DEF NodeNext, NodeOpensKeys, NodeStarts, NodeStops, PowerFails, nodeVars,
       marketVars, Next
<1> QED BY <1>1, <1>2, Zenon

\* How many orders a command has.
LEMMA SizeType == Size \in [Commands -> Nat]
BY ProcessorAssumption DEF Size

\* The command that is being handled.
LEMMA CurrentType ==
  ASSUME TypeOK, current # Idle
  PROVE  /\ current \in Handling
         /\ current.part \in Nat \ {0} /\ current.command \in Commands
         /\ CurrentEntry \in Entry
         /\ Size[current.command] \in Nat
         /\ current.part <= Size[current.command] + 1
BY SizeType DEF TypeOK, Handling, CurrentEntry, Entry

\* A log, a buffer and a book may be empty.
LEMMA EmptyLog ==
  /\ <<>> \in Seq(Pieces) /\ <<>> \in Seq(Entry) /\ <<>> \in Seq(Entry \cup {Garbage})
  /\ \A S : <<>> \in Seq(S)
OBVIOUS

\* Pieces that are written one after the other.
LEMMA Regroup == \A a, b, c \in Seq(Pieces) : (a \o b) \o c = a \o (b \o c)
OBVIOUS

\* The actor takes up a command.
LEMMA ReceiveTypes ==
  ASSUME MarketInv, NEW c \in Commands, Receive(c)
  PROVE  MarketInv'
<1>1. current' = [command |-> c, part |-> 1, at |-> "write"] /\ current' \in Handling
  BY DEF Receive, Handling
<1>2. Size[c] \in Nat /\ current'.part = 1 /\ current'.command = c /\ current'.at = "write"
  BY <1>1, SizeType
<1>3. current'.part <= Size[current'.command] + 1
  BY <1>2
<1>4. /\ up' = up /\ up = TRUE /\ sent' = sent \cup {c}
      /\ UNCHANGED <<file, buffer, executed, answered, written, failed, lost, failures, crashes>>
  BY DEF Receive, MarketInv, TypeOK
<1>5. answered' \in Seq(sent')
  BY <1>4 DEF MarketInv, TypeOK
<1>6. TypeOK'
  BY <1>1, <1>3, <1>4, <1>5 DEF MarketInv, TypeOK, Handling
<1> QED BY <1>2, <1>4, <1>6 DEF MarketInv

\* What write_entry does, whether it succeeds or not: the pieces of the entry follow
\* those before, and the file has a part of them.
LEMMA WriteDoes ==
  ASSUME MarketInv, WriteEntry \/ WriteFails
  PROVE  /\ current # Idle /\ current.at = "write" /\ up
         /\ current.part <= Size[current.command]
         /\ current' = [current EXCEPT !.at = "execute"]
         /\ UNCHANGED <<executed, up, sent, answered, lost, crashes>>
         /\ file' \in Seq(Pieces) /\ buffer' \in Seq(Pieces)
         /\ file' \o buffer' = (file \o buffer) \o Encode(CurrentEntry)
         /\ failed' \in BOOLEAN /\ (buffer' # <<>> => failed')
<1>1. /\ file \in Seq(Pieces) /\ buffer \in Seq(Pieces)
      /\ current # Idle /\ current.at = "write" /\ up
      /\ current.part <= Size[current.command]
      /\ current' = [current EXCEPT !.at = "execute"]
      /\ UNCHANGED <<executed, up, sent, answered, lost, crashes>>
  BY DEF MarketInv, TypeOK, WriteEntry, WriteFails, Working
<1>2. CurrentEntry \in Entry
  BY <1>1, CurrentType DEF MarketInv
<1>3. Encode(CurrentEntry) \in Seq(Pieces)
  BY <1>2 DEF Encode, Pieces
<1> DEFINE more == Encode(CurrentEntry)
           pieces == buffer \o more
<1>4. /\ pieces \in Seq(Pieces) /\ file \o buffer \in Seq(Pieces)
      /\ file \o pieces = (file \o buffer) \o more
  BY <1>1, <1>3, ConcatFacts
<1>5. CASE WriteEntry
  <2>1. file' = (file \o buffer) \o more /\ buffer' = <<>> /\ failed' = FALSE
    BY <1>5 DEF WriteEntry
  <2> HIDE DEF more
  <2>2. (file \o buffer) \o more \in Seq(Pieces)
    BY <1>3, <1>4, ConcatFacts DEF more
  <2>3. file' \o buffer' = (file \o buffer) \o more
    BY <2>1, <2>2
  <2>4. failed' \in BOOLEAN /\ (buffer' # <<>> => failed') /\ buffer' \in Seq(Pieces)
    BY <2>1, EmptyLog, Zenon
  <2> QED BY <1>1, <2>1, <2>2, <2>3, <2>4, Zenon DEF more
<1>6. CASE WriteFails
  <2>1. PICK k \in (IF Fits(pieces) THEN 0 ELSE Len(buffer)) .. Len(pieces) - 1 :
          /\ file' = file \o SubSeq(pieces, 1, k)
          /\ buffer' = SubSeq(pieces, k + 1, Len(pieces))
    BY <1>6, Zenon DEF WriteFails
  <2> HIDE DEF pieces
  <2>2. Len(pieces) \in Nat /\ k \in 0 .. Len(pieces) /\ \A i \in 1 .. Len(pieces) : pieces[i] \in Pieces
    <3>1. Len(pieces) \in Nat /\ \A i \in 1 .. Len(pieces) : pieces[i] \in Pieces
      BY <1>4, SeqFacts
    <3>2. Len(buffer) \in Nat
      BY <1>1, SeqFacts
    <3> QED BY <2>1, <3>1, <3>2
  <2>3. SubSeq(pieces, 1, k) \in Seq(Pieces) /\ SubSeq(pieces, k + 1, Len(pieces)) \in Seq(Pieces)
    BY <2>2
  <2>4. SubSeq(pieces, 1, k) \o SubSeq(pieces, k + 1, Len(pieces)) = pieces
    BY <1>4, <2>2, TwoParts, Zenon
  <2>5. file' \o buffer' = file \o pieces
    <3> DEFINE one == SubSeq(pieces, 1, k)
               two == SubSeq(pieces, k + 1, Len(pieces))
    <3>1. /\ one \in Seq(Pieces) /\ two \in Seq(Pieces) /\ one \o two = pieces
          /\ file' = file \o one /\ buffer' = two
      BY <2>1, <2>3, <2>4
    <3> HIDE DEF one, two
    <3>2. (file \o one) \o two = file \o (one \o two)
      <4>1. file \in Seq(Pieces) /\ one \in Seq(Pieces) /\ two \in Seq(Pieces)
        BY <1>1, <3>1
      <4> QED BY <4>1, Regroup, Zenon
    <3> QED BY <3>1, <3>2
  <2>6. file' \in Seq(Pieces)
    BY <1>1, <2>1, <2>3, ConcatFacts
  <2>7. failed' = TRUE
    BY <1>6 DEF WriteFails
  <2> HIDE DEF more
  <2> QED BY <1>1, <1>4, <2>1, <2>3, <2>5, <2>6, <2>7, Zenon DEF more
<1> QED BY <1>5, <1>6, Zenon

\* An entry is written.
LEMMA WriteTypes ==
  ASSUME MarketInv, WriteEntry \/ WriteFails
  PROVE  MarketInv'
<1>1. /\ current # Idle /\ up
      /\ current.part <= Size[current.command]
      /\ current' = [current EXCEPT !.at = "execute"]
      /\ UNCHANGED <<executed, up, sent, answered, lost, crashes>>
      /\ file' \in Seq(Pieces) /\ buffer' \in Seq(Pieces)
      /\ failed' \in BOOLEAN /\ (buffer' # <<>> => failed')
  BY WriteDoes
<1>2. current \in Handling /\ CurrentEntry \in Entry /\ current.part \in Nat
      /\ Size[current.command] \in Nat
  BY <1>1, CurrentType DEF MarketInv
<1>3. /\ current' \in Handling /\ current'.part = current.part
      /\ current'.command = current.command
  BY <1>1, <1>2 DEF Handling
<1>4. written' \subseteq Entry
  BY <1>2 DEF WriteEntry, WriteFails, MarketInv, TypeOK
<1>5. failures' \in 0 .. MaxFailures
  <2>1. failures' = failures \/ (failures' = failures + 1 /\ failures < MaxFailures)
    BY DEF WriteEntry, WriteFails
  <2> QED BY <2>1, ProcessorAssumption DEF MarketInv, TypeOK
<1>6. current'.part <= Size[current'.command] + 1 /\ current'.part <= Size[current'.command]
  BY <1>1, <1>2, <1>3
<1>7. TypeOK'
  BY <1>1, <1>3, <1>4, <1>5, <1>6 DEF MarketInv, TypeOK, Handling
<1> QED BY <1>1, <1>6, <1>7 DEF MarketInv

\* The buffer overflows, and an entry is cut short.
LEMMA OverflowTypes ==
  ASSUME MarketInv, WriteOverflows
  PROVE  MarketInv'
<1>1. /\ current # Idle /\ up
      /\ current.part <= Size[current.command]
      /\ current' = [current EXCEPT !.at = "execute"]
      /\ failed' = TRUE /\ lost' = TRUE
      /\ UNCHANGED <<executed, up, sent, answered, written, crashes>>
  BY Zenon DEF WriteOverflows, Working
<1>2. /\ current \in Handling /\ CurrentEntry \in Entry /\ current.part \in Nat
      /\ Size[current.command] \in Nat
  BY <1>1, CurrentType DEF MarketInv
<1>3. /\ current' \in Handling /\ current'.part = current.part
      /\ current'.command = current.command
  BY <1>1, <1>2 DEF Handling
<1>4. file' \in Seq(Pieces) /\ buffer' \in Seq(Pieces)
  <2>1. PICK j \in 0 .. 1 :
          \E k \in 0 .. Len(buffer \o SubSeq(Encode(CurrentEntry), 1, j)) - 1 :
            /\ file' = file \o SubSeq(buffer \o SubSeq(Encode(CurrentEntry), 1, j), 1, k)
            /\ buffer' = SubSeq(buffer \o SubSeq(Encode(CurrentEntry), 1, j), k + 1,
                                Len(buffer \o SubSeq(Encode(CurrentEntry), 1, j)))
    BY Zenon DEF WriteOverflows
  <2> DEFINE taken == SubSeq(Encode(CurrentEntry), 1, j)
             pieces == buffer \o taken
  <2>2. taken \in Seq(Pieces)
    <3>1. j = 0 \/ j = 1
      BY <2>1
    <3>2. \A i \in 1 .. j : Encode(CurrentEntry)[i] \in Pieces
      BY <1>2, <3>1 DEF Encode, Pieces
    <3>3. 1 \in Int /\ j \in Int
      BY <3>1
    <3> QED BY <3>2, <3>3, SubSeqFacts, Zenon
  <2>3. file \in Seq(Pieces) /\ buffer \in Seq(Pieces)
    BY Zenon DEF MarketInv, TypeOK
  <2>4. pieces \in Seq(Pieces)
    <3> HIDE DEF taken
    <3> QED BY <2>2, <2>3, ConcatFacts
  <2>5. PICK k \in 0 .. Len(pieces) - 1 :
          /\ file' = file \o SubSeq(pieces, 1, k)
          /\ buffer' = SubSeq(pieces, k + 1, Len(pieces))
    BY <2>1, Zenon
  <2> HIDE DEF pieces
  <2>6. SubSeq(pieces, 1, k) \in Seq(Pieces) /\ SubSeq(pieces, k + 1, Len(pieces)) \in Seq(Pieces)
    BY <2>4
  <2> QED BY <2>3, <2>5, <2>6, ConcatFacts, Zenon
<1>5. failures' \in 0 .. MaxFailures
  <2>1. failures' = failures + 1 /\ failures < MaxFailures
    BY Zenon DEF WriteOverflows
  <2> QED BY <2>1, ProcessorAssumption DEF MarketInv, TypeOK
<1>6. current'.part <= Size[current'.command] + 1 /\ current'.part <= Size[current'.command]
  BY <1>1, <1>2, <1>3
<1>7. TypeOK'
  BY <1>1, <1>3, <1>4, <1>5, <1>6 DEF MarketInv, TypeOK, Handling
<1> QED BY <1>1, <1>3, <1>6, <1>7 DEF MarketInv

\* An order is executed, or all were and the client is answered.
LEMMA ExecuteTypes ==
  ASSUME MarketInv, Execute \/ Respond
  PROVE  MarketInv'
<1>1. current # Idle /\ up /\ UNCHANGED <<file, buffer, up, sent, written, failed, lost, failures, crashes>>
  BY DEF Execute, Respond, Working
<1>2. /\ current \in Handling /\ CurrentEntry \in Entry /\ current.part \in Nat
      /\ current.command \in Commands /\ Size[current.command] \in Nat
  BY <1>1, CurrentType DEF MarketInv
<1>3. CASE Execute
  <2>1. current' = [current EXCEPT !.part = @ + 1, !.at = "write"] /\ current.at = "execute"
    BY <1>3 DEF Execute, Working
  <2>2. /\ current' \in Handling /\ current'.part = current.part + 1
        /\ current'.command = current.command /\ current'.at = "write"
    <3>1. current = [command |-> current.command, part |-> current.part, at |-> current.at]
      BY <1>2 DEF Handling
    <3>2. current' = [command |-> current.command, part |-> current.part + 1, at |-> "write"]
      BY <2>1, <3>1, Zenon
    <3> QED BY <1>2, <3>2 DEF Handling
  <2>3. current'.part <= Size[current'.command] + 1
    BY <1>1, <1>2, <2>1, <2>2 DEF MarketInv
  <2>4. executed' \in Seq(Entry \cup {Garbage}) /\ UNCHANGED answered
    BY <1>2, <1>3 DEF Execute, MarketInv, TypeOK
  <2>5. TypeOK'
    BY <1>1, <2>2, <2>3, <2>4 DEF MarketInv, TypeOK, Handling
  <2> QED BY <1>1, <2>2, <2>5 DEF MarketInv
<1>4. CASE Respond
  <2>1. current' = Idle /\ UNCHANGED executed
    BY <1>4 DEF Respond
  <2>2. answered' \in Seq(sent)
    BY <1>1, <1>4 DEF Respond, MarketInv, TypeOK
  <2> QED BY <1>1, <2>1, <2>2 DEF MarketInv, TypeOK
<1> QED BY <1>3, <1>4

\* The process ends, and what is left of the log is replayed.
LEMMA RestartTypes ==
  ASSUME MarketInv, Crash \/ Recover \/ PowerFails
  PROVE  MarketInv'
<1>1. CASE Crash
  <2>1. /\ up' = FALSE /\ buffer' = <<>> /\ executed' = <<>> /\ current' = Idle
        /\ UNCHANGED <<sent, answered, written, failed, failures>>
    BY <1>1, Zenon DEF Crash
  <2>2. lost' \in BOOLEAN
    BY <1>1 DEF Crash, MarketInv, TypeOK
  <2>3. crashes' \in 0 .. MaxCrashes
    BY <1>1, ProcessorAssumption DEF Crash, MarketInv, TypeOK
  <2>4. file' \in Seq(Pieces)
    <3>1. PICK k \in 0 .. Len(buffer) : file' = file \o SubSeq(buffer, 1, k)
      BY <1>1, Zenon DEF Crash
    <3>2. file \in Seq(Pieces) /\ buffer \in Seq(Pieces)
      BY Zenon DEF MarketInv, TypeOK
    <3>3. SubSeq(buffer, 1, k) \in Seq(Pieces)
      BY <3>2
    <3> QED BY <3>1, <3>2, <3>3, ConcatFacts, Zenon
  <2> QED BY <2>1, <2>2, <2>3, <2>4, EmptyLog, Zenon DEF MarketInv, TypeOK
<1>2. CASE Recover
  <2>1. /\ up' = TRUE /\ failed' = FALSE
        /\ UNCHANGED <<file, buffer, current, sent, answered, written, lost, failures, crashes>>
    BY <1>2 DEF Recover
  <2>2. buffer = <<>> /\ current = Idle
    BY <1>2 DEF Recover, MarketInv
  <2>3. PICK extra \in Misread(file) : executed' = ReadAll(file) \o extra
    BY <1>2, Zenon DEF Recover
  <2>4. ReadAll(file) \in Seq(Entry \cup {Garbage})
    BY ReadAllType DEF MarketInv, TypeOK
  <2>5. extra \in Seq(Entry \cup {Garbage})
    <3>1. extra = <<>> \/ extra = <<Garbage>>
      BY DEF Misread
    <3>2. <<Garbage>> \in Seq(Entry \cup {Garbage})
      OBVIOUS
    <3> QED BY <3>1, <3>2, EmptyLog, Zenon
  <2>6. executed' \in Seq(Entry \cup {Garbage})
    BY <2>3, <2>4, <2>5, ConcatFacts
  <2> QED BY <2>1, <2>2, <2>6, Zenon DEF MarketInv, TypeOK
<1>3. CASE PowerFails
  <2>1. /\ up' = FALSE /\ lost' = TRUE
        /\ buffer' = <<>> /\ executed' = <<>> /\ current' = Idle
        /\ UNCHANGED <<sent, answered, written, failed, failures, crashes>>
    BY <1>3 DEF PowerFails
  <2>2. file' \in Seq(Pieces)
    <3>1. PICK k \in 0 .. Len(file) : file' = SubSeq(file, 1, k)
      BY <1>3 DEF PowerFails
    <3>2. \A i \in 1 .. k : file[i] \in Pieces
      BY SeqFacts DEF MarketInv, TypeOK
    <3> QED BY <3>1, <3>2
  <2> QED BY <2>1, <2>2, EmptyLog, Zenon DEF MarketInv, TypeOK
<1> QED BY <1>1, <1>2, <1>3

\* Every step keeps the types.
LEMMA MarketStep ==
  ASSUME MarketInv, [NodeNext]_nodeVars
  PROVE  MarketInv'
<1>1. [Next]_vars \/ PowerFails
  BY NodeStepsAreMarketSteps
<1>2. CASE UNCHANGED vars
  BY <1>2 DEF vars, MarketInv, TypeOK
<1>3. CASE Next
  BY <1>3, ReceiveTypes, WriteTypes, OverflowTypes, ExecuteTypes, RestartTypes, ZenonT(30)
     DEF Next, PlaceOrder, CancelOrder, ExecuteBundle, GetDepth, SubmitBid
<1> QED BY <1>1, <1>2, <1>3, RestartTypes

\* The processor always keeps its types.
LEMMA MarketAlways == NodeSpec => []MarketInv
<1>1. NodeInit => MarketInv
  <2> SUFFICES ASSUME NodeInit PROVE MarketInv
    OBVIOUS
  <2>1. /\ file = <<>> /\ buffer = <<>> /\ executed = <<>> /\ current = Idle /\ up = FALSE
        /\ sent = {} /\ answered = <<>> /\ written = {} /\ failed = FALSE /\ lost = FALSE
        /\ failures = 0 /\ crashes = 0
    BY DEF NodeInit, ServiceInit, Init
  <2>2. failures \in 0 .. MaxFailures /\ crashes \in 0 .. MaxCrashes
    BY <2>1, ProcessorAssumption
  <2> QED BY <2>1, <2>2, EmptyLog, Zenon DEF MarketInv, TypeOK
<1> QED BY <1>1, MarketStep, PTL DEF NodeSpec

\* The processor keeps its types, and is never past the end of its command, whatever
\* fails around it.
THEOREM MarketTypeOK == NodeSpec => []TypeOK
<1>1. MarketInv => TypeOK
  BY DEF MarketInv
<1> QED BY <1>1, MarketAlways, PTL

-----------------------------------------------------------------------------
(***************************************************************************)
(* The processor: the log and the book                                     *)
(***************************************************************************)

\* The entries of the log, with those that the disk has refused so far.
Log == ReadAll(file \o buffer)

\* What makes LogLeadsBook inductive: no entry of the log is cut short, and the book
\* is the log, except for an entry that is about to be executed.
LogInv ==
  ~ lost =>
    /\ Encodes(file \o buffer, Log)
    /\ up => Log = IF current # Idle /\ current.at = "execute"
                     THEN Append(executed, CurrentEntry) ELSE executed

\* How a step changes the log: write_entry adds an entry.
LEMMA LogStep ==
  ASSUME MarketInv, LogInv, [NodeNext]_nodeVars, ~ lost'
  PROVE  /\ ~ lost
         /\ Log \in Seq(Entry)
         /\ Log' = IF WriteEntry \/ WriteFails THEN Append(Log, CurrentEntry) ELSE Log
         /\ Encodes(file \o buffer, Log)'
<1>1. [Next]_vars \/ PowerFails
  BY NodeStepsAreMarketSteps
<1>2. /\ file \in Seq(Pieces) /\ buffer \in Seq(Pieces)
      /\ lost \in BOOLEAN /\ failed \in BOOLEAN
  BY DEF MarketInv, TypeOK
<1>3. ~ lost /\ (Crash => ~ failed) /\ ~ PowerFails /\ ~ WriteOverflows
  <2>1. PowerFails => lost'
    BY Zenon DEF PowerFails
  <2>2. Crash => lost' = (lost \/ failed)
    BY DEF Crash
  <2>3. WriteOverflows => lost'
    BY ZenonT(30) DEF WriteOverflows
  <2>4. [Next]_vars => Crash \/ WriteOverflows \/ lost' = lost
    BY DEF Next, vars, PlaceOrder, CancelOrder, ExecuteBundle, GetDepth, SubmitBid, Receive,
           WriteEntry, WriteFails, Execute, Respond, Recover
  <2> QED BY <1>1, <1>2, <2>1, <2>2, <2>3, <2>4, Zenon
<1>4. file \o buffer \in Seq(Pieces)
  BY <1>2, ConcatFacts
<1>5. Log \in Seq(Entry) /\ Encodes(file \o buffer, Log)
  BY <1>3, <1>4, ReadAllType, Zenon DEF Log, LogInv
<1>6. CASE WriteEntry \/ WriteFails
  <2>1. current # Idle /\ file' \o buffer' = (file \o buffer) \o Encode(CurrentEntry)
    BY <1>6, WriteDoes, Zenon
  <2>2. CurrentEntry \in Entry
    BY <2>1, CurrentType DEF MarketInv
  <2>3. /\ file' \o buffer' \in Seq(Pieces)
        /\ Encodes(file' \o buffer', Append(Log, CurrentEntry))
    BY <1>4, <1>5, <2>1, <2>2, EncodesMore, Zenon
  <2>4. ReadAll(file' \o buffer') = Append(Log, CurrentEntry)
    <3>1. Append(Log, CurrentEntry) \in Seq(Entry)
      BY <1>5, <2>2, AppendFacts
    <3> QED BY <2>3, <3>1, EncodedIsRead, Zenon
  <2> QED BY <1>3, <1>5, <1>6, <2>3, <2>4 DEF Log
<1>7. CASE ~ (WriteEntry \/ WriteFails)
  <2>1. UNCHANGED <<file, buffer>>
    <3>1. CASE Crash
      <4>1. buffer = <<>> /\ buffer' = <<>>
        BY <1>3, <3>1, Zenon DEF Crash, MarketInv
      <4>2. PICK k \in 0 .. Len(buffer) : file' = file \o SubSeq(buffer, 1, k)
        BY <3>1, Zenon DEF Crash
      <4>3. SubSeq(buffer, 1, k) = <<>>
        BY <4>1, <4>2
      <4>4. file \o <<>> = file
        BY <1>2, NothingAfter, Zenon
      <4> QED BY <4>1, <4>2, <4>3, <4>4, Zenon
    <3>2. CASE ~ Crash
      BY <1>1, <1>3, <1>7, <3>2
         DEF Next, vars, PlaceOrder, CancelOrder, ExecuteBundle, GetDepth, SubmitBid, Receive,
             Execute, Respond, Recover
    <3> QED BY <3>1, <3>2, Zenon
  <2>2. Log' = Log
    BY <2>1 DEF Log, ReadAll, Readable, IsEntry
  <2>3. Encodes(file' \o buffer', Log')
    BY <1>5, <2>1, <2>2, Zenon
  <2> QED BY <1>3, <1>5, <1>7, <2>2, <2>3
<1> QED BY <1>6, <1>7

\* Every step keeps the book one entry behind the log at most.
LEMMA BookStep ==
  ASSUME MarketInv, MarketInv', LogInv, [NodeNext]_nodeVars
  PROVE  LogInv'
<1> SUFFICES ASSUME ~ lost'
             PROVE  LogInv'
  BY DEF LogInv
<1>1. /\ ~ lost /\ Log \in Seq(Entry)
      /\ Log' = IF WriteEntry \/ WriteFails THEN Append(Log, CurrentEntry) ELSE Log
      /\ Encodes(file \o buffer, Log)'
  BY LogStep
<1>2. [Next]_vars \/ PowerFails
  BY NodeStepsAreMarketSteps, Zenon
<1>3. up => Log = IF current # Idle /\ current.at = "execute"
                    THEN Append(executed, CurrentEntry) ELSE executed
  BY <1>1 DEF LogInv
<1> DEFINE Goal == up' => Log' = IF current' # Idle /\ current'.at = "execute"
                                   THEN Append(executed', CurrentEntry') ELSE executed'
<1>4. SUFFICES Goal
  BY <1>1 DEF LogInv
<1>5. ASSUME NEW c \in Commands, Receive(c)
      PROVE  Goal
  <2>1. /\ up /\ current = Idle /\ executed' = executed
        /\ current' = [command |-> c, part |-> 1, at |-> "write"]
        /\ ~ (WriteEntry \/ WriteFails)
    BY <1>5 DEF Receive, WriteEntry, WriteFails, Working
  <2>2. current'.at # "execute"
    BY <2>1
  <2> QED BY <1>1, <1>3, <2>1, <2>2
<1>6. CASE WriteEntry \/ WriteFails
  <2>1. /\ current # Idle /\ current.at = "write" /\ up /\ executed' = executed
        /\ current' = [current EXCEPT !.at = "execute"]
    BY <1>6, WriteDoes
  <2>2. current \in Handling
    BY <2>1, CurrentType DEF MarketInv
  <2>3. CurrentEntry' = CurrentEntry /\ current'.at = "execute" /\ current' # Idle
    BY <2>1, <2>2, ProcessorAssumption DEF Handling, CurrentEntry
  <2> QED BY <1>1, <1>3, <1>6, <2>1, <2>3
<1>7. CASE Execute
  <2>1. /\ current # Idle /\ current.at = "execute" /\ up
        /\ executed' = Append(executed, CurrentEntry)
        /\ ~ (WriteEntry \/ WriteFails)
    BY <1>7 DEF Execute, WriteEntry, WriteFails, Working
  <2>2. current' = [current EXCEPT !.part = @ + 1, !.at = "write"] /\ current \in Handling
    BY <1>7, <2>1, CurrentType DEF Execute, MarketInv
  <2>3. current'.at # "execute"
    BY <2>2 DEF Handling
  <2> QED BY <1>1, <1>3, <2>1, <2>3
<1>8. CASE Respond
  <2>1. /\ up /\ current.at = "write" /\ current' = Idle /\ executed' = executed
    BY <1>8 DEF Respond, Working
  <2>2. ~ (WriteEntry \/ WriteFails)
    <3>1. current # Idle /\ current.part > Size[current.command]
      BY <1>8 DEF Respond, Working
    <3>2. current.part \in Nat /\ Size[current.command] \in Nat
      BY <3>1, CurrentType DEF MarketInv
    <3> QED BY <3>1, <3>2 DEF WriteEntry, WriteFails
  <2> QED BY <1>1, <1>3, <2>1, <2>2
<1>9. CASE Crash \/ PowerFails \/ WriteOverflows
  BY <1>9, Zenon DEF Crash, PowerFails, WriteOverflows
<1>10. CASE Recover
  <2>1. ~ up /\ buffer = <<>> /\ current = Idle /\ current' = Idle /\ ~ (WriteEntry \/ WriteFails)
    BY <1>10, Zenon DEF Recover, MarketInv, WriteEntry, WriteFails, Working
  <2>2. file \in Seq(Pieces) /\ file \o buffer = file
    BY <2>1 DEF MarketInv, TypeOK
  <2>3. Encodes(file, Log) /\ Log = ReadAll(file)
    BY <1>1, <2>2 DEF LogInv, Log
  <2>4. Misread(file) = {<<>>}
    BY <1>1, <2>2, <2>3, EncodedIsRead
  <2>5. executed' = Log \o <<>>
    BY <1>10, <2>3, <2>4, Zenon DEF Recover
  <2>6. executed' = Log
    BY <1>1, <2>5
  <2> QED BY <1>1, <2>1, <2>6
<1>11. CASE UNCHANGED vars
  <2>1. UNCHANGED <<up, current, executed>> /\ CurrentEntry' = CurrentEntry
    BY <1>11 DEF vars, CurrentEntry
  <2>2. ~ (WriteEntry \/ WriteFails)
    <3> SUFFICES ASSUME WriteEntry \/ WriteFails
                 PROVE  FALSE
      OBVIOUS
    <3>1. /\ current # Idle /\ current.at = "write"
          /\ current' = [current EXCEPT !.at = "execute"]
      BY WriteDoes
    <3>2. current \in Handling
      BY <3>1, CurrentType DEF MarketInv
    <3> QED BY <2>1, <3>1, <3>2 DEF Handling
  <2> QED BY <1>1, <1>3, <2>1, <2>2
<1> HIDE DEF Goal
<1> QED BY <1>2, <1>5, <1>6, <1>7, <1>8, <1>9, <1>10, <1>11, ZenonT(30)
        DEF Next, PlaceOrder, CancelOrder, ExecuteBundle, GetDepth, SubmitBid

\* At the start there is no log.
LEMMA NoLogYet ==
  ASSUME NodeInit
  PROVE  LogInv /\ Log = <<>>
<1>1. file = <<>> /\ buffer = <<>> /\ ~ up
  BY Zenon DEF NodeInit, ServiceInit, Init
<1>2. file \o buffer = <<>> /\ Encodes(<<>>, <<>>)
  BY <1>1 DEF Encodes
<1>3. Log = <<>>
  BY <1>2, EmptyLog, EncodedIsRead, Zenon DEF Log
<1> QED BY <1>1, <1>2, <1>3 DEF LogInv

\* The log and the book always agree.
LEMMA BookAlways == NodeSpec => [](MarketInv /\ LogInv)
<1>1. MarketInv /\ MarketInv' /\ LogInv /\ [NodeNext]_nodeVars => LogInv'
  BY BookStep
<1>2. NodeInit => LogInv
  BY NoLogYet
<1> QED BY <1>1, <1>2, MarketAlways, PTL DEF NodeSpec

\* The book is the log with at most one entry to come, across any number of crashes,
\* recoveries and refused writes, as long as what the disk refuses fits into BufWriter.
THEOREM TheLogLeads == NodeSpec => []LogLeadsBook
<1>1. MarketInv /\ LogInv => LogLeadsBook
  <2> SUFFICES ASSUME MarketInv, LogInv, up, ~ lost
               PROVE  /\ Len(Log) \in Len(executed) .. Len(executed) + 1
                      /\ executed = SubSeq(Log, 1, Len(executed))
    BY DEF LogLeadsBook, Log
  <2>1. executed \in Seq(Entry \cup {Garbage})
    BY DEF MarketInv, TypeOK
  <2>2. CASE Log = executed
    BY <2>1, <2>2
  <2>3. CASE current # Idle /\ Log = Append(executed, CurrentEntry)
    <3>1. CurrentEntry \in Entry \cup {Garbage}
      BY <2>3, CurrentType DEF MarketInv
    <3>2. /\ Len(Log) = Len(executed) + 1 /\ Len(executed) \in Nat
          /\ Log \in Seq(Entry \cup {Garbage})
          /\ \A k \in 1 .. Len(executed) : Log[k] = executed[k]
      BY <2>1, <2>3, <3>1, AppendFacts
    <3>3. executed = SubSeq(Log, 1, Len(executed))
      BY <2>1, <3>2
    <3> QED BY <3>2, <3>3
  <2> QED BY <2>2, <2>3 DEF LogInv
<1> QED BY <1>1, BookAlways, PTL

-----------------------------------------------------------------------------
(***************************************************************************)
(* The processor: answers                                                  *)
(***************************************************************************)

\* A book has the commands that were answered, whole and in the order of the answers.
HasAnswered(book, answers) ==
  /\ {e \in Range(book) : e.command \in Range(answers)}
       = UNION {Range(Parts(c)) : c \in Range(answers)}
  /\ \A k, l \in DOMAIN book, i, j \in DOMAIN answers :
       book[k].command = answers[i] /\ book[l].command = answers[j] =>
         (k < l <=> i < j \/ (i = j /\ book[k].part < book[l].part))

\* The last n entries of a book are those of a command, in their order, and no other
\* entry is of this command.
IsLast(book, c, n) ==
  /\ n \in 0 .. Len(book)
  /\ \A k \in DOMAIN book : book[k].command = c <=> k > Len(book) - n
  /\ \A p \in 1 .. n : book[(Len(book) - n) + p] = [command |-> c, part |-> p]

\* The entries of the current command that are in the log.
Logged == IF current.at = "write" THEN current.part - 1 ELSE current.part

\* What makes AnswersSurvive inductive: it holds of the log, also while the process is
\* down, every entry is of a command that was sent, and those of the command that is
\* being handled, which has not been answered, are at the end.
AnswersInv ==
  ~ lost =>
    /\ HasAnswered(Log, answered)
    /\ \A k \in DOMAIN Log : Log[k].command \in sent
    /\ current # Idle =>
         /\ current.command \notin Range(answered)
         /\ IsLast(Log, current.command, Logged)

\* What is put at the end of a book joins what was there.
LEMMA RangeOfAppend ==
  ASSUME NEW S, NEW s \in Seq(S), NEW e \in S
  PROVE  Range(Append(s, e)) = Range(s) \cup {e}
<1>1. /\ DOMAIN s = 1 .. Len(s) /\ Len(s) \in Nat
      /\ DOMAIN Append(s, e) = (1 .. Len(s)) \cup {Len(s) + 1}
      /\ \A k \in 1 .. Len(s) : Append(s, e)[k] = s[k]
      /\ Append(s, e)[Len(s) + 1] = e
  BY AppendFacts, SeqFacts
<1>2. ASSUME NEW x PROVE x \in Range(Append(s, e)) <=> x \in Range(s) \cup {e}
  BY <1>1, Zenon DEF Range
<1> QED BY <1>2

\* An entry of a command that was not answered makes no difference.
LEMMA HasAnsweredGrows ==
  ASSUME NEW S, NEW book \in Seq(S), NEW answers, NEW e \in S, e.command \notin Range(answers)
  PROVE  HasAnswered(Append(book, e), answers) <=> HasAnswered(book, answers)
<1> DEFINE more == Append(book, e)
<1>1. {x \in Range(more) : x.command \in Range(answers)}
        = {x \in Range(book) : x.command \in Range(answers)}
  <2>1. Range(more) = Range(book) \cup {e}
    BY RangeOfAppend
  <2> QED BY <2>1
<1>2. /\ DOMAIN book = 1 .. Len(book) /\ Len(book) \in Nat
      /\ DOMAIN more = (1 .. Len(book)) \cup {Len(book) + 1}
      /\ \A k \in 1 .. Len(book) : more[k] = book[k]
      /\ more[Len(book) + 1] = e
  BY AppendFacts, SeqFacts
<1> HIDE DEF more
<1>3. \A i \in DOMAIN answers : e.command # answers[i]
  BY DEF Range
<1>4. HasAnswered(more, answers) => HasAnswered(book, answers)
  <2> SUFFICES ASSUME HasAnswered(more, answers),
                      NEW k \in DOMAIN book, NEW l \in DOMAIN book,
                      NEW i \in DOMAIN answers, NEW j \in DOMAIN answers,
                      book[k].command = answers[i], book[l].command = answers[j]
               PROVE  k < l <=> i < j \/ (i = j /\ book[k].part < book[l].part)
    BY <1>1 DEF HasAnswered
  <2>1. /\ more[k] = book[k] /\ more[l] = book[l] /\ k \in DOMAIN more /\ l \in DOMAIN more
    BY <1>2
  <2> QED BY <2>1 DEF HasAnswered
<1>5. HasAnswered(book, answers) => HasAnswered(more, answers)
  <2> SUFFICES ASSUME HasAnswered(book, answers),
                      NEW k \in DOMAIN more, NEW l \in DOMAIN more,
                      NEW i \in DOMAIN answers, NEW j \in DOMAIN answers,
                      more[k].command = answers[i], more[l].command = answers[j]
               PROVE  k < l <=> i < j \/ (i = j /\ more[k].part < more[l].part)
    BY <1>1 DEF HasAnswered
  <2>1. /\ more[k] = book[k] /\ more[l] = book[l] /\ k \in DOMAIN book /\ l \in DOMAIN book
    BY <1>2, <1>3, Zenon
  <2> QED BY <2>1 DEF HasAnswered
<1> QED BY <1>4, <1>5 DEF more

\* A command is answered once all its entries are in the book.
LEMMA AnswerAfterLast ==
  ASSUME NEW book \in Seq(Entry), NEW answers \in Seq(Commands), NEW c \in Commands,
         HasAnswered(book, answers), c \notin Range(answers), IsLast(book, c, Size[c])
  PROVE  HasAnswered(book, Append(answers, c))
<1> DEFINE n == Len(answers)
           more == Append(answers, c)
           start == Len(book) - Size[c]
<1>1. /\ n \in Nat /\ DOMAIN answers = 1 .. n /\ DOMAIN more = 1 .. n + 1
      /\ \A i \in 1 .. n : more[i] = answers[i]
      /\ more[n + 1] = c
  <2>1. n \in Nat /\ DOMAIN answers = 1 .. n
    BY SeqFacts
  <2>2. Len(more) = n + 1 /\ more \in Seq(Commands) /\ more[n + 1] = c
    BY AppendFacts, ZenonT(30)
  <2>3. \A i \in 1 .. n : more[i] = answers[i]
    BY AppendFacts
  <2>4. DOMAIN more = 1 .. n + 1
    BY <2>2, SeqFacts, Zenon
  <2> QED BY <2>1, <2>2, <2>3, <2>4, Zenon
<1>2. /\ DOMAIN book = 1 .. Len(book) /\ Len(book) \in Nat /\ start \in Nat
      /\ \A k \in DOMAIN book : book[k].command = c <=> k > start
      /\ \A p \in 1 .. Size[c] : book[start + p] = [command |-> c, part |-> p]
      /\ Size[c] \in Nat
  BY SeqFacts, SizeType DEF IsLast
<1>3. Range(more) = Range(answers) \cup {c}
  BY RangeOfAppend
<1> HIDE DEF more, start, n
<1>4. ASSUME NEW k \in DOMAIN book, book[k].command = c
      PROVE  /\ k - start \in 1 .. Size[c]
             /\ book[k] = [command |-> c, part |-> k - start]
             /\ book[k].part = k - start
  <2>1. k - start \in 1 .. Size[c] /\ start + (k - start) = k
    <3>1. k \in 1 .. Len(book) /\ k > start
      BY <1>2, <1>4, Zenon
    <3>2. start = Len(book) - Size[c] /\ start \in Nat /\ Size[c] \in Nat /\ Len(book) \in Nat
      BY <1>2, Zenon DEF start
    <3> QED BY <3>1, <3>2
  <2>2. book[start + (k - start)] = [command |-> c, part |-> k - start]
    BY <1>2, <2>1, Zenon
  <2> QED BY <2>1, <2>2
<1>5. {e \in Range(book) : e.command = c} = Range(Parts(c))
  <2>1. ASSUME NEW e \in Range(book), e.command = c
        PROVE  e \in Range(Parts(c))
    <3>1. PICK k \in DOMAIN book : e = book[k]
      BY Zenon DEF Range
    <3>2. k - start \in 1 .. Size[c] /\ e = [command |-> c, part |-> k - start]
      BY <1>4, <2>1, <3>1, ZenonT(30)
    <3> QED BY <3>2 DEF Parts, Range
  <2>2. ASSUME NEW e \in Range(Parts(c))
        PROVE  e \in Range(book) /\ e.command = c
    <3>1. PICK p \in 1 .. Size[c] : e = [command |-> c, part |-> p]
      BY Zenon DEF Range, Parts
    <3>2. start + p \in DOMAIN book
      BY <1>2 DEF start
    <3>3. e = book[start + p]
      BY <1>2, <3>1, Zenon
    <3> QED BY <3>1, <3>2, <3>3 DEF Range
  <2> QED BY <2>1, <2>2, Zenon
<1>6. {e \in Range(book) : e.command \in Range(more)}
        = UNION {Range(Parts(d)) : d \in Range(more)}
  <2>1. {e \in Range(book) : e.command \in Range(answers)}
          = UNION {Range(Parts(d)) : d \in Range(answers)}
    BY DEF HasAnswered
  <2>2. {e \in Range(book) : e.command \in Range(more)}
          = {e \in Range(book) : e.command \in Range(answers)} \cup {e \in Range(book) : e.command = c}
    BY <1>3
  <2>3. UNION {Range(Parts(d)) : d \in Range(more)}
          = (UNION {Range(Parts(d)) : d \in Range(answers)}) \cup Range(Parts(c))
    BY <1>3, Zenon
  <2> QED BY <1>5, <2>1, <2>2, <2>3
<1>7. ASSUME NEW k \in Nat, NEW l \in Nat, NEW i \in Nat, NEW j \in Nat,
             k \in DOMAIN book, l \in DOMAIN book, i \in DOMAIN more, j \in DOMAIN more,
             book[k].command = more[i], book[l].command = more[j]
      PROVE  k < l <=> i < j \/ (i = j /\ book[k].part < book[l].part)
  <2>1. n \in Nat /\ start \in Nat
    BY <1>1, <1>2, Zenon
  <2>2. (i \in 1 .. n \/ i = n + 1) /\ (j \in 1 .. n \/ j = n + 1)
    BY <1>1, <1>7
  <2>3. \A x \in 1 .. n : more[x] # c
    BY <1>1, Zenon DEF Range
  <2>4. CASE i \in 1 .. n /\ j \in 1 .. n
    BY <1>1, <1>7, <2>4, ZenonT(30) DEF HasAnswered
  <2>5. CASE i \in 1 .. n /\ j = n + 1
    <3>1. l > start /\ ~ (k > start)
      BY <1>1, <1>2, <1>7, <2>3, <2>5, Zenon
    <3> QED BY <2>1, <2>5, <3>1
  <2>6. CASE i = n + 1 /\ j \in 1 .. n
    <3>1. k > start /\ ~ (l > start)
      BY <1>1, <1>2, <1>7, <2>3, <2>6, Zenon
    <3> QED BY <2>1, <2>6, <3>1
  <2>7. CASE i = n + 1 /\ j = n + 1
    <3>1. book[k].part = k - start /\ book[l].part = l - start
      BY <1>1, <1>4, <1>7, <2>7, Zenon
    <3> QED BY <2>1, <2>7, <3>1
  <2> QED BY <2>2, <2>4, <2>5, <2>6, <2>7, Zenon
<1>8. DOMAIN book \subseteq Nat /\ DOMAIN more \subseteq Nat
  BY <1>1, <1>2
<1> QED BY <1>6, <1>7, <1>8, Zenon DEF HasAnswered, more

\* An entry of the last command is written.
LEMMA LastGrows ==
  ASSUME NEW book \in Seq(Entry), NEW c \in Commands, NEW n \in Nat, IsLast(book, c, n)
  PROVE  IsLast(Append(book, [command |-> c, part |-> n + 1]), c, n + 1)
<1> DEFINE e == [command |-> c, part |-> n + 1]
           more == Append(book, e)
           start == Len(book) - n
<1>1. e \in Entry /\ e.command = c
  BY DEF Entry
<1>2. /\ DOMAIN book = 1 .. Len(book) /\ Len(book) \in Nat
      /\ DOMAIN more = 1 .. Len(book) + 1 /\ Len(more) = Len(book) + 1
      /\ \A k \in 1 .. Len(book) : more[k] = book[k]
      /\ more[Len(book) + 1] = e
  BY <1>1, AppendFacts, SeqFacts
<1> HIDE DEF more
<1>3. start \in Nat /\ Len(more) - (n + 1) = start
  BY <1>2 DEF IsLast
<1>4. ASSUME NEW k \in DOMAIN more
      PROVE  more[k].command = c <=> k > start
  <2>1. CASE k = Len(book) + 1
    BY <1>1, <1>2, <1>3, <2>1
  <2>2. CASE k \in 1 .. Len(book)
    BY <1>2, <2>2 DEF IsLast
  <2> QED BY <1>2, <2>1, <2>2
<1>5. ASSUME NEW p \in 1 .. n + 1
      PROVE  more[start + p] = [command |-> c, part |-> p]
  <2>1. CASE p = n + 1
    <3>1. start + p = Len(book) + 1
      BY <1>2, <2>1
    <3> QED BY <1>2, <2>1, <3>1
  <2>2. CASE p \in 1 .. n
    <3>1. start + p \in 1 .. Len(book)
      BY <1>2, <1>3, <2>2
    <3>2. book[start + p] = [command |-> c, part |-> p]
      BY <2>2 DEF IsLast
    <3> QED BY <1>2, <3>1, <3>2
  <2> QED BY <2>1, <2>2
<1>6. n + 1 \in 0 .. Len(more)
  BY <1>2 DEF IsLast
<1> HIDE DEF start
<1> QED BY <1>3, <1>4, <1>5, <1>6, Zenon DEF IsLast, more

\* How many of its entries a command has written.
LEMMA LoggedIs ==
  ASSUME MarketInv, current # Idle
  PROVE  /\ Logged \in Nat
         /\ current.at = "write" => Logged + 1 = current.part
         /\ current.at = "execute" => Logged = current.part
<1>1. current.part \in Nat \ {0} /\ current.at \in {"write", "execute"}
  BY CurrentType DEF MarketInv, Handling
<1> QED BY <1>1 DEF Logged

\* Every step keeps what was answered in the log.
LEMMA AnswersStep ==
  ASSUME MarketInv, MarketInv', LogInv, AnswersInv, [NodeNext]_nodeVars
  PROVE  AnswersInv'
<1> SUFFICES ASSUME ~ lost'
             PROVE  AnswersInv'
  BY DEF AnswersInv
<1>1. /\ ~ lost /\ Log \in Seq(Entry)
      /\ Log' = IF WriteEntry \/ WriteFails THEN Append(Log, CurrentEntry) ELSE Log
  BY LogStep
<1>2. /\ HasAnswered(Log, answered)
      /\ \A k \in DOMAIN Log : Log[k].command \in sent
      /\ current # Idle =>
           /\ current.command \notin Range(answered)
           /\ IsLast(Log, current.command, Logged)
  BY <1>1 DEF AnswersInv
<1>3. /\ answered \in Seq(sent) /\ sent \subseteq Commands
      /\ DOMAIN Log = 1 .. Len(Log) /\ Len(Log) \in Nat
  BY <1>1, SeqFacts DEF MarketInv, TypeOK
<1>4. answered \in Seq(Commands) /\ Range(answered) \subseteq sent
  <2>1. answered \in Seq(Commands)
    BY <1>3
  <2> QED BY <1>3, <2>1 DEF Range
<1> DEFINE Goal == /\ HasAnswered(Log', answered')
                   /\ \A k \in DOMAIN Log' : Log'[k].command \in sent'
                   /\ current' # Idle =>
                        /\ current'.command \notin Range(answered')
                        /\ IsLast(Log', current'.command, Logged')
<1>5. SUFFICES Goal
  BY Zenon DEF AnswersInv, HasAnswered, IsLast, Range, Parts
<1>6. [Next]_vars \/ PowerFails
  BY NodeStepsAreMarketSteps
<1>7. ASSUME NEW c \in Commands, Receive(c)
      PROVE  Goal
  <2>1. /\ c \notin sent /\ sent' = sent \cup {c} /\ answered' = answered
        /\ current' = [command |-> c, part |-> 1, at |-> "write"]
        /\ ~ (WriteEntry \/ WriteFails)
    BY <1>7 DEF Receive, WriteEntry, WriteFails, Working
  <2>2. Log' = Log /\ current'.command = c /\ Logged' = 0
    BY <1>1, <2>1 DEF Logged
  <2>3. IsLast(Log, c, 0)
    <3>1. \A k \in DOMAIN Log : ~ (Log[k].command = c) /\ ~ (k > Len(Log) - 0)
      BY <1>2, <1>3, <2>1
    <3> QED BY <1>3, <3>1 DEF IsLast
  <2>4. c \notin Range(answered)
    BY <1>4, <2>1
  <2> QED BY <1>2, <2>1, <2>2, <2>3, <2>4, Zenon
<1>8. CASE WriteEntry \/ WriteFails
  <2>1. /\ current # Idle /\ current.at = "write"
        /\ current' = [current EXCEPT !.at = "execute"]
        /\ UNCHANGED <<sent, answered>>
    BY <1>8, WriteDoes
  <2>2. /\ current \in Handling /\ current.command \in Commands /\ CurrentEntry \in Entry
        /\ current.part \in Nat
    BY <2>1, CurrentType DEF MarketInv
  <2>3. /\ current'.command = current.command /\ current'.part = current.part
        /\ current'.at = "execute"
    BY <2>1, <2>2, Zenon DEF Handling
  <2>4. Logged \in Nat /\ Logged + 1 = current.part /\ Logged' = Logged + 1
    BY <2>1, <2>3, LoggedIs DEF Logged
  <2>5. CurrentEntry = [command |-> current.command, part |-> Logged + 1]
    BY <2>4 DEF CurrentEntry
  <2>6. Log' = Append(Log, CurrentEntry)
    BY <1>1, <1>8
  <2>7. IsLast(Log', current'.command, Logged')
    BY <1>1, <1>2, <2>1, <2>2, <2>3, <2>4, <2>5, <2>6, LastGrows, ZenonT(30)
  <2>8. CurrentEntry.command = current.command
    BY DEF CurrentEntry
  <2>9. HasAnswered(Log', answered)
    BY <1>1, <1>2, <2>1, <2>2, <2>6, <2>8, HasAnsweredGrows, ZenonT(30)
  <2>10. \A k \in DOMAIN Log' : Log'[k].command \in sent
    <3>1. current.command \in sent
      BY <2>1 DEF MarketInv
    <3>2. /\ DOMAIN Log' = 1 .. Len(Log) + 1
          /\ \A k \in 1 .. Len(Log) : Log'[k] = Log[k]
          /\ Log'[Len(Log) + 1] = CurrentEntry
      BY <1>1, <2>2, <2>6, AppendFacts
    <3> QED BY <1>2, <1>3, <2>8, <3>1, <3>2
  <2> QED BY <1>2, <2>1, <2>3, <2>7, <2>9, <2>10
<1>9. CASE Execute
  <2>1. /\ current # Idle /\ current.at = "execute"
        /\ current' = [current EXCEPT !.part = @ + 1, !.at = "write"]
        /\ UNCHANGED <<sent, answered>>
        /\ ~ (WriteEntry \/ WriteFails)
    BY <1>9 DEF Execute, WriteEntry, WriteFails, Working
  <2>2. current \in Handling /\ current.part \in Nat
    BY <2>1, CurrentType DEF MarketInv
  <2>3. /\ current'.command = current.command /\ current'.part = current.part + 1
        /\ current'.at = "write"
    BY <2>1, <2>2 DEF Handling
  <2>4. Logged' = Logged
    <3>1. Logged = current.part
      BY <2>1, Zenon DEF Logged
    <3>2. Logged' = current'.part - 1
      BY <2>3, Zenon DEF Logged
    <3> QED BY <2>2, <2>3, <3>1, <3>2
  <2> QED BY <1>1, <1>2, <2>1, <2>3, <2>4
<1>10. CASE Respond
  <2>1. /\ current # Idle /\ current.at = "write" /\ current.part > Size[current.command]
        /\ answered' = IF current.command \in Bids THEN answered
                       ELSE Append(answered, current.command)
        /\ current' = Idle /\ sent' = sent
    BY <1>10, Zenon DEF Respond, Working
  <2>2. /\ current.command \in Commands /\ current.part \in Nat
        /\ Size[current.command] \in Nat /\ current.part <= Size[current.command] + 1
    BY <2>1, CurrentType DEF MarketInv
  <2>3. Logged = Size[current.command] /\ ~ (WriteEntry \/ WriteFails)
    BY <2>1, <2>2 DEF Logged, WriteEntry, WriteFails
  <2>4. HasAnswered(Log, Append(answered, current.command))
    BY <1>1, <1>2, <1>4, <2>1, <2>2, <2>3, AnswerAfterLast, Zenon
  <2> QED BY <1>1, <1>2, <2>1, <2>3, <2>4
<1>11. CASE Crash \/ Recover \/ UNCHANGED vars
  <2>1. ~ (WriteEntry \/ WriteFails)
    <3> SUFFICES ASSUME WriteEntry \/ WriteFails
                 PROVE  FALSE
      OBVIOUS
    <3>1. /\ current # Idle /\ current.at = "write" /\ up /\ up' = up
          /\ current' = [current EXCEPT !.at = "execute"]
      BY WriteDoes
    <3>2. current \in Handling
      BY <3>1, CurrentType DEF MarketInv
    <3>3. current' # current
      BY <3>1, <3>2 DEF Handling
    <3> QED BY <1>11, <3>1, <3>3 DEF Crash, Recover, vars
  <2>2. /\ UNCHANGED <<sent, answered>>
        /\ current' = Idle \/ current' = current
    BY <1>11 DEF Crash, Recover, vars
  <2>3. current' = current => Logged' = Logged
    BY DEF Logged
  <2> QED BY <1>1, <1>2, <2>1, <2>2, <2>3
<1>12. CASE PowerFails \/ WriteOverflows
  BY <1>12, Zenon DEF PowerFails, WriteOverflows
<1> HIDE DEF Goal
<1> QED BY <1>6, <1>7, <1>8, <1>9, <1>10, <1>11, <1>12, ZenonT(30)
        DEF Next, PlaceOrder, CancelOrder, ExecuteBundle, GetDepth, SubmitBid

\* The answers are always in the log.
LEMMA AnswersAlways == NodeSpec => [](MarketInv /\ LogInv /\ AnswersInv)
<1>1. NodeInit => AnswersInv
  <2> SUFFICES ASSUME NodeInit PROVE AnswersInv
    OBVIOUS
  <2>1. Log = <<>> /\ answered = <<>> /\ current = Idle
    BY NoLogYet, ZenonT(30) DEF NodeInit, ServiceInit, Init
  <2>2. HasAnswered(<<>>, <<>>)
    BY DEF HasAnswered, Range
  <2> QED BY <2>1, <2>2 DEF AnswersInv
<1>2. MarketInv /\ MarketInv' /\ LogInv /\ AnswersInv /\ [NodeNext]_nodeVars => AnswersInv'
  BY AnswersStep
<1> QED BY <1>1, <1>2, BookAlways, PTL DEF NodeSpec

\* What clients were told stays true: however often the process crashes and recovers,
\* and whatever the disk refuses before the last write, as long as it fits into
\* BufWriter, the commands that were answered are in the book, whole and in the order of
\* the answers.
THEOREM AnswersAlwaysSurvive == NodeSpec => []AnswersSurvive
<1>1. MarketInv /\ LogInv /\ AnswersInv => AnswersSurvive
  <2> SUFFICES ASSUME MarketInv, LogInv, AnswersInv, up, ~ lost
               PROVE  HasAnswered(executed, answered)
    BY DEF AnswersSurvive, HasAnswered
  <2>1. HasAnswered(Log, answered)
    BY DEF AnswersInv
  <2>2. CASE Log = executed
    BY <2>1, <2>2
  <2>3. CASE current # Idle /\ Log = Append(executed, CurrentEntry)
    <3>1. executed \in Seq(Entry \cup {Garbage}) /\ CurrentEntry \in Entry \cup {Garbage}
      BY <2>3, CurrentType DEF MarketInv, TypeOK
    <3>2. CurrentEntry.command \notin Range(answered)
      BY <2>3 DEF AnswersInv, CurrentEntry
    <3> QED BY <2>1, <2>3, <3>1, <3>2, HasAnsweredGrows
  <2> QED BY <2>2, <2>3 DEF LogInv
<1> QED BY <1>1, AnswersAlways, PTL
=============================================================================
