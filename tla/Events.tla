------------------------------- MODULE Events -------------------------------
(***************************************************************************)
(* The events of the two contracts and the indexer's reading of them.  A   *)
(* contract publishes a struct; the host turns it into topics and a map of *)
(* fields; event/mod.rs and event/scval.rs turn those back into an event,  *)
(* and Contracts::check asks where it came from.                           *)
(*                                                                         *)
(* The state is one event as a source hands it over.  A contract upgrade   *)
(* or a bad source changes its shape a part at a time: a field or a topic  *)
(* is added, dropped, renamed or retyped.                                  *)
(*                                                                         *)
(* A 256-bit value is four words and a 128-bit one two, as in the XDR; a   *)
(* word has Word values.                                                   *)
(***************************************************************************)
EXTENDS Integers, Sequences, FiniteSets

CONSTANTS
    Word,            \* number of values of a 64-bit word
    Numbers,         \* 256-bit values that occur
    Amounts,         \* 128-bit values that occur, with either sign
    Indices,         \* tree positions that occur
    Blobs,           \* byte strings: notes and keys
    Pool, Allowlist, \* the contracts followed
    Other,           \* another contract
    Accounts,
    NoAddress,       \* an absent recipient
    MaxChanges       \* bound on the parts changed

EventsAssumption ==
    /\ Word \in Nat \ {0, 1} /\ MaxChanges \in Nat
    /\ Numbers \subseteq 0 .. Word ^ 4 - 1
    /\ Amounts \subseteq 0 .. Word ^ 2 - 1

VARIABLES
    emitted,         \* what the contract published
    contract, raw,   \* the event as a source lists it
    changes

vars == <<emitted, contract, raw, changes>>

SignedAmounts == Amounts \cup {-a : a \in Amounts}
-----------------------------------------------------------------------------
(* The host's encoding of a published struct.                              *)

Symbol(s) == [type |-> "symbol", payload |-> s]
Void == [type |-> "void", payload |-> NoAddress]

U256Parts(n) ==
    [type |-> "u256", payload |-> <<n \div Word ^ 3, n \div Word ^ 2 % Word,
                              n \div Word % Word, n % Word>>]
I128Parts(n) == [type |-> "i128", payload |-> <<n \div Word, n % Word>>]
AddressVal(a) ==
    [type |-> IF a \in Accounts THEN "account" ELSE "contract", payload |-> a]

Encode(type, x) ==
    CASE type = "u256" -> U256Parts(x)
      [] type = "i128" -> I128Parts(x)
      [] type = "address" -> AddressVal(x)
      [] type = "optional_address" -> IF x = NoAddress THEN Void ELSE AddressVal(x)
      [] OTHER -> [type |-> type, payload |-> x]

MapOf(fields) ==
    [type |-> "map", payload |-> {<<Symbol(f), fields[f]>> : f \in DOMAIN fields}]

NewCommitmentEvent ==
    [name |-> "new_commitment_event", topics |-> <<"u256">>,
     fields |-> [index |-> "u32", encrypted_output |-> "bytes"]]
NewNullifierEvent ==
    [name |-> "new_nullifier_event", topics |-> <<"u256">>, fields |-> <<>>]
SettlementEvent ==
    [name |-> "Settlement", topics |-> <<"u256", "address">>,
     fields |-> [output_commitment0 |-> "u256", output_commitment1 |-> "u256",
                 output_index0 |-> "u32", output_index1 |-> "u32",
                 amount_bucket |-> "i128", public_amount |-> "u256",
                 recipient |-> "optional_address", asset |-> "address"]]
ExitEvent ==
    [name |-> "Exit", topics |-> <<"u256", "address">>,
     fields |-> [amount_bucket |-> "i128", public_amount |-> "u256",
                 recipient |-> "address", asset |-> "address"]]
DepositEvent ==
    [name |-> "Deposit", topics |-> <<"u256", "address">>,
     fields |-> [index |-> "u32", amount_bucket |-> "i128", asset |-> "address"]]
PublicKeyEvent ==
    [name |-> "public_key_event", topics |-> <<"address">>,
     fields |-> [encryption_key |-> "bytes", note_key |-> "bytes"]]
LeafAddedEvent ==
    [name |-> "LeafAdded", topics |-> <<>>,
     fields |-> [leaf |-> "u256", index |-> "u64", root |-> "u256"]]
LeafRevokedEvent ==
    [name |-> "LeafRevoked", topics |-> <<>>,
     fields |-> [leaf |-> "u256", root |-> "u256"]]

\* What the host publishes under a contract's own ID when its wasm changes.
HostEvent == [name |-> "executable_update", topics |-> <<>>, fields |-> <<>>]

PoolStructs ==
    {NewCommitmentEvent, NewNullifierEvent, SettlementEvent, ExitEvent,
     DepositEvent, PublicKeyEvent}
Structs == PoolStructs \cup {LeafAddedEvent, LeafRevokedEvent}

Domain(type) ==
    CASE type = "u256" -> Numbers
      [] type = "i128" -> SignedAmounts
      [] type \in {"u32", "u64"} -> Indices
      [] type = "bytes" -> Blobs
      [] type = "address" -> Accounts \cup {Pool}
      [] type = "optional_address" -> Accounts \cup {NoAddress}

\* A published event: the struct's name and a value for each topic and field.
\* The second topic of a pool event is the pool's own address.
Values(types) == [DOMAIN types -> UNION {Domain(types[i]) : i \in DOMAIN types}]
Typed(types) == {f \in Values(types) : \A i \in DOMAIN types : f[i] \in Domain(types[i])}
Published(struct) ==
    {[name |-> struct.name, topics |-> t, fields |-> f] :
        t \in {t \in Typed(struct.topics) : Len(struct.topics) = 2 => t[2] = Pool},
        f \in Typed(struct.fields)}

Publish(struct, e) ==
    [topics |-> <<Symbol(e.name)>> \o
                [i \in DOMAIN e.topics |-> Encode(struct.topics[i], e.topics[i])],
     data |-> MapOf([f \in DOMAIN e.fields |-> Encode(struct.fields[f], e.fields[f])])]

EmitterOf(struct) == IF struct \in PoolStructs THEN Pool ELSE Allowlist
-----------------------------------------------------------------------------
(* scval.rs: what each reader accepts, and the value it returns.           *)

Accepts(type) ==
    CASE type = "address" -> {"account", "contract"}
      [] type = "optional_address" -> {"void", "account", "contract"}
      [] OTHER -> {type}

\* The words, most significant first, as one number.
u256(val) ==
    ((val.payload[1] * Word + val.payload[2]) * Word + val.payload[3]) * Word + val.payload[4]
i128(val) == val.payload[1] * Word + val.payload[2]

Read(type, val) ==
    CASE type = "u256" -> u256(val)
      [] type = "i128" -> i128(val)
      [] OTHER -> val.payload

Failed == [error |-> TRUE]

\* A map whose keys are distinct symbols.
IsFields(data) ==
    /\ data.type = "map"
    /\ \A e \in data.payload : e[1].type = "symbol"
    /\ \A d, e \in data.payload : d[1] = e[1] => d = e
FieldNames(data) == {e[1].payload : e \in data.payload}
Take(data, f) == (CHOOSE e \in data.payload : e[1].payload = f)[2]

\* A bug: the body is not checked for fields that nobody took.
ReadIgnoringExtras(r, struct) ==
    LET rest == Tail(r.topics) IN
    IF /\ Len(rest) = Len(struct.topics)
       /\ \A i \in DOMAIN rest : rest[i].type \in Accepts(struct.topics[i])
       /\ IsFields(r.data)
       /\ DOMAIN struct.fields \subseteq FieldNames(r.data)
       /\ \A f \in DOMAIN struct.fields :
             Take(r.data, f).type \in Accepts(struct.fields[f])
    THEN [name |-> struct.name,
          topics |-> [i \in DOMAIN rest |-> Read(struct.topics[i], rest[i])],
          fields |-> [f \in DOMAIN struct.fields |->
                        Read(struct.fields[f], Take(r.data, f))]]
    ELSE Failed

ReadEvent(r, struct) ==
    LET rest == Tail(r.topics) IN
    IF /\ Len(rest) = Len(struct.topics)
       /\ \A i \in DOMAIN rest : rest[i].type \in Accepts(struct.topics[i])
       /\ IsFields(r.data)
       /\ DOMAIN struct.fields = FieldNames(r.data)
       /\ \A f \in DOMAIN struct.fields :
             Take(r.data, f).type \in Accepts(struct.fields[f])
    THEN [name |-> struct.name,
          topics |-> [i \in DOMAIN rest |-> Read(struct.topics[i], rest[i])],
          fields |-> [f \in DOMAIN struct.fields |->
                        Read(struct.fields[f], Take(r.data, f))]]
    ELSE Failed
-----------------------------------------------------------------------------
(* event/mod.rs: the shapes it expects, and decode.                        *)

decode_new_commitment(r) ==
    ReadEvent(r, [name |-> "NewCommitment", topics |-> <<"u256">>,
                  fields |-> [index |-> "u32", encrypted_output |-> "bytes"]])
decode_new_nullifier(r) ==
    ReadEvent(r, [name |-> "NewNullifier", topics |-> <<"u256">>, fields |-> <<>>])

decode_settlement(r) ==
    ReadEvent(r, [name |-> "Settlement", topics |-> <<"u256", "address">>,
                  fields |-> [output_commitment0 |-> "u256",
                              output_commitment1 |-> "u256",
                              output_index0 |-> "u32", output_index1 |-> "u32",
                              amount_bucket |-> "i128", public_amount |-> "u256",
                              recipient |-> "optional_address",
                              asset |-> "address"]])
decode_exit(r) ==
    ReadEvent(r, [name |-> "Exit", topics |-> <<"u256", "address">>,
                  fields |-> [amount_bucket |-> "i128", public_amount |-> "u256",
                              recipient |-> "address", asset |-> "address"]])
decode_deposit(r) ==
    ReadEvent(r, [name |-> "LegacyDeposit", topics |-> <<"u256", "address">>,
                  fields |-> [index |-> "u32", amount_bucket |-> "i128",
                              asset |-> "address"]])
decode_public_key(r) ==
    ReadEvent(r, [name |-> "PublicKey", topics |-> <<"address">>,
                  fields |-> [encryption_key |-> "bytes", note_key |-> "bytes"]])
decode_leaf_added(r) ==
    ReadEvent(r, [name |-> "LeafAdded", topics |-> <<>>,
                  fields |-> [leaf |-> "u256", index |-> "u64", root |-> "u256"]])
decode_leaf_revoked(r) ==
    ReadEvent(r, [name |-> "LeafRevoked", topics |-> <<>>,
                  fields |-> [leaf |-> "u256", root |-> "u256"]])

HOST_EVENTS == {"executable_update"}

\* VeilEvent::name, the name in the first topic.
name ==
    [NewCommitment |-> "new_commitment_event", NewNullifier |-> "new_nullifier_event",
     Settlement |-> "Settlement", Exit |-> "Exit", LegacyDeposit |-> "Deposit",
     PublicKey |-> "public_key_event", LeafAdded |-> "LeafAdded",
     LeafRevoked |-> "LeafRevoked"]

\* An event, a host event to be ignored, or an error.
decode(r) ==
    IF r.topics = <<>> \/ (r.topics # <<>> /\ Head(r.topics).type # "symbol")
    THEN Failed
    ELSE LET n == Head(r.topics).payload IN
         CASE n = name.NewCommitment -> decode_new_commitment(r)
           [] n = name.NewNullifier -> decode_new_nullifier(r)
           [] n = name.Settlement -> decode_settlement(r)
           [] n = name.Exit -> decode_exit(r)
           [] n = name.LegacyDeposit -> decode_deposit(r)
           [] n = name.PublicKey -> decode_public_key(r)
           [] n = name.LeafAdded -> decode_leaf_added(r)
           [] n = name.LeafRevoked -> decode_leaf_revoked(r)
           [] n \in HOST_EVENTS -> [ignored |-> n]
           [] OTHER -> Failed

emitter(veil) == IF veil.name \in {"LeafAdded", "LeafRevoked"} THEN Allowlist ELSE Pool

\* Contracts::check
check(from, decoded) ==
    \/ "ignored" \in DOMAIN decoded
    \/ /\ from = emitter(decoded)
       /\ decoded.name \in {"Settlement", "Exit", "LegacyDeposit"} =>
             decoded.topics[2] = Pool

Accepted(from, r) == LET d == decode(r) IN d # Failed /\ check(from, d)
-----------------------------------------------------------------------------
EmissionsOf(s) ==
    {[from |-> EmitterOf(s), struct |-> s, event |-> e] : e \in Published(s)}

Init ==
    /\ emitted \in UNION {EmissionsOf(s) : s \in Structs}
    /\ contract = emitted.from
    /\ raw = Publish(emitted.struct, emitted.event)
    /\ changes = 0

Change(r) == changes < MaxChanges /\ raw' = r /\ changes' = changes + 1

\* One value of every type an ScVal can have.
Samples ==
    {Symbol("x"), Void, [type |-> "bool", payload |-> TRUE], [type |-> "vec", payload |-> <<>>],
     [type |-> "muxed", payload |-> CHOOSE a \in Accounts : TRUE], MapOf(<<>>)}
    \cup {Encode(t, x) : t \in {"u256"}, x \in Numbers}
    \cup {Encode(t, x) : t \in {"i128"}, x \in SignedAmounts}
    \cup {Encode(t, x) : t \in {"u32", "u64"}, x \in Indices}
    \cup {Encode(t, x) : t \in {"bytes"}, x \in Blobs}
    \cup {AddressVal(a) : a \in Accounts \cup {Pool, Other}}

ChangeTopic ==
    \E i \in DOMAIN raw.topics, val \in Samples :
        Change([raw EXCEPT !.topics[i] = val])
AddTopic == \E val \in Samples : Change([raw EXCEPT !.topics = Append(@, val)])
DropTopic ==
    raw.topics # <<>> /\ Change([raw EXCEPT !.topics = Tail(@)])
RenameEvent ==
    /\ raw.topics # <<>>
    /\ \E s \in Structs \cup {HostEvent} :
          Change([raw EXCEPT !.topics[1] = Symbol(s.name)])
ReplaceBody == \E val \in Samples : Change([raw EXCEPT !.data = val])
AddField ==
    /\ raw.data.type = "map"
    /\ \E f \in {"index", "memo"}, val \in Samples :
          Change([raw EXCEPT !.data.payload = @ \cup {<<Symbol(f), val>>}])
RekeyField ==
    /\ raw.data.type = "map"
    /\ \E e \in raw.data.payload, key \in {Symbol("memo"), Void} :
          Change([raw EXCEPT !.data.payload = (@ \ {e}) \cup {<<key, e[2]>>}])
DropField ==
    /\ raw.data.type = "map"
    /\ \E e \in raw.data.payload : Change([raw EXCEPT !.data.payload = @ \ {e}])
RetypeField ==
    /\ raw.data.type = "map"
    /\ \E e \in raw.data.payload, val \in Samples :
          Change([raw EXCEPT !.data.payload = (@ \ {e}) \cup {<<e[1], val>>}])
Reshape ==
    /\ \/ ChangeTopic \/ AddTopic \/ DropTopic \/ RenameEvent \/ ReplaceBody
       \/ AddField \/ RekeyField \/ DropField \/ RetypeField
    /\ UNCHANGED <<emitted, contract>>

\* The listing gives the event to another contract.
Misattribute ==
    /\ changes < MaxChanges
    /\ contract' \in {Pool, Allowlist, Other} \ {contract}
    /\ changes' = changes + 1
    /\ UNCHANGED <<emitted, raw>>

Next == Reshape \/ Misattribute
Spec == Init /\ [][Next]_vars
-----------------------------------------------------------------------------
(* Properties *)

\* The contracts' structs and the decoder agree: an event that was not tampered
\* with is accepted, under its own kind and with the values it was published
\* with, word order, sign and absent recipient included.
DecodesWhatWasPublished ==
    changes = 0 =>
        LET d == decode(raw) IN
        /\ Accepted(contract, raw)
        /\ name[d.name] = emitted.event.name
        /\ d.topics = emitted.event.topics
        /\ d.fields = emitted.event.fields

\* "a missing field, an extra field, a wrong type or a wrong number of topics is
\* an error, never a default" (event/mod.rs 7), and an event from a contract that
\* does not emit it is refused: whatever a source hands over, what is accepted is
\* an event the contract it came from could have published, and nothing is lost
\* in reading it: it encodes back to the same topics and body.
AcceptsOnlyPublished ==
    Accepted(contract, raw) =>
        LET d == decode(raw) IN
        \/ "ignored" \in DOMAIN d /\ Head(raw.topics) = Symbol(HostEvent.name)
        \/ \E s \in Structs :
              /\ s.name = name[d.name] /\ contract = EmitterOf(s)
              /\ Len(s.topics) = 2 => d.topics[2] = contract
              /\ raw = Publish(s, [name |-> s.name, topics |-> d.topics,
                                   fields |-> d.fields])
=============================================================================
