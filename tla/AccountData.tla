---------------------------- MODULE AccountData ----------------------------
(***************************************************************************)
(* The bytes of the programs' accounts over the life of a deployment:      *)
(* accounts outlive the release that created them, a release rewrites      *)
(* every byte of an account it changes, and clients generated from one     *)
(* release read what another wrote.  Nothing in an account says which      *)
(* release it is from; a field is where its reader's struct puts it.       *)
(*                                                                         *)
(* Data is the set of the values stored in it, each with the byte it       *)
(* starts at and its width; bytes of no value are zero.                    *)
(***************************************************************************)
EXTENDS Integers, Sequences, FiniteSets, TLC

CONSTANTS Addresses,
          Kinds,        \* the account types considered
          Values,       \* what a field may be set to, besides zero
          Decimals,     \* decimals of the deposit mint
          MaxWrites     \* how many handlers run

P == INSTANCE ProgramAccounts
C == INSTANCE ClientAccounts

ASSUME AccountDataAssumption ==
    /\ MaxWrites \in Nat
    /\ Values \subseteq Nat \ {0} /\ Values # {}
    /\ Kinds \subseteq DOMAIN P!LEN

VARIABLES kind,       \* the type of the accounts of this behaviour
          accounts,   \* what each address holds
          release,    \* the release that is deployed
          stored,     \* what was last stored in each field, by name
          writes

avars == <<kind, accounts, release, stored, writes>>

-----------------------------------------------------------------------------
(* Borsh and Anchor *)

Releases == 0..4
DiscriminatorLen == 8

\* The byte each field starts at, and the first one after the last field.
Starts(layout) ==
    LET at[i \in 1..(Len(layout) + 1)] ==
            IF i = 1 THEN DiscriminatorLen ELSE at[i - 1] + layout[i - 1].width
    IN  at

Names(layout) == {layout[i].name : i \in DOMAIN layout}
Place(layout, n) == CHOOSE i \in DOMAIN layout : layout[i].name = n
At(layout, n)    == Starts(layout)[Place(layout, n)]
Room(layout, n)  == layout[Place(layout, n)].width

Overlap(at1, w1, at2, w2) == at1 < at2 + w2 /\ at2 < at1 + w1

Segment(at, w, v) == [at |-> at, width |-> w, value |-> v]
Moved(segments, by) == {[s EXCEPT !.at = @ + by] : s \in segments}
Content(v, w) == IF v = 0 THEN {} ELSE {Segment(0, w, v)}

\* The bytes of a field, as the values that lie in it or reach into it.
Bytes(data, at, w) == Moved({s \in data : Overlap(s.at, s.width, at, w)}, -at)

\* A struct is too long for the data: try_deserialize and from_bytes fail.
Fits(layout, size) == Starts(layout)[Len(layout) + 1] <= size

Deserialize(layout, data) ==
    [n \in Names(layout) |-> Bytes(data, At(layout, n), Room(layout, n))]

\* On exit the whole struct is written back, padding included.
SerializeNamed(layout, struct) ==
    UNION {Moved(struct[n], At(layout, n)) : n \in Names(layout) \ {"padding"}}
Serialize(layout, struct) ==
    UNION {Moved(struct[n], At(layout, n)) : n \in Names(layout)}

\* What a reader takes the content of a field for; -1 is no stored value.
Read(content, w) ==
    IF content = {} THEN 0
    ELSE IF \E v \in Values : content = Content(v, w)
         THEN CHOOSE v \in Values : content = Content(v, w)
         ELSE -1

ReadAll(layout, data) ==
    LET struct == Deserialize(layout, data)
    IN  [n \in Names(layout) \ {"padding"} |-> Read(struct[n], Room(layout, n))]

-----------------------------------------------------------------------------
NoAccount == [size |-> 0, data |-> {}]

\* The one account that is a byte short, and that no release could ever read.
WrittenOff == [size |-> 454, data |-> {}]

FieldsOf(k) == Names(P!Layout(k, 4)) \ {"padding"}
Zeroes(k) == [n \in FieldsOf(k) |-> 0]
FirstValue == CHOOSE v \in Values : TRUE

\* Account types whose addresses are closed and created again.
Reopened == {"NominatedAdmin", "Subaccount", "WithdrawalRequest"}

AInit ==
    /\ kind \in Kinds
    /\ accounts \in [Addresses -> {NoAccount} \cup
                                  (IF kind = "VaultState" THEN {WrittenOff} ELSE {})]
    /\ release \in IF kind = "VaultState" THEN Releases ELSE {4}
    /\ stored = [a \in Addresses |-> Zeroes(kind)]
    /\ writes = 0

CreateShort(a) ==
    /\ accounts[a] = NoAccount
    /\ writes < MaxWrites
    /\ accounts' = [accounts EXCEPT ![a] = [size |-> P!LEN[kind] - 1, data |-> {}]]
    /\ writes' = writes + 1
    /\ UNCHANGED <<kind, release, stored>>
\* Anchor's init: zeroed bytes, then the handler's stores.
Create(a) ==
    /\ accounts[a] = NoAccount
    /\ writes < MaxWrites
    /\ LET layout == P!Layout(kind, release)
           opened == [n \in Names(layout) |->
                         IF n \in P!Stored[kind]
                         THEN Content(FirstValue, Room(layout, n)) ELSE {}]
       IN  /\ accounts' = [accounts EXCEPT ![a] =
                  [size |-> P!LEN[kind], data |-> Serialize(layout, opened)]]
           /\ stored' = [stored EXCEPT ![a] =
                  [n \in FieldsOf(kind) |->
                      IF n \in P!Stored[kind] \cap Names(layout) THEN FirstValue ELSE 0]]
    /\ writes' = writes + 1
    /\ UNCHANGED <<kind, release>>

\* A handler of the deployed release loads the account, sets a field, and the
\* struct is written back.
Store(a, n, v) ==
    LET layout == P!Layout(kind, release)
    IN  /\ accounts[a] # NoAccount
        /\ Fits(layout, accounts[a].size)
        /\ writes < MaxWrites
        /\ n \in Names(layout) \ {"padding"}
        /\ accounts' = [accounts EXCEPT ![a].data =
               Serialize(layout, [Deserialize(layout, @) EXCEPT ![n] =
                                     Content(v, Room(layout, n))])]
        /\ stored' = [stored EXCEPT ![a][n] = v]
        /\ writes' = writes + 1
        /\ UNCHANGED <<kind, release>>

Close(a) ==
    /\ kind \in Reopened
    /\ accounts[a] # NoAccount
    /\ accounts' = [accounts EXCEPT ![a] = NoAccount]
    /\ stored' = [stored EXCEPT ![a] = Zeroes(kind)]
    /\ UNCHANGED <<kind, release, writes>>

\* The upgrade authority deploys another release, or rolls back to one.
Deploy(r) ==
    /\ kind = "VaultState"
    /\ r # release
    /\ release' = r
    /\ UNCHANGED <<kind, accounts, stored, writes>>

ANext ==
    \/ \E a \in Addresses : Create(a) \/ Close(a)
    \/ \E a \in Addresses, n \in FieldsOf(kind), v \in Values \cup {0} : Store(a, n, v)
    \/ \E r \in Releases : Deploy(r)

ASpec == AInit /\ [][ANext]_avars

-----------------------------------------------------------------------------
(* Readers *)

\* A client's batch read: absent addresses are skipped (NotFound), and one
\* account that does not decode fails the batch.
Fetch(struct, batch) ==
    LET found == {a \in batch : accounts[a] # NoAccount}
    IN  IF \E a \in found : ~Fits(struct, accounts[a].size) THEN {}
        ELSE {[address |-> a, data |-> ReadAll(struct, accounts[a].data)] : a \in found}

\* Whoever reads an account, the deployed program, an older or a newer release
\* of it, or either client, finds in every field it knows what was last stored
\* there, and zero in a field nobody stored.  Carving a field shifts no other,
\* a release that has no name for a field does not lose it, and an address that
\* is used again starts empty.
FieldsKeepTheirPlace ==
    /\ \A a \in Addresses, r \in Releases :
           LET seen == ReadAll(P!Layout(kind, r), accounts[a].data)
           IN  \A n \in DOMAIN seen : seen[n] = stored[a][n]
    /\ \A struct \in C!Structs[kind], batch \in SUBSET Addresses :
           \A got \in Fetch(struct, batch) : got.data = stored[got.address]

\* No upgrade and no rollback locks an account out: every account a release
\* created is read by every release and by both clients, in any batch of such.
NeverLockedOut ==
    \A a \in Addresses : accounts[a] \notin {NoAccount, WrittenOff} =>
        /\ \A r \in Releases : Fits(P!Layout(kind, r), accounts[a].size)
        /\ \A struct \in C!Structs[kind] : Fetch(struct, {a}) # {}

\* What the hand-written helpers tell an off-chain caller (which offset prices a
\* deposit, whether a redemption goes through a queue, whether an operator
\* transfer names a subaccount, how small a first deposit may be) is what the
\* deployed program decides, for vaults from before the fields existed too.
AdviceHolds ==
    kind = "VaultState" /\ release = 4 =>
        \A struct \in C!Structs[kind], a \in Addresses, d \in Decimals :
            \A got \in Fetch(struct, {a}) :
                C!Advice(got.data, d) =
                    P!Decisions(ReadAll(P!Layout(kind, release), accounts[a].data), d)
=============================================================================
