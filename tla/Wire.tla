-------------------------------- MODULE Wire --------------------------------
(***************************************************************************)
(* One instruction on its way from a caller to a program: the caller fills *)
(* a generated builder, the builder makes a list of accounts, the runtime  *)
(* grants privileges, the program takes the accounts by position and makes *)
(* its inner calls.  The two ends are written down independently of each   *)
(* other (ClientInterface from the clients, ProgramInterface from the      *)
(* programs), and nothing on the wire names a role: an account that is one *)
(* place off is another account.                                           *)
(*                                                                         *)
(* Callers come in five forms: an off-chain "builder"; a "legacy" client,  *)
(* generated before trailing optional accounts existed; a "handmade"       *)
(* transaction, which asks no signature of keys nobody can sign for; and   *)
(* programs using the CPI builder, the queue program or some other.        *)
(***************************************************************************)
EXTENDS Naturals, Sequences, FiniteSets

CONSTANTS MaxUnset,     \* how many builder fields a caller may leave unset
          Forms         \* the forms of call considered

C == INSTANCE ClientInterface
P == INSTANCE ProgramInterface

OffChain == {"builder", "legacy", "handmade"}
OnChain  == {"cpi_queue", "cpi_other"}

ASSUME WireAssumption == MaxUnset \in Nat /\ Forms \subseteq OffChain \cup OnChain

VARIABLES phase, call, wire, bound,
          made          \* how many of its inner calls the program has made

wvars == <<phase, call, wire, bound, made>>

-----------------------------------------------------------------------------
(* What a call says *)

Ixs == DOMAIN C!Instructions
ProgramOf(ix)  == C!Instructions[ix].program
ClientMetas(ix) == C!Instructions[ix].built.accounts
ClientArgs(ix) == C!Instructions[ix].built.args
Builder(ix)    == C!Instructions[ix].builder
Target(ix)     == P!Entrypoint[ProgramOf(ix)][ix]

MetaRoles(metas) == {metas[i].role : i \in DOMAIN metas}
ArgNames(args)   == {args[i].name : i \in DOMAIN args}
Fields(ix)       == MetaRoles(ClientMetas(ix)) \cup ArgNames(ClientArgs(ix))
OptionalFields(ix) == Fields(ix) \ (Builder(ix).expects \cup DOMAIN Builder(ix).defaults)

\* Program-derived addresses, for which only their program signs.
PdaRoles == {"queue", "vault_state", "event_authority"}

NoExtra == [given |-> FALSE, writable |-> FALSE, signer |-> FALSE]
Extras  == {NoExtra} \cup [given : {TRUE}, writable : BOOLEAN, signer : BOOLEAN]

\* The address a caller means by a role: programs have one, the two token
\* programs are a choice, and all signing roles may be one wallet.
KeyOf(c, r) ==
    IF r = "token_program" THEN c.token
    ELSE IF r \in DOMAIN P!Fixed THEN CHOOSE k \in P!Fixed[r] : TRUE
    ELSE IF /\ c.one_wallet /\ r \notin PdaRoles
            /\ \E i \in DOMAIN ClientMetas(c.ix) :
                   ClientMetas(c.ix)[i].role = r /\ ClientMetas(c.ix)[i].signer
         THEN "wallet" ELSE r

\* What a role is set to when the instruction is built, if it is.
EffectiveKey(c, r) ==
    IF r \in c.fields THEN KeyOf(c, r)
    ELSE IF c.form \in OffChain /\ r \in DOMAIN Builder(c.ix).defaults
         THEN Builder(c.ix).defaults[r]
         ELSE "unset"

-----------------------------------------------------------------------------
(* Building *)

\* The builder's expect()s; the CPI builder has no defaults.
Expected(c) ==
    IF c.form \in OffChain THEN Builder(c.ix).expects
    ELSE Fields(c.ix) \ OptionalFields(c.ix)

\* The accounts before the first optional one.
LegacyMetas(metas, optional) ==
    LET kept == {j \in DOMAIN metas : \A h \in 1..j : metas[h].role \notin optional}
    IN  [i \in kept |-> metas[i]]

SentMetas(c) ==
    IF c.form = "legacy" THEN LegacyMetas(ClientMetas(c.ix), OptionalFields(c.ix))
    ELSE ClientMetas(c.ix)

OnWire(k, w, s) == [key |-> k, writable |-> w, signer |-> s]

MetaOnWire(c, m) ==
    IF EffectiveKey(c, m.role) = "unset"
    THEN OnWire(ProgramOf(c.ix), FALSE, FALSE)
    ELSE OnWire(EffectiveKey(c, m.role), m.writable,
                m.signer /\ ~(c.form = "handmade" /\ m.role \in PdaRoles))

\* An extra account, added as (account, is_writable, is_signer) to a CPI
\* builder, whose invoke reads the first flag as is_signer.
ExtraOnWire(c) ==
    IF ~c.extra.given THEN <<>>
    ELSE IF c.form \in OffChain THEN <<OnWire("extra", c.extra.writable, c.extra.signer)>>
    ELSE <<OnWire("extra", c.extra.signer, c.extra.writable)>>

Built(c) == [i \in DOMAIN SentMetas(c) |-> MetaOnWire(c, SentMetas(c)[i])] \o ExtraOnWire(c)

-----------------------------------------------------------------------------
(* Landing *)

KeysWith(ms, flag) == {ms[i].key : i \in {j \in DOMAIN ms : ms[j][flag]}}

\* Off chain every signing key signs, which a PDA cannot.  On chain a program
\* passes on the privileges it holds (all but the withheld one) and signs for
\* its own PDAs; every key must be among the account infos it passes, which
\* are the invoked program, the accounts that are set, and the extra one.
Granted(c, ms) ==
    IF c.form \in OffChain
    THEN KeysWith(ms, "signer") \cap PdaRoles = {}
    ELSE /\ \A k \in KeysWith(ms, "signer") :
               IF k \in PdaRoles THEN c.form = "cpi_queue" /\ k = "queue"
               ELSE k # "extra" \/ c.extra.signer
         /\ "extra" \in KeysWith(ms, "writable") => c.extra.writable
         /\ ~\E i \in DOMAIN ms : /\ ms[i].key = c.withheld.key
                                  /\ ms[i][c.withheld.flag]
         /\ \A i \in DOMAIN ms : ms[i].key \in {ProgramOf(c.ix), "extra"} \cup
                {EffectiveKey(c, r) : r \in c.fields}

\* try_accounts takes the accounts in order; an optional one is None where the
\* program's id stands for it or the list has ended.
Taken(c, ms, i) ==
    LET role == Target(c.ix).accounts[i].role
    IN  IF role \in Target(c.ix).optional /\
           (i > Len(ms) \/ (i <= Len(ms) /\ ms[i].key = ProgramOf(c.ix)))
        THEN "None" ELSE ms[i].key

EnoughKeys(c, ms) ==
    \A i \in DOMAIN Target(c.ix).accounts :
        i <= Len(ms) \/ Target(c.ix).accounts[i].role \in Target(c.ix).optional

\* Signer, mut and address constraints, and the token program of the mint.
Admits(c, ms) ==
    \A i \in DOMAIN Target(c.ix).accounts :
        LET f == Target(c.ix).accounts[i]
            k == Taken(c, ms, i)
        IN  k # "None" =>
                /\ f.signer => k \in KeysWith(ms, "signer")
                /\ f.writable => k \in KeysWith(ms, "writable")
                /\ f.role \in DOMAIN P!Fixed => k \in P!Fixed[f.role]
                /\ f.role = "token_program" =>
                       k = c.mint /\ (c.ix \in P!LegacyTokenOnly => k = "Token")

Decodes(c) ==
    /\ Len(ClientArgs(c.ix)) = Len(Target(c.ix).args)
    /\ \A i \in DOMAIN ClientArgs(c.ix) : ClientArgs(c.ix)[i].type = Target(c.ix).args[i].type

Bindings(c, ms) ==
    [r \in MetaRoles(Target(c.ix).accounts) |->
        Taken(c, ms, CHOOSE i \in DOMAIN Target(c.ix).accounts :
                         Target(c.ix).accounts[i].role = r)]

CallsOf(c, b) ==
    IF c.ix = "OperatorDeposit" /\ b["subaccount"] = "None"
    THEN P!OperatorDepositUnregistered ELSE Target(c.ix).calls

-----------------------------------------------------------------------------
NoCall == [ix |-> "none"]

Usable(ix, form) == IF form = "legacy" THEN Fields(ix) \ OptionalFields(ix) ELSE Fields(ix)

\* At most one thing out of the ordinary: fields left unset, an extra account,
\* or a privilege the calling program does not hold.
Oddities(ix, form) ==
    LET flagged == {m \in {ClientMetas(ix)[i] : i \in DOMAIN ClientMetas(ix)} :
                        m.role \notin PdaRoles}
        nothing == [key |-> "none", flag |-> "writable"]
        withheld == {nothing} \cup
                    (IF form \in OffChain THEN {}
                     ELSE {[key |-> m.role, flag |-> "writable"] :
                               m \in {x \in flagged : x.writable}} \cup
                          {[key |-> m.role, flag |-> "signer"] :
                               m \in {x \in flagged : x.signer}})
        unset == {u \in SUBSET Usable(ix, form) : Cardinality(u) <= MaxUnset} \cup
                 {OptionalFields(ix)}
    IN  [unset : unset, extra : {NoExtra}, withheld : {nothing}] \cup
        [unset : {{}, OptionalFields(ix)}, extra : Extras, withheld : {nothing}] \cup
        [unset : {{}}, extra : {NoExtra}, withheld : withheld]

Calls(ix, form) ==
    LET tokens == IF "token_program" \in Usable(ix, form) THEN P!TokenPrograms ELSE {"Token"}
    IN  {[ix |-> ix, form |-> form, fields |-> Usable(ix, form) \ odd.unset, token |-> t,
          mint |-> n, one_wallet |-> o, extra |-> odd.extra, withheld |-> odd.withheld] :
            t \in tokens, n \in tokens, o \in BOOLEAN, odd \in Oddities(ix, form)}

WInit == /\ phase = "idle" /\ call = NoCall /\ wire = <<>> /\ bound = <<>> /\ made = 0

\* The caller sets the fields of a builder.
Fill ==
    /\ phase = "idle"
    /\ \E ix \in Ixs, form \in Forms : \E c \in Calls(ix, form) : call' = c
    /\ phase' = "filled"
    /\ UNCHANGED <<wire, bound, made>>

\* instruction() or invoke_signed(): panics on an unset field.
BuildPanics ==
    /\ phase = "filled"
    /\ ~(Expected(call) \subseteq call.fields)
    /\ phase' = "panicked"
    /\ UNCHANGED <<call, wire, bound, made>>

Build ==
    /\ phase = "filled"
    /\ Expected(call) \subseteq call.fields
    /\ wire' = Built(call)
    /\ phase' = "sent"
    /\ UNCHANGED <<call, bound, made>>

Accepted(c, ms) ==
    Granted(c, ms) /\ EnoughKeys(c, ms) /\ Admits(c, ms) /\ Decodes(c)

Reject ==
    /\ phase = "sent" /\ ~Accepted(call, wire)
    /\ phase' = "rejected"
    /\ UNCHANGED <<call, wire, bound, made>>

Accept ==
    /\ phase = "sent" /\ Accepted(call, wire)
    /\ bound' = Bindings(call, wire)
    /\ phase' = "running"
    /\ UNCHANGED <<call, wire, made>>

\* An inner call may write what the transaction may write, and needs the
\* signature of the transaction or of the program's own PDA.
MayInvoke(c, x) ==
    /\ x.via \in DOMAIN bound
    /\ \A r \in x.writes : bound[r] \in KeysWith(wire, "writable")
    /\ \A r \in x.signs : \/ r \in P!Pdas[ProgramOf(c.ix)]
                          \/ bound[r] \in KeysWith(wire, "signer")

Invoke ==
    /\ phase = "running" /\ made + 1 \in DOMAIN CallsOf(call, bound)
    /\ phase' = IF MayInvoke(call, CallsOf(call, bound)[made + 1])
                THEN "running" ELSE "failed"
    /\ made' = made + 1
    /\ UNCHANGED <<call, wire, bound>>

Finish ==
    /\ phase = "running" /\ made + 1 \notin DOMAIN CallsOf(call, bound)
    /\ phase' = IF \A r \in Target(call.ix).own :
                       bound[r] \in KeysWith(wire, "writable") \cup {"None"}
                THEN "done" ELSE "failed"
    /\ UNCHANGED <<call, wire, bound, made>>

Again ==
    /\ phase \in {"panicked", "rejected", "failed", "done"}
    /\ phase' = "idle" /\ call' = NoCall /\ wire' = <<>> /\ bound' = <<>> /\ made' = 0

WNext == Fill \/ BuildPanics \/ Build \/ Reject \/ Accept \/ Invoke \/ Finish \/ Again

WSpec == WInit /\ [][WNext]_wvars

-----------------------------------------------------------------------------
(* Properties *)

Meant(c, r) == IF r \in Target(c.ix).optional /\ r \notin c.fields THEN "None"
               ELSE EffectiveKey(c, r)

\* An instruction the program acts on has every account in the role its caller
\* meant it for and every argument in its place, whichever client built it: a
\* default stands only for what was left unset, an omitted optional account
\* shifts nothing, and an extra account lands after all the others.
BoundAsMeant ==
    phase \in {"running", "done", "failed"} =>
        /\ bound = [r \in MetaRoles(Target(call.ix).accounts) |-> Meant(call, r)]
        /\ [i \in DOMAIN ClientArgs(call.ix) |-> ClientArgs(call.ix)[i].name] =
               [i \in DOMAIN Target(call.ix).args |-> Target(call.ix).args[i].name]

NeedsPda(ix) == \E i \in DOMAIN ClientMetas(ix) :
                    ClientMetas(ix)[i].signer /\ ClientMetas(ix)[i].role \in PdaRoles

\* Everything the client's interface asks of the caller.
Complete(c) ==
    /\ \A f \in Fields(c.ix) : \/ f \in c.fields \/ f \in OptionalFields(c.ix)
                               \/ c.form \in OffChain /\ f \in DOMAIN Builder(c.ix).defaults
    /\ "token_program" \in Fields(c.ix) =>
           /\ EffectiveKey(c, "token_program") = c.mint
           /\ c.ix \in P!LegacyTokenOnly => c.mint = "Token"
    /\ c.withheld.key = "none" /\ c.extra = NoExtra
    /\ NeedsPda(c.ix) => c.form = "cpi_queue"

\* A caller who did all that is served: the builder does not panic, the program
\* finds its accounts with the privileges it demands, and every inner call down
\* to the vault's own transfers under a finalization finds the privileges it
\* needs.  This holds for clients from before the subaccount registry too.
CompleteCallsServed ==
    call # NoCall /\ Complete(call) => phase \notin {"panicked", "rejected", "failed"}

MayWrite(ix) == Target(ix).own \cup UNION {Target(ix).calls[i].writes :
                                              i \in DOMAIN Target(ix).calls}

\* A transaction locks for writing only accounts the program may change.  A
\* wallet that asserts the state of every writable account fails a transaction
\* when somebody else's touches one of them in between.
NoNeedlessLocks ==
    phase = "sent" =>
        KeysWith(wire, "writable") \ {"extra"} \subseteq
            {EffectiveKey(call, r) : r \in MayWrite(call.ix)}

\* The vault is detached only by its queue's program, however the transaction
\* is put together: not by the admin alone, nor by another program.
DetachOnlyByQueue ==
    phase \in {"running", "done"} /\ call.ix = "DetachWithdrawalQueue" =>
        call.form = "cpi_queue"

\* The CPI builders document an extra account as (account, is_writable,
\* is_signer), and that is how it is passed on.
ExtraAsDocumented ==
    phase = "sent" /\ call.extra.given =>
        /\ wire[Len(wire)].writable = call.extra.writable
        /\ wire[Len(wire)].signer = call.extra.signer
=============================================================================
