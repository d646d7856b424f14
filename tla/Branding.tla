-------------------------------- MODULE Branding --------------------------------
(***************************************************************************)
(* The row a merchant's checkout is served from: branding/store.ts and the   *)
(* routes that write one (api/branding, attach-onchain, checkout-mode,        *)
(* operator-verify).  What the row looks like is left out; what is kept is    *)
(* what others rely on: its slug, its on-chain merchant, its vertical, its     *)
(* checkout mode and the human who operates it.                               *)
(***************************************************************************)
EXTENDS DurableKv, ReplayStore

CONSTANTS
    Slug, Merchant, NoMerchant,
    Human, NoHuman,
    OperatorCall, NoTenant,
    MaxEdits         \* bound: rows written in a behaviour

\* Assumed where the module is instantiated.
BrandingAssumption ==
    /\ NoMerchant \notin Merchant
    /\ NoHuman \notin Human
    /\ NoTenant \notin Key
    /\ MaxEdits \in Nat

Tenant == Key
Vertical == {"standard", "casino"}
CheckoutMode == {"standard", "verified-human"}

\* A field an input leaves as it is.
Keep == "keep"

VARIABLES
    byTenant,        \* instance -> its hot map of rows
    bySlug,          \* instance -> slug -> the tenant it serves
    byMerchant,      \* instance -> on-chain merchant -> the tenant it is of
    operatorCalls,   \* call -> an operator verifying: its instance, tenant and human
    edits            \* how many rows were written

indexes == <<byTenant, bySlug, byMerchant>>
brandingVars == <<kvVars, claims, indexes, operatorCalls, edits>>

Unclaimed == [s \in Slug |-> NoTenant]
Unheld == [m \in Merchant |-> NoTenant]

InitBranding ==
    /\ KvInit
    /\ claims = {}
    /\ byTenant = [i \in Instance |-> Nothing(Key)]
    /\ bySlug = [i \in Instance |-> Unclaimed]
    /\ byMerchant = [i \in Instance |-> Unheld]
    /\ operatorCalls = [c \in OperatorCall |->
          [pc |-> "idle", at |-> Gone, tenant |-> NoTenant, human |-> NoHuman]]
    /\ edits = 0

\* What a new tenant's row starts from.
Default ==
    [merchant |-> NoMerchant, vertical |-> "standard", mode |-> "standard", operator |-> NoHuman]

Unchanged == [slug |-> Keep, merchant |-> Keep, vertical |-> Keep, mode |-> Keep, operator |-> Keep]

Over(given, old) == IF given = Keep THEN old ELSE given

FreeFor(owner, t) == owner \in {NoTenant, t}

\* The slugs a save may end up with: the one asked for, the one there is, or for a new
\* tenant one that this instance takes to be free.
SlugsFor(i, t, input) ==
    IF input.slug # Keep THEN {input.slug}
    ELSE IF byTenant[i][t] # Absent THEN {byTenant[i][t].slug}
    ELSE {s \in Slug : FreeFor(bySlug[i][s], t)}

\* A casino's checkout asks for a human, whatever was chosen.
ModeOf(vertical, asked) == IF vertical = "casino" THEN "verified-human" ELSE asked

\* The row a save makes of an input and what this instance knows of the tenant.
RowOf(i, t, input, slug) ==
    LET old == IF byTenant[i][t] = Absent THEN Default ELSE byTenant[i][t]
        vertical == Over(input.vertical, old.vertical)
    IN  [slug |-> slug,
         merchant |-> Over(input.merchant, old.merchant),
         vertical |-> vertical,
         mode |-> ModeOf(vertical, Over(input.mode, old.mode)),
         operator |-> Over(input.operator, old.operator)]

\* The throws of upsertBranding: SLUG_TAKEN, MERCHANT_TAKEN, CASINO_NEEDS_OPERATOR.
\* A slug that is kept is not looked up.
Accepts(i, t, input, row) ==
    /\ input.slug # Keep => FreeFor(bySlug[i][row.slug], t)
    /\ row.merchant # NoMerchant => FreeFor(byMerchant[i][row.merchant], t)
    /\ row.vertical = "casino" => row.operator # NoHuman

\* The index entries of t, moved from an old key to a new one.
Moved(index, old, new, t) ==
    [k \in DOMAIN index |-> IF k = new THEN t ELSE IF k = old THEN NoTenant ELSE index[k]]

\* upsertBranding, when it does not throw: the row, both indexes, the write-through.
Upsert(i, t, input) ==
    LET old == byTenant[i][t] IN
    \E slug \in SlugsFor(i, t, input) :
        LET row == RowOf(i, t, input, slug) IN
        /\ Accepts(i, t, input, row)
        /\ Room(1)
        /\ edits < MaxEdits /\ edits' = edits + 1
        /\ byTenant' = [byTenant EXCEPT ![i][t] = row]
        /\ bySlug' = [bySlug EXCEPT ![i] =
              Moved(bySlug[i], IF old = Absent THEN row.slug ELSE old.slug, row.slug, t)]
        /\ byMerchant' = [byMerchant EXCEPT ![i] =
              Moved(byMerchant[i], IF old = Absent THEN NoMerchant ELSE old.merchant,
                    row.merchant, t)]
        /\ writes' = Sent(writes, i, t, row)
        /\ UNCHANGED <<rows, schema, boot, faults, claims>>

\* POST /api/branding: create or edit.
Save(i, t, slug) ==
    /\ Upsert(i, t, [Unchanged EXCEPT !.slug = slug])
    /\ UNCHANGED operatorCalls

\* POST /api/branding/attach-onchain: attachOnChain of a row this instance knows.
Attach(i, t, m) ==
    /\ byTenant[i][t] # Absent
    /\ Upsert(i, t, [Unchanged EXCEPT !.slug = byTenant[i][t].slug, !.merchant = m])
    /\ UNCHANGED operatorCalls

\* POST /api/branding/checkout-mode.
SetCheckoutMode(i, t, mode, vertical) ==
    /\ byTenant[i][t] # Absent
    /\ Upsert(i, t, [Unchanged EXCEPT !.mode = mode, !.vertical = vertical])
    /\ UNCHANGED operatorCalls

\* POST /api/branding/operator-verify, up to the claim.
OperatorVerify(c, i, t, human) ==
    /\ operatorCalls[c].pc = "idle"
    /\ byTenant[i][t] # Absent
    /\ operatorCalls' = [operatorCalls EXCEPT ![c] =
          [pc |-> "claiming", at |-> i, tenant |-> t, human |-> human]]
    /\ UNCHANGED <<kvVars, claims, indexes, edits>>

\* Mutant: with the table out of reach, an instance remembers its own claims.
ClaimInMemory(c) ==
    LET call == operatorCalls[c]
        mine == {other \in {operatorCalls[d] : d \in OperatorCall} :
                    other.at = call.at /\ other.pc \in {"won", "done"}}
    IN
    /\ call.pc = "claiming"
    /\ claims' = Claimed(call.human)
    /\ operatorCalls' = [operatorCalls EXCEPT ![c].pc =
          IF call.at = Gone THEN "gone"
          ELSE IF \E other \in mine : other.human = call.human THEN "lost" ELSE "won"]
    /\ UNCHANGED <<rows, schema, writes, boot, faults, indexes, edits>>

ClaimOperator(c) ==
    LET call == operatorCalls[c] IN
    /\ call.pc = "claiming"
    /\ \E ran, told \in BOOLEAN :
          /\ IF told THEN ran /\ UNCHANGED faults ELSE Fault
          /\ claims' = IF ran THEN Claimed(call.human) ELSE claims
          /\ operatorCalls' = [operatorCalls EXCEPT ![c].pc =
                 IF call.at = Gone THEN "gone" ELSE Verdict(call.human, told)]
    /\ UNCHANGED <<rows, schema, writes, boot, indexes, edits>>

\* The rest, on a fresh claim: the row may have been edited meanwhile, and may be
\* refused; the human's slot stays claimed.
OperatorRecord(c) ==
    LET i == operatorCalls[c].at
        t == operatorCalls[c].tenant
        input == [Unchanged EXCEPT !.operator = operatorCalls[c].human]
    IN  /\ operatorCalls[c].pc = "won"
        /\ operatorCalls' = [operatorCalls EXCEPT ![c].pc = "done"]
        /\ \/ Upsert(i, t, input)
           \/ /\ \A slug \in SlugsFor(i, t, input) :
                     ~Accepts(i, t, input, RowOf(i, t, input, slug))
              /\ UNCHANGED <<kvVars, claims, indexes, edits>>

\* indexRow of every row read, in the order the table gave them: of rows with the same
\* slug or merchant, the last one holds it.
Reindexed(index, i, field) ==
    {new \in [DOMAIN index -> Tenant \cup {NoTenant}] :
        \A k \in DOMAIN index :
            LET holders == {t \in Tenant : boot[i].seen[t] # Absent /\ boot[i].seen[t][field] = k}
            IN  IF holders = {} THEN new[k] = index[k] ELSE new[k] \in holders}

HydrateRows(i) ==
    /\ KvHydrate(i)
    /\ byTenant' = [byTenant EXCEPT ![i] = Hydrated(i, byTenant[i])]
    /\ \E slugs \in Reindexed(bySlug[i], i, "slug"),
          merchants \in Reindexed(byMerchant[i], i, "merchant") :
          /\ bySlug' = [bySlug EXCEPT ![i] = slugs]
          /\ byMerchant' = [byMerchant EXCEPT ![i] = merchants]
    /\ UNCHANGED <<claims, operatorCalls, edits>>

\* A call the stopped instance was serving: what it sent may still be carried out, and
\* nobody reads its answer.
Stopped(i, call) ==
    IF call.at # i THEN call
    ELSE [call EXCEPT !.at = Gone,
             !.pc = IF call.pc \in {"won", "lost", "failed"} THEN "gone" ELSE call.pc]

RestartBranding(i) ==
    /\ KvRestart(i)
    /\ byTenant' = [byTenant EXCEPT ![i] = Nothing(Key)]
    /\ bySlug' = [bySlug EXCEPT ![i] = Unclaimed]
    /\ byMerchant' = [byMerchant EXCEPT ![i] = Unheld]
    /\ operatorCalls' = [c \in OperatorCall |-> Stopped(i, operatorCalls[c])]
    /\ UNCHANGED <<claims, edits>>

NextBranding ==
    \/ \E i \in Instance, t \in Tenant :
          \/ \E slug \in Slug \cup {Keep} : Save(i, t, slug)
          \/ \E m \in Merchant : Attach(i, t, m)
          \/ \E mode \in CheckoutMode, vertical \in Vertical \cup {Keep} :
                SetCheckoutMode(i, t, mode, vertical)
          \/ \E c \in OperatorCall, human \in Human : OperatorVerify(c, i, t, human)
    \/ \E c \in OperatorCall : ClaimOperator(c) \/ OperatorRecord(c)
    \/ \E i \in Instance : HydrateRows(i) \/ RestartBranding(i)
    \/ KvStep /\ UNCHANGED <<claims, indexes, operatorCalls, edits>>

BrandingSpec == InitBranding /\ [][NextBranding]_brandingVars

-----------------------------------------------------------------------------
Row ==
    [slug : Slug, merchant : Merchant \cup {NoMerchant}, vertical : Vertical,
     mode : CheckoutMode, operator : Human \cup {NoHuman}]

BrandingTypeOK ==
    /\ KvTypeOK(Row)
    /\ claims \subseteq Human
    /\ byTenant \in [Instance -> [Tenant -> Row \cup {Absent}]]
    /\ bySlug \in [Instance -> [Slug -> Tenant \cup {NoTenant}]]
    /\ byMerchant \in [Instance -> [Merchant -> Tenant \cup {NoTenant}]]
    /\ operatorCalls \in [OperatorCall ->
          [pc : {"idle", "claiming", "won", "lost", "failed", "gone", "done"},
           at : Instance \cup {Gone}, tenant : Tenant \cup {NoTenant},
           human : Human \cup {NoHuman}]]
    /\ edits \in 0..MaxEdits

\* Every copy there is of a tenant's row.
RowCopies(t) ==
    ({byTenant[i][t] : i \in Instance} \cup {rows[t]}
        \cup {boot[i].seen[t] : i \in Instance}
        \cup {w.value : w \in {w \in writes : w.key = t}}) \ {Absent}

\* No copy of a casino's row, whatever was lost, reordered or read too early, lets it
\* serve without a gate and a human of its own: one who claimed the operator's slot and
\* operates no other tenant, in any copy.
CasinoBacked ==
    \A t \in Tenant : \A row \in RowCopies(t) :
        row.vertical = "casino" =>
            /\ row.mode = "verified-human"
            /\ row.operator \in claims
            /\ \A u \in Tenant \ {t} : \A other \in RowCopies(u) : other.operator # row.operator

\* What branding/store.ts says of upsertBranding, and an instance that has not learned of
\* the anchor does not keep (README.md, section 7): no statement is under way that takes
\* the merchant off a row which has one.
AnchorsPreserved ==
    \A w \in writes :
        rows[w.key] # Absent /\ rows[w.key].merchant # NoMerchant
            => w.value.merchant # NoMerchant

=============================================================================
