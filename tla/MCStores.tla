------------------------------- MODULE MCStores -------------------------------
(* The stores of the web app, each by itself: verification profiles (two users,   *)
(* an agent, three proofs), branding (two tenants who may want the same slug), and  *)
(* payment intents; the ids of intents, of three bytes of two bits that make two     *)
(* digits of three; and two runs of the hook that pays.  A behaviour is of one, so   *)
(* what is a user or an instance in one may be a tenant, a run or a slug in      *)
(* another: few sets for the symmetry to permute.                                    *)
EXTENDS Verification, UsePayment, TLC

CONSTANTS Absence, Shop

MCGateOf == [slot \in {"g", "h", "a"} |->
    IF slot = "g" THEN "oidc" ELSE IF slot = "h" THEN "buyer" ELSE "agent"]

\* The token g was issued to names the agent.
MCAgentOf == [slot \in {"g", "h", "a"} |-> IF slot = "g" THEN "agent1" ELSE NoAgent]

VARIABLES
    which,
    bRows, bSchema, bWrites, bBoot, bFaults, bClaims, byTenant, bySlug, byMerchant, bCalls,
    edits,
    nRows, nSchema, nWrites, nBoot, nFaults, intents, time, said,
    clock, last, issued

verified == <<rows, schema, writes, boot, faults, claims, profiles, unlocked, calls, credited>>
branded ==
    <<bRows, bSchema, bWrites, bBoot, bFaults, bClaims, byTenant, bySlug, byMerchant, bCalls,
      edits>>
intended == <<nRows, nSchema, nWrites, nBoot, nFaults, intents, time, said>>
named == <<clock, last, issued>>

B == INSTANCE Branding WITH
    Instance <- {Shop}, Key <- User, MaxWrites <- 1, MaxFaults <- 1, MaxEdits <- 5,
    OperatorCall <- Call, Slug <- Instance, Merchant <- {"m1"}, NoMerchant <- Absence,
    Human <- {"h1"}, NoHuman <- Absence, NoTenant <- Absence,
    rows <- bRows, schema <- bSchema, writes <- bWrites, boot <- bBoot, faults <- bFaults,
    claims <- bClaims, operatorCalls <- bCalls

N == INSTANCE Intents WITH
    Key <- {"n1"}, MaxWrites <- 3, MaxFaults <- 2, Ttl <- {1}, LastTime <- 2,
    rows <- nRows, schema <- nSchema, writes <- nWrites, boot <- nBoot, faults <- nFaults

\* Rolls just short of a carry and of running over.
U == INSTANCE Ulid WITH
    ByteBits <- 2, DigitBits <- 3, BufferBits <- 5, Bytes <- 3, TimeDigits <- 2,
    Time <- {7, 8, 9}, MaxIds <- 4,
    Rolls <- {<<0, 0, 0>>, <<1, 3, 3>>, <<2, 0, 3>>, <<3, 3, 2>>}

ASSUME B!BrandingAssumption /\ N!IntentsAssumption /\ U!UlidAssumption

\* The ones a behaviour does not take stay as they begin.
MCInit ==
    /\ which \in {"verification", "branding", "intents", "ids", "payment"}
    /\ InitProfiles /\ B!InitBranding /\ N!InitIntents /\ InitRuns /\ U!InitUlid
    /\ which # "ids" => clock = 7

MCNext ==
    /\ UNCHANGED which
    /\ \/ which = "verification" /\ NextProfiles /\ UNCHANGED <<branded, intended, named, payVars>>
       \/ which = "branding" /\ B!NextBranding /\ UNCHANGED <<verified, intended, named, payVars>>
       \/ which = "intents" /\ N!NextIntents /\ UNCHANGED <<verified, branded, named, payVars>>
       \/ which = "payment" /\ NextRuns /\ UNCHANGED <<verified, branded, intended, named>>
       \/ which = "ids" /\ U!NextUlid /\ UNCHANGED <<verified, branded, intended, payVars>>

MCSpec == MCInit /\ [][MCNext]_<<which, verified, branded, intended, named, payVars>>

CasinoBacked == which = "branding" => B!CasinoBacked
ExpiryFinal == N!ExpiryFinal
SortsByCreation == U!SortsByCreation

Alike == Permutations(User) \cup Permutations(Call) \cup Permutations(Instance)

=============================================================================
