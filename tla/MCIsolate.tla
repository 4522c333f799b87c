------------------------------- MODULE MCIsolate ------------------------------
(***************************************************************************)
(* Small instances of the machines inside and around the isolate.  They    *)
(* share no state, so one run checks them side by side: part says which    *)
(* one a behaviour is about, and the others stay as they start.            *)
(***************************************************************************)
EXTENDS MCStringify, ParseGuard, BuiltinMeters, NativeStack, CallTree, VmEntry, Fleet

VARIABLE part

MCGateSets == {{}, AllGates}

\* Blocks on either side of the gates.
At(network, coin, height, time) == [network |-> network, coin |-> coin, height |-> height, time |-> time]
MCBlocks ==
    {At("mainnet", "BTC", 961000, 1786060800), At("mainnet", "LTC", 961000, 1786060799),
     At("other", "BTC", 10000000, 1798761600),
     At("testnet", "BTC", 156908, 1792303199), At("testnet", "BTC", 156907, 1792303200),
     At("testnet", "DOGE", 68005165, 1792454400), At("testnet", NoCoin, 156908, NotANumber),
     At("testnet", "LTC", 4928460, 1791061097), At("regtest", "BTC", NotANumber, NotANumber)}
\* Blocks that differ in what is stripped, what is metered and how the wrapper binds.
MCRealmBlocks ==
    {At("mainnet", "LTC", 961000, 1786060799), At("mainnet", "LTC", 961000, 1786060800),
     At("testnet", "BTC", 156908, 1792303199)}
MCVersions ==
    LET all == PINNED \cup DEPENDENCY_PINNED IN {all, all \ {"icu"}, all \ {"acorn"}}
-------------------------------------------------------------------------------
Parts == {"stringify", "parse", "probe", "meters", "stack", "tree", "entry", "fleet", "realm"}

\* A machine that the behaviour is not about has one initial state.
StringifyIdle == heap = CHOOSE h \in Heaps : TRUE
ParseIdle == nrGuardOn = TRUE
ProbeIdle == own = NoProp /\ proto = NoProp /\ sealed = TRUE
MetersIdle == gates = {} /\ gasLeft = CHOOSE b \in Budgets : TRUE
FleetIdle == installed = (CHOOSE v \in Versions : TRUE) /\ maxCpuTimeMs = 0
RealmIdle ==
    /\ realmBlock = CHOOSE b \in RealmBlocks : TRUE
    /\ asked = [cross |-> FALSE, manifest |-> FALSE]

IsolateInit ==
    /\ part \in Parts
    /\ part = "stringify" \/ StringifyIdle
    /\ part = "parse" \/ ParseIdle
    /\ part = "probe" \/ ProbeIdle
    /\ part = "meters" \/ MetersIdle
    /\ part = "fleet" \/ FleetIdle
    /\ part = "realm" \/ RealmIdle
    /\ StringifyInit /\ ParseInit /\ ProbeInit /\ MetersInit /\ StackInit /\ TreeInit /\ EntryInit
    /\ FleetInit /\ RealmInit

IsolateNext ==
    \/ part = "stringify" /\ StringifyNext
         /\ UNCHANGED <<part, parseVars, probeVars, meterVars, nstVars, treeVars, entryVars, fleetVars, realmVars>>
    \/ part = "parse" /\ ParseNext
         /\ UNCHANGED <<part, rsfVars, probeVars, meterVars, nstVars, treeVars, entryVars, fleetVars, realmVars>>
    \/ part = "probe" /\ ProbeNext
         /\ UNCHANGED <<part, rsfVars, parseVars, meterVars, nstVars, treeVars, entryVars, fleetVars, realmVars>>
    \/ part = "meters" /\ MetersNext
         /\ UNCHANGED <<part, rsfVars, parseVars, probeVars, nstVars, treeVars, entryVars, fleetVars, realmVars>>
    \/ part = "stack" /\ StackNext
         /\ UNCHANGED <<part, rsfVars, parseVars, probeVars, meterVars, treeVars, entryVars, fleetVars, realmVars>>
    \/ part = "tree" /\ TreeNext
         /\ UNCHANGED <<part, rsfVars, parseVars, probeVars, meterVars, nstVars, entryVars, fleetVars, realmVars>>
    \/ part = "entry" /\ EntryNext
         /\ UNCHANGED <<part, rsfVars, parseVars, probeVars, meterVars, nstVars, treeVars, fleetVars, realmVars>>
    \/ part = "fleet" /\ FleetNext
         /\ UNCHANGED <<part, rsfVars, parseVars, probeVars, meterVars, nstVars, treeVars, entryVars, realmVars>>
    \/ part = "realm" /\ RealmNext
         /\ UNCHANGED <<part, rsfVars, parseVars, probeVars, meterVars, nstVars, treeVars, entryVars, fleetVars>>

IsolateSpec ==
    IsolateInit /\ [][IsolateNext]_<<part, rsfVars, parseVars, probeVars, meterVars, nstVars,
                                     treeVars, entryVars, fleetVars, realmVars>>
-------------------------------------------------------------------------------
\* The native serializer and the native parser get what the guards before them
\* measured and charged (harness_part_2.js, _3.js, _4.js).  Contract code that runs
\* inside the native call is the limit of it: the coercion of JSON.stringify's
\* third argument can change what was handed over by reference, and a reviver of
\* JSON.parse can deepen what it has yet to walk.
NativeInputMeasured == StringifyIsSafe /\ ParsedWithinBounds
===============================================================================
