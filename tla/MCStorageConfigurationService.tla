------------------- MODULE MCStorageConfigurationService -------------------
(***************************************************************************)
(* Small instances of StorageConfigurationService for TLC: two groups and  *)
(* two volume names over eight bytes of disk, a kilobyte of two bytes and  *)
(* a smallest volume of two.  Two pools of four fit, or one of eight, and  *)
(* a pool of eight has room for two volumes.                               *)
(***************************************************************************)
EXTENDS StorageConfigurationService, TLC

CONSTANTS a, b, x, y

MCVgNames == {a, b}
MCLvNames == {x, y}
MCGenVol == (a :> x) @@ (b :> y)

Blank == [op |-> "Enumerate", pool |-> NULL, in |-> NULL, name |-> NULL,
          vol |-> NULL, elm |-> EMPTY, goal |-> FALSE, size |-> 0]

Reads == {Blank, [Blank EXCEPT !.op = "ScanStorage"]}

CreatePool(sizes) ==
    {[Blank EXCEPT !.op = "CreateOrModifyStoragePool", !.in = p, !.name = v, !.size = n] :
        p \in Pools \cup {NULL}, v \in {NULL, a}, n \in sizes}

\* v = p or NULL: the pool keeps its name.
ModifyPool(p, names, sizes, goals) ==
    {[Blank EXCEPT !.op = "CreateOrModifyStoragePool", !.pool = p, !.in = q, !.name = v,
                   !.size = n, !.goal = g] :
        q \in Pools \cup {NULL}, v \in names, n \in sizes, g \in goals}

DeletePool == {[Blank EXCEPT !.op = "DeleteStoragePool", !.pool = p] : p \in Pools}

CreateVolume(elms, sizes, goals) ==
    {[Blank EXCEPT !.op = "CreateOrModifyElementFromStoragePool", !.pool = p, !.elm = l,
                   !.size = n, !.goal = g] :
        p \in Pools \cup {NULL}, l \in elms, n \in sizes, g \in goals}

ModifyVolume(elms, sizes) ==
    {[Blank EXCEPT !.op = "CreateOrModifyElementFromStoragePool", !.vol = k, !.elm = l,
                   !.size = n] :
        k \in LvNames, l \in elms, n \in sizes}

ReturnVolume == {[Blank EXCEPT !.op = "ReturnToStoragePool", !.vol = l] : l \in LvNames}


\* Every method, the pools' names and sizes changed too.
MCAll == Reads \cup CreatePool({0, 4}) \cup ModifyPool(a, {NULL, b}, {0, 4}, {FALSE})
         \cup DeletePool \cup CreateVolume({EMPTY}, {0, 4}, BOOLEAN) \cup ModifyVolume({x}, {4})
         \cup ReturnVolume

\* Also what only careless clients ask for: sizes below the smallest volume,
\* goals that a modification frees, volumes without a name parameter.
MCCareless == CreatePool({1, 4}) \cup ModifyPool(a, {NULL}, {4}, {TRUE})
              \cup DeletePool \cup CreateVolume({NULL, EMPTY}, {1, 4}, {TRUE})
              \cup ModifyVolume({EMPTY, y}, {1}) \cup ReturnVolume
=============================================================================
