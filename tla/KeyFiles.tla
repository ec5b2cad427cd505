------------------------------ MODULE KeyFiles ------------------------------
(***************************************************************************)
(* The key files: regen-from-zkey replacing a circuit's keys one file at a *)
(* time with atomic_write, and the demo saving a wallet.                   *)
(*                                                                         *)
(* A run has its own keys, so the content of a file is the run that wrote  *)
(* it, or Torn when it is not all there.  Runs may share a process id, as  *)
(* two containers do, and any may fail at a system call, be killed or lose *)
(* the machine.  A machine that stops keeps what was synced, and of the    *)
(* rest anything.                                                          *)
(***************************************************************************)
EXTENDS Integers, Sequences, FiniteSets, Functions

CONSTANTS
    Runs,           \* runs of regen-from-zkey
    Pid,            \* the process id of each
    KeyNames,       \* the files a run replaces, in order
    Attempts,       \* names tried for a temporary file (1000)
    News,           \* runs of `veil-demo new` for one wallet name
    MaxCrashes      \* bound: times the machine stops

\* With still more runs one that finds no free name removes another's file, and a
\* third may take the name: the other then renames a file that is not its own.
KeyFilesAssumption ==
    /\ Pid \in [Runs -> Nat] /\ Attempts \in Nat \ {0} /\ Runs \cap News = {}
    /\ Cardinality(Runs) <= Attempts + 1

VARIABLES
    dir,        \* name |-> the file (an inode) under it, or NoFile
    durable,    \* the same, as it is on disk
    data,       \* inode |-> its content
    synced,     \* inode |-> its content on disk
    run,        \* run of regen-from-zkey |-> where it is
    new,        \* run of `new` |-> where it is
    replaced,   \* key name |-> the runs that renamed a file to it, in order
    crashes

vars == <<dir, durable, data, synced, run, new, replaced, crashes>>

NoFile == <<"no file">>
Torn == "torn"
KeyPath(name) == <<name>>
WalletPath == <<"wallet">>
TempPath(name, pid, attempt) == <<name, pid, attempt>>
Paths ==
    {KeyPath(n) : n \in Range(KeyNames)} \cup {WalletPath} \cup
    {TempPath(n, Pid[r], a) : n \in Range(KeyNames), r \in Runs, a \in 0 .. Attempts - 1}

\* A file for each write: the one before this, one per key of a run, a wallet.
Inodes == ((Runs \cup {"old"}) \X Range(KeyNames)) \cup {<<n>> : n \in News}
Content(inode) == inode[1]

\* Where a run is in atomic_write of which key.
Name(r) == KeyNames[run[r].key]
Temp(r) == TempPath(Name(r), Pid[r], run[r].attempt)
Inode(r) == <<r, Name(r)>>
AtStep(r, step) == run[r].step = step
Go(r, step) == run' = [run EXCEPT ![r].step = step]

Init ==
    /\ dir = [p \in Paths |-> IF Len(p) = 1 /\ p # WalletPath THEN <<"old", p[1]>> ELSE NoFile]
    /\ durable = dir
    /\ data = [i \in Inodes |-> Content(i)] /\ synced = data
    /\ run = [r \in Runs |-> [key |-> 1, attempt |-> 0, step |-> "create"]]
    /\ new = [n \in News |-> "exists?"]
    /\ replaced = [n \in Range(KeyNames) |-> <<"old">>]
    /\ crashes = 0
-----------------------------------------------------------------------------
(* atomic_write *)

\* create_new, under the first name that is free.
Create(r) ==
    /\ AtStep(r, "create")
    /\ \/ /\ dir[Temp(r)] = NoFile
          /\ dir' = [dir EXCEPT ![Temp(r)] = Inode(r)]
          /\ data' = [data EXCEPT ![Inode(r)] = Torn]
          /\ synced' = [synced EXCEPT ![Inode(r)] = Torn]
          /\ Go(r, "write")
          /\ UNCHANGED <<durable, new, replaced, crashes>>
       \/ /\ dir[Temp(r)] # NoFile
          /\ run' = [run EXCEPT ![r] = IF @.attempt + 1 < Attempts
                                       THEN [@ EXCEPT !.attempt = @ + 1]
                                       ELSE [@ EXCEPT !.step = "remove"]]
          /\ UNCHANGED <<dir, durable, data, synced, new, replaced, crashes>>

Write(r) ==
    /\ AtStep(r, "write")
    /\ data' = [data EXCEPT ![Inode(r)] = r]
    /\ Go(r, "sync")
    /\ UNCHANGED <<dir, durable, synced, new, replaced, crashes>>

\* A bug: the content is not synced before the rename.
SyncNothing(r) ==
    /\ AtStep(r, "sync")
    /\ Go(r, "rename")
    /\ UNCHANGED <<dir, durable, data, synced, new, replaced, crashes>>

Sync(r) ==
    /\ AtStep(r, "sync")
    /\ synced' = [synced EXCEPT ![Inode(r)] = data[Inode(r)]]
    /\ Go(r, "rename")
    /\ UNCHANGED <<dir, durable, data, new, replaced, crashes>>

\* The rename takes whatever is under the temporary name.
Rename(r) ==
    /\ AtStep(r, "rename")
    /\ \/ /\ dir[Temp(r)] # NoFile
          /\ dir' = [dir EXCEPT ![KeyPath(Name(r))] = dir[Temp(r)], ![Temp(r)] = NoFile]
          /\ replaced' = [replaced EXCEPT ![Name(r)] = Append(@, r)]
          /\ Go(r, "sync dir")
          /\ UNCHANGED <<durable, data, synced, new, crashes>>
       \/ /\ dir[Temp(r)] = NoFile
          /\ Go(r, "remove")
          /\ UNCHANGED <<dir, durable, data, synced, new, replaced, crashes>>

NextKey(r) ==
    run' = [run EXCEPT ![r] = IF @.key < Len(KeyNames)
                              THEN [key |-> @.key + 1, attempt |-> 0, step |-> "create"]
                              ELSE [@ EXCEPT !.step = "ok"]]

SyncDir(r) ==
    /\ AtStep(r, "sync dir")
    /\ durable' = dir
    /\ NextKey(r)
    /\ UNCHANGED <<dir, data, synced, new, replaced, crashes>>

\* A system call fails: before the rename the temporary name is removed, ...
Fail(r) ==
    /\ run[r].step \in {"create", "write", "sync", "rename", "sync dir"}
    /\ Go(r, IF run[r].step \in {"create", "sync dir"} THEN "err" ELSE "remove")
    /\ UNCHANGED <<dir, durable, data, synced, new, replaced, crashes>>

\* ... whoever's file is under it.
Remove(r) ==
    /\ AtStep(r, "remove")
    /\ dir' = [dir EXCEPT ![Temp(r)] = NoFile]
    /\ Go(r, "err")
    /\ UNCHANGED <<durable, data, synced, new, replaced, crashes>>
-----------------------------------------------------------------------------
(* Wallet::save *)

Exists(n) ==
    /\ new[n] = "exists?"
    /\ new' = [new EXCEPT ![n] = IF dir[WalletPath] = NoFile THEN "open" ELSE "err"]
    /\ UNCHANGED <<dir, durable, data, synced, run, replaced, crashes>>

\* A bug: the file is opened whether it is new or not.
OpenExisting(n) ==
    /\ new[n] = "open"
    /\ dir' = [dir EXCEPT ![WalletPath] = <<n>>]
    /\ data' = [data EXCEPT ![<<n>>] = Torn]
    /\ synced' = [synced EXCEPT ![<<n>>] = Torn]
    /\ new' = [new EXCEPT ![n] = "write"]
    /\ UNCHANGED <<durable, run, replaced, crashes>>

Open(n) ==
    /\ new[n] = "open"
    /\ \/ /\ dir[WalletPath] = NoFile
          /\ dir' = [dir EXCEPT ![WalletPath] = <<n>>]
          /\ data' = [data EXCEPT ![<<n>>] = Torn]
          /\ synced' = [synced EXCEPT ![<<n>>] = Torn]
          /\ new' = [new EXCEPT ![n] = "write"]
          /\ UNCHANGED <<durable, run, replaced, crashes>>
       \/ /\ dir[WalletPath] # NoFile
          /\ new' = [new EXCEPT ![n] = "err"]
          /\ UNCHANGED <<dir, durable, data, synced, run, replaced, crashes>>

WriteWallet(n) ==
    /\ new[n] = "write"
    /\ \/ /\ data' = [data EXCEPT ![<<n>>] = n]
          /\ new' = [new EXCEPT ![n] = "ok"]
       \/ /\ new' = [new EXCEPT ![n] = "err"]
          /\ UNCHANGED data
    /\ UNCHANGED <<dir, durable, synced, run, replaced, crashes>>
-----------------------------------------------------------------------------
(* The machine *)

Over == {"ok", "err", "killed"}
Kill(r) ==
    /\ run[r].step \notin Over
    /\ Go(r, "killed")
    /\ UNCHANGED <<dir, durable, data, synced, new, replaced, crashes>>

KillNew(n) ==
    /\ new[n] \notin Over
    /\ new' = [new EXCEPT ![n] = "killed"]
    /\ UNCHANGED <<dir, durable, data, synced, run, replaced, crashes>>

\* Every name holds what it held on disk or in memory, every file is as synced
\* or torn where it was not.
Crash ==
    /\ crashes < MaxCrashes
    /\ crashes' = crashes + 1
    /\ \E lost \in SUBSET {p \in Paths : dir[p] # durable[p]} :
          dir' = [p \in Paths |-> IF p \in lost THEN durable[p] ELSE dir[p]]
    /\ durable' = dir'
    /\ \E torn \in SUBSET {i \in Inodes : synced[i] # data[i]} :
          data' = [i \in Inodes |-> IF i \in torn THEN Torn ELSE data[i]]
    /\ synced' = data'
    /\ run' = [r \in Runs |-> IF run[r].step \in Over THEN run[r] ELSE [run[r] EXCEPT !.step = "killed"]]
    /\ new' = [n \in News |-> IF new[n] \in Over THEN new[n] ELSE "killed"]
    /\ UNCHANGED replaced

Next ==
    \/ \E r \in Runs : \/ Create(r) \/ Write(r) \/ Sync(r) \/ Rename(r) \/ SyncDir(r)
                       \/ Fail(r) \/ Remove(r) \/ Kill(r)
    \/ \E n \in News : Exists(n) \/ Open(n) \/ WriteWallet(n) \/ KillNew(n)
    \/ Crash
Spec == Init /\ [][Next]_vars
-----------------------------------------------------------------------------
(* Properties *)

KeyContent(name) == data[dir[KeyPath(name)]]

\* Whoever reads a key file, the prover or the verifier's build, finds all of
\* some run's key in it: never a missing, empty or half-written file, whichever
\* runs shared a process id, failed, were killed, or stopped with the machine, as
\* long as at most one run more than there are names was ever started.
KeysWhole ==
    \A name \in Range(KeyNames) :
        /\ dir[KeyPath(name)] # NoFile
        /\ KeyContent(name) \in Runs \cup {"old"}

\* What a run reported written stays written: when it returned Ok, a file holds
\* its key or that of a run that replaced it, even after the machine stops.
OkIsDurable ==
    \A r \in Runs : run[r].step = "ok" =>
        \A name \in Range(KeyNames) :
            \E i, j \in DOMAIN replaced[name] :
                /\ replaced[name][i] = r /\ i <= j
                /\ replaced[name][j] = KeyContent(name)

\* A wallet that was saved is never replaced: its keys are the only way to its
\* notes, and `new` checks the file's existence before it opens it.
WalletKept ==
    crashes = 0 => \A n \in News : new[n] = "ok" => /\ dir[WalletPath] = <<n>>
                                                   /\ data[<<n>>] = n
=============================================================================
