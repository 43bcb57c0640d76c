------------------------------- MODULE Fetch -------------------------------
(***************************************************************************)
(* The download of the weights and the tokenizer at launch                 *)
(* (crates/fgm-serve/src/fetch.rs and resolve in main.rs): a transfer to a *)
(* .part file, resumed where an earlier one stopped, and a rename.         *)
(* Launches crash, transfers fail, and what is published may change.       *)
(*                                                                         *)
(* A file's content is a sequence of blocks <<version, number>>; files are *)
(* told from their names, since a transfer goes on writing to the file it  *)
(* opened whatever that is called by then.                                 *)
(***************************************************************************)
EXTENDS Integers, Sequences

CONSTANTS
  Launch,     \* the processes that may run at one time
  Blocks,     \* blocks of each file
  Given,      \* of each: the files named on the command line, not looked for
  Offline,    \* those started with --no-download
  MaxTrips,   \* bound: crashes and failed transfers
  MaxUpdates  \* bound: new versions published

File == <<"weights", "tokenizer">>      \* in the order resolve wants them
Name == {File[i] : i \in DOMAIN File}
Absent == 0
Inode == 1 .. 2 + MaxTrips + 2          \* enough for every file ever created

ASSUME FetchAssumption ==
  /\ Blocks \in Nat \ {0} /\ Given \in [Launch -> SUBSET Name]
  /\ Offline \subseteq Launch
  /\ MaxTrips \in Nat /\ MaxUpdates \in Nat

VARIABLES
  stage,    \* of each launch: "resolve", "transfer", "rename", "ready", "exit"
  at,       \* which of the files it is at
  curl,     \* its transfer: [to, version, from, next], or NoCurl
  dest,     \* the file under each name, or Absent
  part,     \* the file under name.part, or Absent
  data,     \* the content of each file
  fetched,  \* history: blocks transferred for each name, over all launches
  version,  \* what is published
  trips
files == <<dest, part, data, fetched>>
fetchVars == <<stage, at, curl, files, version, trips>>

NoCurl == [to |-> Absent, version |-> 0, from |-> 0, next |-> 0]
\* Every version has the same number of blocks.
Published(v) == [k \in 1 .. Blocks |-> <<v, k>>]

FetchInit ==
  /\ stage = [p \in Launch |-> "resolve"] /\ at = [p \in Launch |-> 1]
  /\ curl = [p \in Launch |-> NoCurl]
  /\ dest = [f \in Name |-> Absent] /\ part = [f \in Name |-> Absent]
  /\ data = [i \in Inode |-> <<>>] /\ fetched = [f \in Name |-> 0]
  /\ version = 1 /\ trips = 0

Proceed(p, l) == stage' = [stage EXCEPT ![p] = l]
Wanted(p) == File[at[p]]
\* resolve goes on to the next file, or to opening them.
NextFile(p) ==
  IF at[p] < Len(File) THEN at' = [at EXCEPT ![p] = @ + 1] /\ Proceed(p, "resolve")
  ELSE Proceed(p, "ready") /\ UNCHANGED at

-----------------------------------------------------------------------------
\* A file that is given or there already.
\* Fault: a partial file counts as well.
FaultThere(p) == Wanted(p) \in Given[p] \/ dest[Wanted(p)] # Absent \/ part[Wanted(p)] # Absent
There(p) == Wanted(p) \in Given[p] \/ dest[Wanted(p)] # Absent
Found(p) ==
  /\ stage[p] = "resolve" /\ There(p)
  /\ NextFile(p)
  /\ UNCHANGED <<curl, files, version, trips>>
NotFound(p) ==
  /\ stage[p] = "resolve" /\ ~There(p) /\ p \in Offline
  /\ Proceed(p, "exit")
  /\ UNCHANGED <<at, curl, files, version, trips>>

\* curl -C - -o part: opened to append, from where it ends.
Fresh == CHOOSE i \in Inode :
           /\ data[i] = <<>> /\ \A f \in Name : i \notin {dest[f], part[f]}
           /\ \A p \in Launch : curl[p].to # i
\* Fault: a .part of another launch is left alone.
FaultOpened(f) == Fresh
Opened(f) == IF part[f] = Absent THEN Fresh ELSE part[f]
Start(p) ==
  /\ stage[p] = "resolve" /\ ~There(p) /\ p \notin Offline
  /\ LET i    == Opened(Wanted(p))
         from == Len(data[i]) + 1
     IN  /\ part' = [part EXCEPT ![Wanted(p)] = i]
         /\ curl' = [curl EXCEPT ![p] = [to |-> i, version |-> version, from |-> from, next |-> from]]
  /\ Proceed(p, "transfer")
  /\ UNCHANGED <<at, dest, data, fetched, version, trips>>

\* The next block, appended.
Block(p) ==
  /\ curl[p] # NoCurl /\ curl[p].next <= Blocks
  /\ data' = [data EXCEPT ![curl[p].to] = Append(@, <<curl[p].version, curl[p].next>>)]
  /\ curl' = [curl EXCEPT ![p].next = @ + 1]
  /\ fetched' = [fetched EXCEPT ![Wanted(p)] = @ + 1]
  /\ UNCHANGED <<stage, at, dest, part, version, trips>>

\* Fault: to resume what is already whole is an error (HTTP status 416).
FaultFinished(p) == curl[p].next > Blocks /\ curl[p].from <= Blocks
\* Nothing left to fetch is success too.
Finished(p) == curl[p].next > Blocks
\* The transfer's exit status: success, or failure after its retries.
\* Fault: the status is not looked at.
FaultVerdict(ok) == "rename"
Verdict(ok) == IF ok THEN "rename" ELSE "exit"
Ended(p) ==
  /\ stage[p] = "transfer"
  /\ \/ Finished(p) /\ Proceed(p, Verdict(TRUE)) /\ UNCHANGED trips
     \/ /\ trips < MaxTrips /\ trips' = trips + 1
        /\ Proceed(p, Verdict(FALSE))
  /\ curl' = [curl EXCEPT ![p] = NoCurl]
  /\ UNCHANGED <<at, files, version>>

\* rename: fails when there is no such file any more.
Rename(p) ==
  /\ stage[p] = "rename"
  /\ LET f == Wanted(p)
     IN  \/ part[f] = Absent /\ Proceed(p, "exit") /\ UNCHANGED <<at, dest, part>>
         \/ /\ part[f] # Absent
            /\ dest' = [dest EXCEPT ![f] = part[f]] /\ part' = [part EXCEPT ![f] = Absent]
            /\ NextFile(p)
  /\ UNCHANGED <<curl, data, fetched, version, trips>>

Steps(p) == Found(p) \/ NotFound(p) \/ Start(p) \/ Block(p) \/ Ended(p) \/ Rename(p)

-----------------------------------------------------------------------------
(* The environment *)

\* The launch is killed, and its transfer with it.
Crash(p) ==
  /\ stage[p] \in {"resolve", "transfer", "rename"} /\ trips < MaxTrips
  /\ trips' = trips + 1 /\ Proceed(p, "exit")
  /\ curl' = [curl EXCEPT ![p] = NoCurl]
  /\ UNCHANGED <<at, files, version>>

\* Launched again.
Relaunch(p) ==
  /\ stage[p] = "exit"
  /\ Proceed(p, "resolve") /\ at' = [at EXCEPT ![p] = 1]
  /\ UNCHANGED <<curl, files, version, trips>>

Publish ==
  /\ version <= MaxUpdates /\ version' = version + 1
  /\ UNCHANGED <<stage, at, curl, files, trips>>

FetchNext == Publish \/ \E p \in Launch : Steps(p) \/ Crash(p) \/ Relaunch(p)

\* Launches and transfers run, and someone launches again what ended.
FetchFairness == \A p \in Launch : WF_fetchVars(Steps(p)) /\ WF_fetchVars(Relaunch(p))
FetchSpec == FetchInit /\ [][FetchNext]_fetchVars
FetchFairSpec == FetchSpec /\ FetchFairness

-----------------------------------------------------------------------------
(* Properties *)

\* Types; no two names share a file; a launch that goes on has its files.
FetchTypeOK ==
  /\ stage \in [Launch -> {"resolve", "transfer", "rename", "ready", "exit"}]
  /\ at \in [Launch -> DOMAIN File]
  /\ DOMAIN curl = Launch
  /\ dest \in [Name -> Inode \cup {Absent}] /\ part \in [Name -> Inode \cup {Absent}]
  /\ \A f, g \in Name : /\ dest[f] # Absent => dest[f] # part[g]
                        /\ f # g /\ dest[f] # Absent => dest[f] # dest[g]
  /\ \A p \in Launch : stage[p] = "ready" => \A f \in Name \ Given[p] : dest[f] # Absent

\* README.md:82-84: "a partial file is never renamed into place, so a truncated
\* 4 GB transfer cannot mmap cleanly and produce nonsense": under its own name a
\* file has every block once, in order, wherever launches crashed before.
NeverTruncated ==
  \A f \in Name : dest[f] # Absent =>
     /\ Len(data[dest[f]]) = Blocks
     /\ \A k \in 1 .. Blocks : data[dest[f]][k][2] = k

\* fetch.rs:10-12: "renamed only on success, so an interrupted 4.3 GB transfer
\* never leaves a truncated file that mmaps cleanly and produces nonsense":
\* under its own name a file is all of one published version.
DestWhole ==
  \A f \in Name : dest[f] # Absent => \E v \in 1 .. version : data[dest[f]] = Published(v)

\* fetch.rs:53-55: "A partial file from an earlier run is resumed rather than
\* restarted -- re-pulling 4.3 GB because a connection dropped at 90% is the kind
\* of thing that makes people give up": over all launches, crashes, failed
\* transfers and renames no block of a file is transferred more than once.
NeverRefetched == \A f \in Name : fetched[f] <= Blocks

\* However often launches crash and transfers fail, a launch that is repeated
\* gets its files in the end, also from a crash between transfer and rename.
GetsReady == \A p \in Launch : <>(stage[p] = "ready")
=============================================================================
