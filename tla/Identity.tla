------------------------------ MODULE Identity ------------------------------
(***************************************************************************)
(* The user's identity (helper.cpp: PullConfig, UpdateConfig; the setuuid  *)
(* command and the registration in Websocket.cpp): the server gives a new  *)
(* user a uuid, the program keeps it in memory and in the configuration    *)
(* file, and pulls it from the file at every start.  The process may end   *)
(* at any step, and the user may edit or delete the file between runs.     *)
(*                                                                         *)
(* Opening the file for writing truncates it; the text follows when it is  *)
(* closed.  What else a connection does is in Websocket: here a worker     *)
(* announces itself, may be given a uuid at any time, asked for or not,    *)
(* and may be disconnected.                                                *)
(***************************************************************************)
EXTENDS Naturals, FiniteSets

CONSTANTS Main,       \* the game's main thread
          Workers,    \* the threads of the connections, reused
          Uuids,      \* uuids that validUUID accepts
          Invalid,    \* other strings, except the empty one
          NoUuid,     \* the empty string
          Empty,      \* contents of a missing or truncated file
          Malformed,  \* contents that are no JSON, or have no uuid
          Absent,     \* a setting the file does not have
          NotBoolean, \* a setting of another type
          MaxStarts   \* bound: starts of the program

ASSUME DistinctValues == /\ Main \notin Workers /\ NoUuid \notin Uuids \cup Invalid
                         /\ Uuids \cap Invalid = {}
                         /\ {Absent, NotBoolean} \cap BOOLEAN = {} /\ Absent # NotBoolean
ASSUME MaxStartsAssumption == MaxStarts \in Nat

Threads == Workers \cup {Main}
Users == Uuids \cup {NoUuid}
Strings == Users \cup Invalid
Configs == [uuid : Strings, keep : BOOLEAN]
Accepted == [uuid : Users, keep : BOOLEAN \cup {Absent}]
Parsed == [uuid : Strings, keep : BOOLEAN \cup {Absent, NotBoolean}]
Refused == {Malformed} \cup (Parsed \ Accepted)

ASSUME DistinctContents == Empty # Malformed /\ {Empty, Malformed} \cap Parsed = {}

VARIABLES file,       \* the configuration file
          saved,      \* history: what the last complete write, or the user, left in it
          torn,       \* history: the process ended between a truncation and its write
          uuid,       \* Chat::uuid
          keep,       \* Chat::keepChatOpenOnEnter
          pc,         \* where each thread is
          contents,   \* what PullConfig read
          newConfig,  \* what each thread is about to write
          awaiting,   \* connections over which a registration was asked for
          overlapped, \* history: two connections were alive at once in this run
          crossed,    \* history: a uuid arrived while another was being stored
          blanked,    \* history: the server gave the empty uuid
          starts,     \* number of starts, for the bound
          status      \* "running" or "undefined"

vars == <<file, saved, torn, uuid, keep, pc, contents, newConfig,
          awaiting, overlapped, crossed, blanked, starts, status>>
disk == <<file, saved, torn>>
history == <<overlapped, crossed, blanked>>
session == <<awaiting, history>>

Saving == {"update", "open", "write"}
Changing == Saving \cup {"assign"}

TypeOK == /\ file \in Parsed \cup {Empty, Malformed}
          /\ saved \in Parsed \cup {Empty, Malformed}
          /\ torn \in BOOLEAN
          /\ uuid \in Strings /\ keep \in BOOLEAN
          /\ pc \in [Threads -> {"off"} \cup {"pull", "parse", "up", "fatal"}
                                \cup {"announce", "ask", "reading", "assign"} \cup Saving]
          /\ pc[Main] \notin {"announce", "ask", "reading", "assign"}
          /\ \A w \in Workers : pc[w] \notin {"pull", "parse", "up", "fatal"}
          /\ contents \in Parsed \cup {Empty, Malformed}
          /\ pc[Main] = "parse" => contents # Empty
          /\ newConfig \in [Threads -> Configs]
          /\ awaiting \subseteq Workers
          /\ overlapped \in BOOLEAN /\ crossed \in BOOLEAN /\ blanked \in BOOLEAN
          /\ starts \in 0..MaxStarts
          /\ status \in {"running", "undefined"}

Blank == [uuid |-> NoUuid, keep |-> FALSE]

Init == /\ file = Empty /\ saved = Empty /\ torn = FALSE
        /\ uuid = NoUuid /\ keep = FALSE
        /\ pc = [t \in Threads |-> "off"]
        /\ contents = Empty
        /\ newConfig = [t \in Threads |-> Blank]
        /\ awaiting = {} /\ overlapped = FALSE /\ crossed = FALSE /\ blanked = FALSE
        /\ starts = 0
        /\ status = "running"

At(t, l) == status = "running" /\ pc[t] = l
Goto(t, l) == pc' = [pc EXCEPT ![t] = l]
Alive == {w \in Workers : pc[w] # "off"}

-----------------------------------------------------------------------------
(* The program starts: its variables have their initial values. *)
Start == /\ At(Main, "off") /\ starts < MaxStarts
         /\ starts' = starts + 1
         /\ Goto(Main, "pull")
         /\ UNCHANGED <<disk, uuid, keep, contents, newConfig, session, status>>

\* Mutant: the file is opened for writing whatever it holds.
PullTruncating == /\ At(Main, "pull")
                  /\ contents' = IF file = Empty THEN Blank ELSE file
                  /\ file' = Empty
                  /\ Goto(Main, "parse")
                  /\ UNCHANGED <<saved, torn, uuid, keep, newConfig, session, starts, status>>

(* PullConfig: an empty or missing file is replaced by the default one.    *)
Pull == /\ At(Main, "pull")
        /\ IF file = Empty
           THEN file' = Blank /\ saved' = Blank /\ torn' = FALSE
           ELSE UNCHANGED disk
        /\ contents' = file'
        /\ Goto(Main, "parse")
        /\ UNCHANGED <<uuid, keep, newConfig, session, starts, status>>

(* The settings are assigned one by one, until one of them is refused. *)
TakeSettings == /\ uuid' = IF contents \in Parsed /\ contents.uuid \in Users
                           THEN contents.uuid ELSE uuid
                /\ keep' = IF contents \in Accepted /\ contents.keep # Absent
                           THEN contents.keep ELSE keep

\* Mutant: a file that was refused does not stop the start.
ParseRegardless == /\ At(Main, "parse")
                   /\ TakeSettings
                   /\ Goto(Main, "update")
                   /\ UNCHANGED <<disk, contents, newConfig, session, starts, status>>

\* Mutant: the file is not brought up to date after it was pulled.
ParseOnly == /\ At(Main, "parse")
             /\ TakeSettings
             /\ Goto(Main, IF contents \in Refused THEN "fatal" ELSE "up")
             /\ UNCHANGED <<disk, contents, newConfig, session, starts, status>>

(* Invalid JSON, an invalid uuid and a setting of the wrong type all end   *)
(* the start ("Unable to continue.").                                      *)
Parse == /\ At(Main, "parse")
         /\ TakeSettings
         /\ Goto(Main, IF contents \in Refused THEN "fatal" ELSE "update")
         /\ UNCHANGED <<disk, contents, newConfig, session, starts, status>>

(* UpdateConfig: collect, truncate, write.  Main goes on to Open(), a      *)
(* worker to its next message.                                             *)
Collect(t) == /\ At(t, "update")
              /\ newConfig' = [newConfig EXCEPT ![t] = [uuid |-> uuid, keep |-> keep]]
              /\ Goto(t, "open")
              /\ UNCHANGED <<disk, uuid, keep, contents, session, starts, status>>

Truncate(t) == /\ At(t, "open")
               /\ file' = Empty
               /\ Goto(t, "write")
               /\ UNCHANGED <<saved, torn, uuid, keep, contents, newConfig, session, starts, status>>

WriteBack(t) == /\ At(t, "write")
                /\ file' = newConfig[t] /\ saved' = newConfig[t] /\ torn' = FALSE
                /\ newConfig' = [newConfig EXCEPT ![t] = Blank]
                /\ Goto(t, IF t = Main THEN "up" ELSE "reading")
                /\ UNCHANGED <<uuid, keep, contents, session, starts, status>>

-----------------------------------------------------------------------------
(* Open() has started a worker and its connection is up. *)
Connect(w) == /\ At(Main, "up") /\ pc[w] = "off"
              /\ overlapped' = (overlapped \/ Alive # {})
              /\ Goto(w, "announce")
              /\ UNCHANGED <<disk, uuid, keep, contents, newConfig, awaiting, crossed, blanked,
                             starts, status>>

\* Mutant: every connection registers a new user.
AnnounceNew(w) == /\ At(w, "announce")
                  /\ Goto(w, "ask")
                  /\ UNCHANGED <<disk, uuid, keep, contents, newConfig, session, starts, status>>

\* Mutant: a user without a uuid checks in, a user with one registers.
AnnounceSwapped(w) == /\ At(w, "announce")
                      /\ Goto(w, IF uuid = NoUuid THEN "reading" ELSE "ask")
                      /\ UNCHANGED <<disk, uuid, keep, contents, newConfig, session, starts, status>>

(* handle_open: registeruser without a uuid, checkin with one. *)
Announce(w) == /\ At(w, "announce")
               /\ Goto(w, IF uuid = NoUuid THEN "ask" ELSE "reading")
               /\ UNCHANGED <<disk, uuid, keep, contents, newConfig, session, starts, status>>

(* The registration goes to the connection that Send() finds: none if the  *)
(* pointer was cleared, another one if that was published since.           *)
Ask(w) == /\ At(w, "ask")
          /\ \/ awaiting' = awaiting
             \/ \E v \in Alive :
                  (overlapped \/ v = w) /\ awaiting' = awaiting \cup {v}
          /\ Goto(w, "reading")
          /\ UNCHANGED <<disk, uuid, keep, contents, newConfig, history, starts, status>>

(* setuuid arrives, as the answer to a registration or by itself.          *)
ReceiveUuid(w) == /\ At(w, "reading")
                  /\ awaiting' = awaiting \ {w}
                  /\ crossed' = (crossed \/ \E v \in Workers \ {w} : pc[v] \in Changing)
                  /\ Goto(w, "assign")
                  /\ UNCHANGED <<disk, uuid, keep, contents, newConfig, overlapped, blanked,
                                 starts, status>>

(* Whatever string the server sent is taken: validUUID is not asked.       *)
Assign(w) == /\ At(w, "assign")
             /\ uuid' \in Strings
             /\ blanked' = (blanked \/ uuid' = NoUuid)
             /\ Goto(w, "update")
             /\ UNCHANGED <<disk, keep, contents, newConfig, awaiting, overlapped, crossed,
                            starts, status>>

(* A connection ends between two of its handlers. *)
Disconnect(w) == /\ At(w, "reading")
                 /\ awaiting' = awaiting \ {w}
                 /\ Goto(w, "off")
                 /\ UNCHANGED <<disk, uuid, keep, contents, newConfig, history, starts, status>>

-----------------------------------------------------------------------------
(* The std::string Chat::uuid is read (by Main, up, to send a user's line) *)
(* or assigned while a worker assigns it.                                  *)
Race(t) == /\ status = "running" /\ pc[t] \in {"up", "announce", "assign", "update"}
           /\ \E w \in Workers \ {t} : pc[w] = "assign"
           /\ status' = "undefined"
           /\ UNCHANGED <<disk, uuid, keep, pc, contents, newConfig, session, starts>>

(* The game is quit, or the process is killed. *)
End == /\ status = "running" /\ pc[Main] # "off"
       /\ torn' = (torn \/ \E t \in Threads : pc[t] = "write")
       /\ uuid' = NoUuid /\ keep' = FALSE
       /\ pc' = [t \in Threads |-> "off"]
       /\ contents' = Empty
       /\ newConfig' = [t \in Threads |-> Blank]
       /\ awaiting' = {} /\ overlapped' = FALSE /\ crossed' = FALSE /\ blanked' = FALSE
       /\ UNCHANGED <<file, saved, starts, status>>

(* Between two runs the user, or an older version, changes the file. *)
UserEdits == /\ At(Main, "off")
             /\ file' \in Parsed \cup {Empty, Malformed}
             /\ saved' = file' /\ torn' = FALSE
             /\ UNCHANGED <<uuid, keep, pc, contents, newConfig, session, starts, status>>

Save(t) == Collect(t) \/ Truncate(t) \/ WriteBack(t)
StartStep == Pull \/ Parse

Next == \/ Start \/ StartStep \/ End \/ UserEdits
        \/ \E t \in Threads : Save(t) \/ Race(t)
        \/ \E w \in Workers : \/ Connect(w) \/ Announce(w) \/ Ask(w) \/ ReceiveUuid(w)
                              \/ Assign(w) \/ Disconnect(w)

Spec == Init /\ [][Next]_vars

-----------------------------------------------------------------------------
(* What was last written completely, or left by the user, is what the next *)
(* start reads: only a process that ends between the truncation and the    *)
(* write of UpdateConfig loses it (helper.cpp:333-335).                    *)
KeptUnlessTorn == (\A t \in Threads : pc[t] # "write") /\ ~torn => file = saved

(* Once the program is up and no thread is storing an identity, the file   *)
(* holds what the memory holds, settings added by an update included       *)
(* (helper.cpp:322), unless one setuuid arrived while another thread was   *)
(* still storing the one before (Websocket.cpp:45-47).                     *)
Settled == pc[Main] = "up" /\ ~crossed /\ \A t \in Threads : pc[t] \notin Saving
FileIsCurrent == Settled => file = [uuid |-> uuid, keep |-> keep]

(* A file that PullConfig refuses is left to the user: the start that      *)
(* finds it overwrites it at no step (helper.cpp:297-303, 309-317).        *)
FoundRefused == \/ pc[Main] = "pull" /\ file \in Refused
                \/ pc[Main] # "off" /\ contents \in Refused
RefusedFileKept == [][FoundRefused => file' = file]_vars

(* Only a new user is registered: a connection asks for a uuid only if the *)
(* file that was pulled had none, however connections overlap and whatever *)
(* uuids the server gives, unless it gives the empty one; and if it asks,  *)
(* the memory has none either, unless connections overlapped               *)
(* (Websocket.cpp:61-63).                                                  *)
RegistersOnlyNew == \A w \in Workers :
                      pc[w] = "ask" => /\ contents.uuid = NoUuid \/ blanked
                                       /\ uuid = NoUuid \/ overlapped
=============================================================================
