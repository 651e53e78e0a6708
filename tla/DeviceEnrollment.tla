-------------------------- MODULE DeviceEnrollment --------------------------
(***************************************************************************)
(* How endpoint agents enrol and report                                    *)
(* (apps/api/src/endpoint-devices over endpoint_devices, and               *)
(* apps/endpoint-agent).  A run of the agent (a tick of its daemon or its  *)
(* command line) reads the config file of its machine, registers for a     *)
(* device token when the file has none, and then posts a heartbeat and     *)
(* snapshots with it.  Every registration issues a new token, and the      *)
(* device's row knows only one.  The row is read, and saved a few awaits   *)
(* later by an upsert that also writes back what was read.                 *)
(*                                                                         *)
(* The agent waits for its answers without a timeout.  Machines cloned     *)
(* from one image have the same device key.  One tenant; commands and      *)
(* their results are in ToolExecution.                                     *)
(***************************************************************************)
EXTENDS Naturals

CONSTANTS
  Keys,       \* device keys
  Machines,   \* machines with an agent
  KeyOf,      \* the device key of each machine
  Runs,       \* bound: runs of the agent under way at one time
  MachineOf,  \* the machine of each run
  Calls,      \* bound: requests the API is working on at one time
  MaxTokens,  \* bound: registrations, which number the tokens
  MaxFaults   \* bound: deaths of agent runs and of the API

ASSUME EnrollmentAssumption ==
  /\ KeyOf \in [Machines -> Keys] /\ MachineOf \in [Runs -> Machines]
  /\ MaxTokens \in Nat /\ MaxFaults \in Nat
  /\ "none" \notin Calls \cup Runs \cup Keys

\* A device token; 0 is the token nobody has, the empty column.
Tokens == 1..MaxTokens

\* The columns of a device's row.  id, and fingerprint and enrolledAt with it,
\* are those of the registration that created the row.
Device == [id : Tokens, token : Tokens]

NoDevice == [id |-> 0, token |-> 0]

\* The next statement of a request; "replied" and "refused" await the agent.
Stages == {"lookUp", "record", "find", "upsert", "snapshot", "replied", "refused"}

\* device: the id of the row as read.  found: the token that a save without one
\* of its own read before it writes.
Call ==
  [stage : Stages, op : {"register", "heartbeat", "snapshot"}, key : Keys, token : Tokens,
   device : Tokens \cup {0}, found : Tokens \cup {0}, run : Runs \cup {"none"}]

NoCall == [stage |-> "free"]

Run ==
  [at : {"idle", "loaded", "waiting", "saving", "reported"},
   mode : {"run", "register", "heartbeat"}, token : Tokens \cup {0},
   call : Calls \cup {"none"}]

IdleRun == [at |-> "idle", mode |-> "run", token |-> 0, call |-> "none"]

VARIABLES
  rows,    \* endpoint_devices, unique by device key
  reports, \* endpoint_heartbeats and endpoint_diagnostic_snapshots
  config,  \* the device token in the config file of each machine
  runs,    \* the agent runs
  calls,   \* the requests the API is working on
  issued,  \* history: of each token its key, and whether it was saved and alone
  faults   \* history: the number of faults

vars == <<rows, reports, config, runs, calls, issued, faults>>

NotIssued == [key |-> "none", saved |-> FALSE, lone |-> FALSE]

Init ==
  /\ rows = [k \in Keys |-> NoDevice]
  /\ reports = {}
  /\ config = [m \in Machines |-> 0]
  /\ runs = [r \in Runs |-> IdleRun]
  /\ calls = [c \in Calls |-> NoCall]
  /\ issued = [t \in Tokens |-> NotIssued]
  /\ faults = 0

-----------------------------------------------------------------------------
(* The agent. *)

\* The requests of a key that may still read or save its row.
Open(k) ==
  {c \in Calls : calls[c].stage \notin {"free", "replied", "refused"} /\ calls[c].key = k}

\* history: a request that overlaps a registration of its key leaves neither alone.
Crossed(k) ==
  [t \in Tokens |->
     [issued[t] EXCEPT !.lone = @ /\ \A c \in Open(k) :
                                       calls[c].op = "register" => calls[c].token # t]]

\* Slots are alike: a request takes one that is free.
Arrives(c, r, op, k, t) ==
  /\ calls[c] = NoCall /\ c = CHOOSE d \in Calls : calls[d] = NoCall
  /\ calls' = [calls EXCEPT ![c] =
       [stage |-> "lookUp", op |-> op, key |-> k, token |-> t, device |-> 0, found |-> 0,
        run |-> r]]
  /\ runs' = [runs EXCEPT ![r].at = "waiting", ![r].call = c]

Key(r) == KeyOf[MachineOf[r]]

\* loadConfig, at the start of a tick, of --register or of --heartbeat.
LoadConfig(r, mode) ==
  /\ runs[r].at = "idle"
  /\ ~(mode = "register" /\ config[MachineOf[r]] # 0)
  /\ ~(mode = "heartbeat" /\ config[MachineOf[r]] = 0)
  /\ runs' = [runs EXCEPT ![r] =
       [at |-> "loaded", mode |-> mode, token |-> config[MachineOf[r]], call |-> "none"]]
  /\ UNCHANGED <<rows, reports, config, calls, issued, faults>>

Register(r, c, t) ==
  /\ runs[r].at = "loaded" /\ runs[r].token = 0
  /\ issued[t] = NotIssued /\ \A u \in Tokens : u < t => issued[u] # NotIssued
  /\ Arrives(c, r, "register", Key(r), t)
  /\ issued' = [Crossed(Key(r)) EXCEPT ![t] =
       [key |-> Key(r), saved |-> FALSE, lone |-> Open(Key(r)) = {}]]
  /\ UNCHANGED <<rows, reports, config, faults>>

Heartbeat(r, c) ==
  /\ runs[r].at = "loaded" /\ runs[r].token # 0
  /\ Arrives(c, r, "heartbeat", Key(r), runs[r].token)
  /\ issued' = Crossed(Key(r))
  /\ UNCHANGED <<rows, reports, config, faults>>

\* A tick that claimed a diagnostic posts what it collected.
Snapshot(r, c) ==
  /\ runs[r].at = "reported" /\ runs[r].mode = "run"
  /\ Arrives(c, r, "snapshot", Key(r), runs[r].token)
  /\ issued' = Crossed(Key(r))
  /\ UNCHANGED <<rows, reports, config, faults>>

\* The answer to a registration: writeFile first empties the file.
TokenArrives(r) ==
  /\ runs[r].at = "waiting"
  /\ LET c == calls[runs[r].call] IN
       /\ c.stage = "replied" /\ c.op = "register"
       /\ runs' = [runs EXCEPT ![r].at = "saving", ![r].token = c.token, ![r].call = "none"]
  /\ config' = [config EXCEPT ![MachineOf[r]] = 0]
  /\ calls' = [calls EXCEPT ![runs[r].call] = NoCall]
  /\ UNCHANGED <<rows, reports, issued, faults>>

SaveConfig(r) ==
  /\ runs[r].at = "saving"
  /\ config' = [config EXCEPT ![MachineOf[r]] = runs[r].token]
  /\ runs' = [runs EXCEPT ![r] = IF runs[r].mode = "run" THEN [runs[r] EXCEPT !.at = "loaded"]
                                 ELSE IdleRun]
  /\ UNCHANGED <<rows, reports, calls, issued, faults>>

\* The answer to a heartbeat or a snapshot.
ReportAccepted(r) ==
  /\ runs[r].at = "waiting"
  /\ calls[runs[r].call].stage = "replied" /\ calls[runs[r].call].op # "register"
  /\ runs' = [runs EXCEPT ![r] = IF calls[runs[r].call].op = "heartbeat"
                                 THEN [@ EXCEPT !.at = "reported", !.call = "none"]
                                 ELSE IdleRun]
  /\ calls' = [calls EXCEPT ![runs[r].call] = NoCall]
  /\ UNCHANGED <<rows, reports, config, issued, faults>>

\* No command to run, or one whose result is not a diagnostic.
Finish(r) ==
  /\ runs[r].at = "reported"
  /\ runs' = [runs EXCEPT ![r] = IdleRun]
  /\ UNCHANGED <<rows, reports, config, calls, issued, faults>>

\* An error ends the run; the next one starts from the config file.
GiveUp(r) ==
  /\ runs[r].at = "waiting" /\ calls[runs[r].call].stage = "refused"
  /\ runs' = [runs EXCEPT ![r] = IdleRun]
  /\ calls' = [calls EXCEPT ![runs[r].call] = NoCall]
  /\ UNCHANGED <<rows, reports, config, issued, faults>>

\* The process dies, or loses its connection: the API keeps working.
RunDies(r) ==
  /\ faults < MaxFaults /\ runs[r].at # "idle"
  /\ faults' = faults + 1
  /\ runs' = [runs EXCEPT ![r] = IdleRun]
  /\ calls' = IF runs[r].at # "waiting" THEN calls
              ELSE IF calls[runs[r].call].stage \in {"replied", "refused"}
              THEN [calls EXCEPT ![runs[r].call] = NoCall]
              ELSE [calls EXCEPT ![runs[r].call].run = "none"]
  /\ UNCHANGED <<rows, reports, config, issued>>

-----------------------------------------------------------------------------
(* The API. *)

Step(c, changed) == calls' = [calls EXCEPT ![c] = changed]

\* What is left of a request without an agent that waits for its answer.
Ended(call, stage) == IF call.run = "none" THEN NoCall ELSE [call EXCEPT !.stage = stage]

\* registerDevice: the row of the key, or a new one.
LookUpDevice(c) ==
  /\ calls[c].stage = "lookUp" /\ calls[c].op = "register"
  /\ LET row == rows[calls[c].key] IN
       Step(c, [calls[c] EXCEPT !.stage = "find",
                  !.device = IF row = NoDevice THEN calls[c].token ELSE row.id])
  /\ UNCHANGED <<rows, reports, config, runs, issued, faults>>

\* authenticateAgent.  A heartbeat is recorded next, then the device is saved
\* as it was read here.
Authenticate(c) ==
  /\ calls[c].stage = "lookUp" /\ calls[c].op # "register"
  /\ LET next == IF calls[c].op = "heartbeat" THEN "record" ELSE "snapshot" IN
       Step(c, IF rows[calls[c].key].token = calls[c].token
               THEN [calls[c] EXCEPT !.stage = next, !.device = rows[calls[c].key].id]
               ELSE Ended(calls[c], "refused"))
  /\ UNCHANGED <<rows, reports, config, runs, issued, faults>>

\* saveEndpointHeartbeat.
RecordHeartbeat(c) ==
  /\ calls[c].stage = "record"
  /\ reports' = reports \cup
       {[kind |-> "heartbeat", key |-> calls[c].key, device |-> calls[c].device]}
  /\ Step(c, [calls[c] EXCEPT !.stage = "find"])
  /\ UNCHANGED <<rows, config, runs, issued, faults>>

\* Variant: the save does not read the row first.
FindNothing(c) ==
  /\ calls[c].stage = "find"
  /\ Step(c, [calls[c] EXCEPT !.stage = "upsert"])
  /\ UNCHANGED <<rows, reports, config, runs, issued, faults>>

\* saveEndpointDevice reads the row by id, for its token.
FindDevice(c) ==
  /\ calls[c].stage = "find"
  /\ Step(c, [calls[c] EXCEPT !.stage = "upsert",
                !.found = IF calls[c].op = "heartbeat" /\ rows[calls[c].key].id = calls[c].device
                          THEN rows[calls[c].key].token ELSE 0])
  /\ UNCHANGED <<rows, reports, config, runs, issued, faults>>

\* Variant: a device that has a token keeps it.
UpsertKeepsToken(c) ==
  /\ calls[c].stage = "upsert"
  /\ LET call == calls[c]
         row  == rows[call.key]
     IN IF row = NoDevice \/ row.id = call.device
        THEN /\ rows' = [rows EXCEPT ![call.key] =
                  IF row = NoDevice THEN [id |-> call.device, token |-> call.token] ELSE row]
             /\ IF call.op = "register"
                THEN /\ issued' = [issued EXCEPT ![call.token].saved = TRUE]
                     /\ Step(c, [call EXCEPT !.stage = "snapshot"])
                ELSE /\ Step(c, Ended(call, "replied"))
                     /\ UNCHANGED issued
        ELSE /\ Step(c, Ended(call, "refused"))
             /\ UNCHANGED <<rows, issued>>
  /\ UNCHANGED <<reports, config, runs, faults>>

\* Variant: the upsert is by device key, and takes the id of the later create.
UpsertByKey(c) ==
  /\ calls[c].stage = "upsert"
  /\ LET call == calls[c] IN
       /\ rows' = [rows EXCEPT ![call.key] =
            [id |-> call.device,
             token |-> IF call.op = "register" THEN call.token ELSE call.found]]
       /\ IF call.op = "register"
          THEN /\ issued' = [issued EXCEPT ![call.token].saved = TRUE]
               /\ Step(c, [call EXCEPT !.stage = "snapshot"])
          ELSE /\ Step(c, Ended(call, "replied"))
               /\ UNCHANGED issued
  /\ UNCHANGED <<reports, config, runs, faults>>

\* Variant: a create that finds the device there is answered as done.
UpsertIgnoresDuplicate(c) ==
  /\ calls[c].stage = "upsert" /\ calls[c].op = "register"
  /\ LET call == calls[c]
         row  == rows[call.key]
     IN IF row = NoDevice \/ row.id = call.device
        THEN /\ rows' = [rows EXCEPT ![call.key] = [id |-> call.device, token |-> call.token]]
             /\ issued' = [issued EXCEPT ![call.token].saved = TRUE]
        ELSE UNCHANGED <<rows, issued>>
  /\ Step(c, [calls[c] EXCEPT !.stage = "snapshot"])
  /\ UNCHANGED <<reports, config, runs, faults>>

\* The upsert by id, of which the unique index on the device key fails the
\* create when another registration came first.
UpsertDevice(c) ==
  /\ calls[c].stage = "upsert"
  /\ LET call == calls[c]
         row  == rows[call.key]
         new  == [id |-> call.device,
                  token |-> IF call.op = "register" THEN call.token ELSE call.found]
     IN IF row = NoDevice \/ row.id = new.id
        THEN /\ rows' = [rows EXCEPT ![call.key] = new]
             /\ IF call.op = "register"
                THEN /\ issued' = [issued EXCEPT ![call.token].saved = TRUE]
                     /\ Step(c, [call EXCEPT !.stage = "snapshot"])
                ELSE /\ Step(c, Ended(call, "replied"))
                     /\ UNCHANGED issued
        ELSE /\ Step(c, Ended(call, "refused"))
             /\ UNCHANGED <<rows, issued>>
  /\ UNCHANGED <<reports, config, runs, faults>>

\* saveSnapshotForDevice: the inventory sent with a registration, or a diagnostic.
SaveSnapshot(c) ==
  /\ calls[c].stage = "snapshot"
  /\ reports' = reports \cup
       {[kind |-> "snapshot", key |-> calls[c].key, device |-> calls[c].device]}
  /\ Step(c, Ended(calls[c], "replied"))
  /\ UNCHANGED <<rows, config, runs, issued, faults>>

\* The agents that wait for the API get an error.
ApiDies ==
  /\ faults < MaxFaults /\ \E k \in Keys : Open(k) # {}
  /\ faults' = faults + 1
  /\ calls' = [c \in Calls |-> IF calls[c].stage \in {"free", "replied", "refused"}
                               THEN calls[c] ELSE Ended(calls[c], "refused")]
  /\ UNCHANGED <<rows, reports, config, runs, issued>>

-----------------------------------------------------------------------------
AgentStep(r) ==
  \/ \E mode \in {"run", "register", "heartbeat"} : LoadConfig(r, mode)
  \/ \E c \in Calls, t \in Tokens : Register(r, c, t)
  \/ \E c \in Calls : Heartbeat(r, c)
  \/ \E c \in Calls : Snapshot(r, c)
  \/ TokenArrives(r)
  \/ SaveConfig(r)
  \/ ReportAccepted(r)
  \/ Finish(r)
  \/ GiveUp(r)
  \/ RunDies(r)

ApiStep(c) ==
  \/ LookUpDevice(c)
  \/ Authenticate(c)
  \/ RecordHeartbeat(c)
  \/ FindDevice(c)
  \/ UpsertDevice(c)
  \/ SaveSnapshot(c)

Next ==
  \/ \E r \in Runs : AgentStep(r)
  \/ \E c \in Calls : ApiStep(c)
  \/ ApiDies

Spec == Init /\ [][Next]_vars

\* A run that has begun goes on, and the interval of a daemon starts another.
Proceeds(r) ==
  /\ WF_vars(LoadConfig(r, "run"))
  /\ WF_vars(\E c \in Calls : (\E t \in Tokens : Register(r, c, t)) \/ Heartbeat(r, c))
  /\ WF_vars(TokenArrives(r) \/ SaveConfig(r) \/ ReportAccepted(r) \/ Finish(r) \/ GiveUp(r))

FairSpec ==
  /\ Spec
  /\ \A r \in Runs : Proceeds(r)
  /\ \A c \in Calls : WF_vars(ApiStep(c))

-----------------------------------------------------------------------------
(* Properties. *)

\* Rows, requests and agent runs have their types: no save, however stale what
\* it read, leaves a device with an empty token or a report of no device.
TypeOK ==
  /\ rows \in [Keys -> Device \cup {NoDevice}]
  /\ reports \subseteq [kind : {"heartbeat", "snapshot"}, key : Keys, device : Tokens]
  /\ config \in [Machines -> Tokens \cup {0}]
  /\ runs \in [Runs -> Run]
  /\ calls \in [Calls -> Call \cup {NoCall}]
  /\ issued \in [Tokens -> [key : Keys \cup {"none"}, saved : BOOLEAN, lone : BOOLEAN]]
  /\ faults \in 0..MaxFaults

\* The tokens of a key that a registration saved.
Saved(k) == {t \in Tokens : issued[t].key = k /\ issued[t].saved}

\* The one of the registration that began last, if any.
Newest(k) == {t \in Saved(k) : \A u \in Saved(k) : u <= t}

\* The token of a registration that no other request of its key overlapped is
\* the one the row knows until a later registration saves its own: no
\* heartbeat writes an earlier one back.  Requests that do overlap it may, and
\* then the agent that holds the token is refused from then on.
TokenStands ==
  \A k \in Keys : \A t \in Newest(k) : issued[t].lone => rows[k].token = t

\* An agent never keeps a token the API did not save, although the API and the
\* agent may die between any two steps of a registration.
KeptTokenWasSaved ==
  \A m \in Machines : config[m] # 0 => config[m] \in Saved(KeyOf[m])

\* Every heartbeat and snapshot ever stored is of the device the key has now:
\* of two first registrations one creates the device, and neither that nor a
\* later registration replaces it.
ReportsOfTheDevice == \A x \in reports : rows[x.key].id = x.device

\* Some agent of every key reports again and again, whatever died before,
\* unless a registration of the key was overlapped.
AgentsReport ==
  \A k \in Keys :
    \/ []<>(\E r \in Runs : runs[r].at = "reported" /\ Key(r) = k)
    \/ <>(\E t \in Tokens : issued[t].key = k /\ ~issued[t].lone)

=============================================================================
