----------------------- MODULE DeviceEnrollmentProofs -----------------------
(***************************************************************************)
(* Theorems of DeviceEnrollment, for every set of machines, keys, runs and *)
(* requests.                                                               *)
(*                                                                         *)
(* Sound says what a request knows at each of its stages: after the        *)
(* authentication there is a row and its id is the one that was read,      *)
(* after the upsert the token is saved.  Fresh says what the overlaps do   *)
(* to TokenStands: a registration that is still to save is older only than *)
(* registrations it overlapped, and what a heartbeat found is the token    *)
(* that stands, unless a registration overlapped it.                       *)
(***************************************************************************)
EXTENDS DeviceEnrollment, TLAPS

-----------------------------------------------------------------------------
(* The invariant *)

AtDevice(q) == rows[q.key] # NoDevice /\ rows[q.key].id = q.device

\* What holds of a request at its stage.
CallSound(q) ==
  /\ q.stage = "record" => q.op = "heartbeat"
  /\ q.stage \in {"find", "upsert"} => q.op \in {"register", "heartbeat"}
  /\ q.stage = "snapshot" => q.op \in {"register", "snapshot"}
  /\ q.op = "register" => issued[q.token].key = q.key
  /\ q.op = "register" /\ q.stage \in {"find", "upsert"} => q.device # 0
  /\ q.op = "register" /\ q.stage \in {"snapshot", "replied"} => issued[q.token].saved
  /\ q.op = "heartbeat" /\ q.stage \in {"record", "find", "upsert"} => AtDevice(q)
  /\ q.op = "heartbeat" /\ q.stage = "upsert" => q.found # 0
  /\ q.stage = "snapshot" => AtDevice(q)

CallsSound == \A c \in Calls : calls[c] # NoCall => CallSound(calls[c])

\* A run that waits and the request it waits for know each other.
CallsLinked ==
  \A c \in Calls :
    calls[c] # NoCall /\ calls[c].run # "none" =>
      runs[calls[c].run].at = "waiting" /\ runs[calls[c].run].call = c

RunSound(r) ==
  /\ runs[r].at = "waiting" =>
       /\ runs[r].call \in Calls /\ calls[runs[r].call] # NoCall
       /\ calls[runs[r].call].run = r /\ calls[runs[r].call].key = Key(r)
       /\ calls[runs[r].call].op # "register" => runs[r].token # 0
  /\ runs[r].at = "saving" => runs[r].token \in Saved(Key(r))
  /\ runs[r].at = "reported" => runs[r].token # 0

RunsSound == \A r \in Runs : RunSound(r)

Sound ==
  /\ TypeOK /\ CallsSound /\ CallsLinked /\ RunsSound
  /\ KeptTokenWasSaved /\ ReportsOfTheDevice

\* Tokens are issued in order.
InOrder ==
  /\ \A t \in Tokens : issued[t].key = "none" => ~issued[t].saved /\ ~issued[t].lone
  /\ \A t, u \in Tokens : u < t /\ issued[t].key # "none" => issued[u].key # "none"

Overlaps ==
  \A k \in Keys : \A c, d \in Open(k) :
    c # d /\ calls[d].op = "register" => ~issued[calls[d].token].lone

\* A registration that is still to save was overlapped by every later one.
LateSaves ==
  \A c \in Calls :
    calls[c].stage \in {"lookUp", "find", "upsert"} /\ calls[c].op = "register" =>
      \A t \in Tokens :
        t > calls[c].token /\ issued[t].key = calls[c].key => ~issued[t].lone

FoundStands ==
  \A c \in Calls :
    calls[c].stage = "upsert" /\ calls[c].op = "heartbeat" =>
      \A t \in Newest(calls[c].key) : issued[t].lone => calls[c].found = t

Fresh == InOrder /\ Overlaps /\ LateSaves /\ FoundStands /\ TokenStands

IInv == Sound /\ Fresh

-----------------------------------------------------------------------------
(* Records *)

\* A call is free or a request at one of its stages.
LEMMA CallForms ==
  ASSUME TypeOK, NEW c \in Calls
  PROVE  /\ calls[c].stage = "free" <=> calls[c] = NoCall
         /\ calls[c] # NoCall => calls[c] \in Call /\ calls[c].stage \in Stages
BY DEF TypeOK, Call, NoCall, Stages

\* A key has no device or one with an id and a token.
LEMMA RowForms ==
  ASSUME TypeOK, NEW k \in Keys
  PROVE  /\ rows[k] = NoDevice <=> rows[k].id = 0
         /\ rows[k] # NoDevice => rows[k].id \in Tokens /\ rows[k].token \in Tokens
         /\ 0 \notin Tokens
BY DEF TypeOK, Device, NoDevice, Tokens

\* A request that arrives takes a free slot, and its run waits for it.
LEMMA ArrivesFacts ==
  ASSUME TypeOK, NEW r \in Runs, NEW c \in Calls, NEW t \in Tokens,
         NEW op \in {"register", "heartbeat", "snapshot"}, Arrives(c, r, op, Key(r), t)
  PROVE  /\ calls[c] = NoCall
         /\ calls'[c] \in Call /\ calls'[c].stage = "lookUp" /\ calls'[c].op = op
         /\ calls'[c].key = Key(r) /\ calls'[c].token = t /\ calls'[c].run = r
         /\ calls' \in [Calls -> Call \cup {NoCall}]
         /\ \A d \in Calls : d # c => calls'[d] = calls[d]
         /\ runs' \in [Runs -> Run]
         /\ runs'[r].at = "waiting" /\ runs'[r].call = c /\ runs'[r].token = runs[r].token
         /\ \A s \in Runs : s # r => runs'[s] = runs[s]
<1> DEFINE q == [stage |-> "lookUp", op |-> op, key |-> Key(r), token |-> t, device |-> 0,
                 found |-> 0, run |-> r]
           n == [runs[r] EXCEPT !.at = "waiting", !.call = c]
<1>1. q \in Call
  BY EnrollmentAssumption DEF Call, Stages, Key
<1>2. n \in Run /\ n.at = "waiting" /\ n.call = c /\ n.token = runs[r].token
  BY DEF TypeOK, Run
<1>3. calls' = [calls EXCEPT ![c] = q] /\ calls[c] = NoCall
  BY DEF Arrives
<1>4. runs' = [runs EXCEPT ![r] = n]
  BY DEF Arrives, TypeOK, Run
<1> HIDE DEF n
<1> QED  BY <1>1, <1>2, <1>3, <1>4 DEF TypeOK

\* A step of one request leaves the others alone.
LEMMA StepFacts ==
  ASSUME TypeOK, NEW c \in Calls, NEW q \in Call \cup {NoCall}, Step(c, q)
  PROVE  /\ calls' \in [Calls -> Call \cup {NoCall}]
         /\ calls'[c] = q
         /\ \A d \in Calls : d # c => calls'[d] = calls[d]
BY DEF TypeOK, Step

\* A step of one run leaves the others alone.
LEMMA RunFacts ==
  ASSUME TypeOK, NEW r \in Runs, NEW n \in Run, runs' = [runs EXCEPT ![r] = n]
  PROVE  /\ runs' \in [Runs -> Run]
         /\ runs'[r] = n
         /\ \A s \in Runs : s # r => runs'[s] = runs[s]
BY DEF TypeOK

\* Without a run to answer to, a request ends without a trace.
LEMMA EndedFacts ==
  ASSUME NEW q \in Call, NEW s \in Stages
  PROVE  /\ Ended(q, s) \in Call \cup {NoCall}
         /\ Ended(q, s) = NoCall \/ Ended(q, s) = [q EXCEPT !.stage = s]
         /\ q.run # "none" => Ended(q, s) = [q EXCEPT !.stage = s]
BY DEF Call, Ended

\* The idle run is typed.
LEMMA IdleTyped == IdleRun \in Run
BY DEF Run, IdleRun

\* An overlap changes what is alone and nothing else.
LEMMA CrossedKeeps ==
  ASSUME TypeOK, NEW k \in Keys, NEW t \in Tokens
  PROVE  /\ Crossed(k)[t] \in [key : Keys \cup {"none"}, saved : BOOLEAN, lone : BOOLEAN]
         /\ Crossed(k)[t].key = issued[t].key
         /\ Crossed(k)[t].saved = issued[t].saved
         /\ Crossed(k)[t].lone =>
              /\ issued[t].lone
              /\ \A c \in Open(k) : calls[c].op = "register" => calls[c].token # t
<1> DEFINE b == issued[t].lone /\ \A c \in Open(k) :
                                    calls[c].op = "register" => calls[c].token # t
<1>1. Crossed(k)[t] = [issued[t] EXCEPT !.lone = b]
  BY DEF Crossed
<1>2. b \in BOOLEAN /\ (b => issued[t].lone)
  OBVIOUS
<1>3. issued[t] \in [key : Keys \cup {"none"}, saved : BOOLEAN, lone : BOOLEAN]
  BY DEF TypeOK
<1>4. b => \A c \in Open(k) : calls[c].op = "register" => calls[c].token # t
  OBVIOUS
<1> HIDE DEF b
<1>5. [issued[t] EXCEPT !.lone = b] \in [key : Keys \cup {"none"}, saved : BOOLEAN, lone : BOOLEAN]
  BY <1>2, <1>3
<1>6. /\ [issued[t] EXCEPT !.lone = b].key = issued[t].key
      /\ [issued[t] EXCEPT !.lone = b].saved = issued[t].saved
      /\ [issued[t] EXCEPT !.lone = b].lone = b
  BY <1>3
<1> QED  BY <1>1, <1>2, <1>4, <1>5, <1>6

\* After an overlap issued has its type.
LEMMA CrossedTyped ==
  ASSUME TypeOK, NEW k \in Keys
  PROVE  Crossed(k) \in [Tokens -> [key : Keys \cup {"none"}, saved : BOOLEAN, lone : BOOLEAN]]
<1>1. Crossed(k) = [t \in Tokens |-> Crossed(k)[t]]
  BY DEF Crossed
<1> QED  BY <1>1, CrossedKeeps

\* A token not issued yet has no key.
LEMMA NotIssuedForm ==
  ASSUME TypeOK, NEW t \in Tokens
  PROVE  issued[t] = NotIssued <=> issued[t].key = "none" /\ ~issued[t].saved /\ ~issued[t].lone
<1>1. issued[t] \in [key : Keys \cup {"none"}, saved : BOOLEAN, lone : BOOLEAN]
  BY DEF TypeOK
<1> DEFINE e == issued[t]
<1>2. e = [key |-> e.key, saved |-> e.saved, lone |-> e.lone]
  BY <1>1
<1>3. e.saved \in BOOLEAN /\ e.lone \in BOOLEAN
  BY <1>1
<1>4. ASSUME e.key = "none", ~e.saved, ~e.lone  PROVE e = NotIssued
  <2>1. e.saved = FALSE /\ e.lone = FALSE
    BY <1>3, <1>4
  <2> QED  BY <1>2, <1>4, <2>1 DEF NotIssued
<1>5. NotIssued.key = "none" /\ ~NotIssued.saved /\ ~NotIssued.lone
  BY DEF NotIssued
<1> QED  BY <1>4, <1>5

\* A run has a machine and a key.
LEMMA KeysTyped ==
  ASSUME NEW r \in Runs
  PROVE  MachineOf[r] \in Machines /\ Key(r) \in Keys
BY EnrollmentAssumption DEF Key

-----------------------------------------------------------------------------
(* Every step keeps Sound *)

\* A run that loads its config holds no call.
LEMMA LoadConfigSound ==
  ASSUME IInv, NEW r \in Runs, NEW mode \in {"run", "register", "heartbeat"}, LoadConfig(r, mode)
  PROVE  Sound'
<1> USE EnrollmentAssumption, CallForms, RowForms DEF IInv, Sound
<1>1. TypeOK'
  BY DEF LoadConfig, TypeOK, Run, IdleRun, Call, NoCall, Device, NoDevice, RunsSound, RunSound
<1>2. CallsSound'
  BY DEF LoadConfig, TypeOK, CallsSound, CallSound, AtDevice, Call, NoCall, IdleRun, Tokens
<1>3. CallsLinked'
  BY DEF LoadConfig, TypeOK, CallsLinked, RunsSound, RunSound, Call, NoCall, IdleRun, Run
<1>4. RunsSound'
  BY DEF LoadConfig, TypeOK, CallsLinked, CallsSound, CallSound, RunsSound, RunSound, Call, NoCall,
       IdleRun, Run, Key, Saved
<1>5. KeptTokenWasSaved'
  BY DEF LoadConfig, TypeOK, KeptTokenWasSaved, Saved, RunsSound, RunSound, Key
<1>6. ReportsOfTheDevice'
  BY DEF LoadConfig, TypeOK, ReportsOfTheDevice, CallsSound, CallSound, AtDevice, NoDevice
<1> QED  BY <1>1, <1>2, <1>3, <1>4, <1>5, <1>6 DEF Sound

\* A registration names a token no call and no row has.
LEMMA RegisterSound ==
  ASSUME IInv, NEW r \in Runs, NEW c \in Calls, NEW t \in Tokens, Register(r, c, t)
  PROVE  Sound'
<1> USE CallForms, RowForms DEF IInv, Sound
<1>a. /\ Arrives(c, r, "register", Key(r), t) /\ runs[r].at = "loaded" /\ issued[t] = NotIssued
      /\ UNCHANGED <<rows, reports, config, faults>>
  BY DEF Register
<1>b. /\ issued' \in [Tokens -> [key : Keys \cup {"none"}, saved : BOOLEAN, lone : BOOLEAN]]
      /\ issued'[t].key = Key(r) /\ issued'[t].saved = FALSE
      /\ \A u \in Tokens : u # t =>
          /\ issued'[u].key = issued[u].key
          /\ issued'[u].saved = issued[u].saved
  BY CrossedTyped, CrossedKeeps, KeysTyped DEF Register
<1>c. issued[t].key = "none" /\ issued[t].saved = FALSE /\ "none" \notin Keys
  BY <1>a, EnrollmentAssumption DEF NotIssued
<1>1. TypeOK'
  BY <1>a, <1>b, ArrivesFacts DEF TypeOK
<1>2. CallsSound'
  <2>1. ASSUME NEW d \in Calls, calls'[d] # NoCall, d # c  PROVE CallSound(calls[d])'
    <3>1. calls'[d] = calls[d] /\ CallSound(calls[d]) /\ calls[d] \in Call
      BY <1>a, <2>1, ArrivesFacts DEF CallsSound
    <3>2. calls[d].op = "register" => calls[d].token # t
      BY <3>1, <1>c DEF CallSound, Call
    <3> QED  BY <3>1, <3>2, <1>a, <1>b DEF CallSound, AtDevice, Call
  <2>2. CallSound(calls[c])'
    BY <1>a, <1>b, ArrivesFacts DEF CallSound
  <2> QED  BY <2>1, <2>2 DEF CallsSound
<1>3. CallsLinked'
  BY <1>a, ArrivesFacts DEF CallsLinked, Call
<1>4. RunsSound'
  <2>1. ASSUME NEW s \in Runs, s # r  PROVE RunSound(s)'
    <3>1. RunSound(s) /\ runs'[s] = runs[s] /\ \A d \in Calls : d # c => calls'[d] = calls[d]
      BY <1>a, <2>1, ArrivesFacts DEF RunsSound
    <3>2. runs[s].at = "waiting" => runs[s].call # c
      BY <3>1, <1>a, ArrivesFacts DEF RunSound
    <3>3. runs[s].token \in Saved(Key(s)) => runs[s].token \in Saved(Key(s))'
      BY <1>b, <1>c, <3>1, KeysTyped DEF Saved, Key
    <3> QED  BY <3>1, <3>2, <3>3 DEF RunSound, Key
  <2>2. RunSound(r)'
    BY <1>a, ArrivesFacts DEF RunSound, Call, NoCall, Stages, Key
  <2> QED  BY <2>1, <2>2 DEF RunsSound
<1>5. KeptTokenWasSaved'
  BY <1>a, <1>b, <1>c DEF KeptTokenWasSaved, Saved
<1>6. ReportsOfTheDevice'
  BY <1>a DEF ReportsOfTheDevice
<1> QED  BY <1>1, <1>2, <1>3, <1>4, <1>5, <1>6 DEF Sound

\* A heartbeat carries the token its run loaded.
LEMMA HeartbeatSound ==
  ASSUME IInv, NEW r \in Runs, NEW c \in Calls, Heartbeat(r, c)
  PROVE  Sound'
<1> USE CallForms, RowForms DEF IInv, Sound
<1>a. /\ Arrives(c, r, "heartbeat", Key(r), runs[r].token) /\ runs[r].at = "loaded"
      /\ runs[r].token \in Tokens
      /\ UNCHANGED <<rows, reports, config, faults>>
  BY DEF Heartbeat, TypeOK, Run, RunsSound, RunSound
<1>b. /\ issued' \in [Tokens -> [key : Keys \cup {"none"}, saved : BOOLEAN, lone : BOOLEAN]]
      /\ \A u \in Tokens : issued'[u].key = issued[u].key /\ issued'[u].saved = issued[u].saved
  BY CrossedTyped, CrossedKeeps, KeysTyped DEF Heartbeat
<1>1. TypeOK'
  BY <1>a, <1>b, ArrivesFacts DEF TypeOK
<1>2. CallsSound'
  <2>1. ASSUME NEW d \in Calls, calls'[d] # NoCall, d # c  PROVE CallSound(calls[d])'
    <3>1. calls'[d] = calls[d] /\ CallSound(calls[d]) /\ calls[d] \in Call
      BY <1>a, <2>1, ArrivesFacts DEF CallsSound
    <3> QED  BY <3>1, <1>a, <1>b DEF CallSound, AtDevice, Call
  <2>2. CallSound(calls[c])'
    BY <1>a, <1>b, ArrivesFacts DEF CallSound
  <2> QED  BY <2>1, <2>2 DEF CallsSound
<1>3. CallsLinked'
  BY <1>a, ArrivesFacts DEF CallsLinked, Call
<1>4. RunsSound'
  <2>1. ASSUME NEW s \in Runs, s # r  PROVE RunSound(s)'
    <3>1. RunSound(s) /\ runs'[s] = runs[s] /\ \A d \in Calls : d # c => calls'[d] = calls[d]
      BY <1>a, <2>1, ArrivesFacts DEF RunsSound
    <3>2. runs[s].at = "waiting" => runs[s].call # c
      BY <3>1, <1>a, ArrivesFacts DEF RunSound
    <3>3. runs[s].token \in Saved(Key(s)) => runs[s].token \in Saved(Key(s))'
      BY <1>b, <3>1, KeysTyped DEF Saved, Key
    <3> QED  BY <3>1, <3>2, <3>3 DEF RunSound, Key
  <2>2. RunSound(r)'
    BY <1>a, ArrivesFacts, RowForms DEF RunSound, Call, NoCall, Stages, Key, Tokens
  <2> QED  BY <2>1, <2>2 DEF RunsSound
<1>5. KeptTokenWasSaved'
  BY <1>a, <1>b DEF KeptTokenWasSaved, Saved
<1>6. ReportsOfTheDevice'
  BY <1>a DEF ReportsOfTheDevice
<1> QED  BY <1>1, <1>2, <1>3, <1>4, <1>5, <1>6 DEF Sound

\* A snapshot carries the token its run reported with.
LEMMA SnapshotSound ==
  ASSUME IInv, NEW r \in Runs, NEW c \in Calls, Snapshot(r, c)
  PROVE  Sound'
<1> USE CallForms, RowForms DEF IInv, Sound
<1>a. /\ Arrives(c, r, "snapshot", Key(r), runs[r].token) /\ runs[r].at = "reported"
      /\ runs[r].token \in Tokens
      /\ UNCHANGED <<rows, reports, config, faults>>
  BY DEF Snapshot, TypeOK, Run, RunsSound, RunSound
<1>b. /\ issued' \in [Tokens -> [key : Keys \cup {"none"}, saved : BOOLEAN, lone : BOOLEAN]]
      /\ \A u \in Tokens : issued'[u].key = issued[u].key /\ issued'[u].saved = issued[u].saved
  BY CrossedTyped, CrossedKeeps, KeysTyped DEF Snapshot
<1>1. TypeOK'
  BY <1>a, <1>b, ArrivesFacts DEF TypeOK
<1>2. CallsSound'
  <2>1. ASSUME NEW d \in Calls, calls'[d] # NoCall, d # c  PROVE CallSound(calls[d])'
    <3>1. calls'[d] = calls[d] /\ CallSound(calls[d]) /\ calls[d] \in Call
      BY <1>a, <2>1, ArrivesFacts DEF CallsSound
    <3> QED  BY <3>1, <1>a, <1>b DEF CallSound, AtDevice, Call
  <2>2. CallSound(calls[c])'
    BY <1>a, <1>b, ArrivesFacts DEF CallSound
  <2> QED  BY <2>1, <2>2 DEF CallsSound
<1>3. CallsLinked'
  BY <1>a, ArrivesFacts DEF CallsLinked, Call
<1>4. RunsSound'
  <2>1. ASSUME NEW s \in Runs, s # r  PROVE RunSound(s)'
    <3>1. RunSound(s) /\ runs'[s] = runs[s] /\ \A d \in Calls : d # c => calls'[d] = calls[d]
      BY <1>a, <2>1, ArrivesFacts DEF RunsSound
    <3>2. runs[s].at = "waiting" => runs[s].call # c
      BY <3>1, <1>a, ArrivesFacts DEF RunSound
    <3>3. runs[s].token \in Saved(Key(s)) => runs[s].token \in Saved(Key(s))'
      BY <1>b, <3>1, KeysTyped DEF Saved, Key
    <3> QED  BY <3>1, <3>2, <3>3 DEF RunSound, Key
  <2>2. RunSound(r)'
    BY <1>a, ArrivesFacts, RowForms DEF RunSound, Call, NoCall, Stages, Key, Tokens
  <2> QED  BY <2>1, <2>2 DEF RunsSound
<1>5. KeptTokenWasSaved'
  BY <1>a, <1>b DEF KeptTokenWasSaved, Saved
<1>6. ReportsOfTheDevice'
  BY <1>a DEF ReportsOfTheDevice
<1> QED  BY <1>1, <1>2, <1>3, <1>4, <1>5, <1>6 DEF Sound

\* The token that arrives was saved: its call is past the upsert.
LEMMA TokenArrivesSound ==
  ASSUME IInv, NEW r \in Runs, TokenArrives(r)
  PROVE  Sound'
<1> USE EnrollmentAssumption, CallForms, RowForms DEF IInv, Sound
<1>1. TypeOK'
  <2>1. runs' \in [Runs -> Run]
    BY DEF TokenArrives, TypeOK, Run, IdleRun, RunsSound, RunSound, Call, NoCall
  <2>2. calls' \in [Calls -> Call \cup {NoCall}]
    BY DEF TokenArrives, TypeOK
  <2> QED  BY <2>1, <2>2, KeysTyped DEF TokenArrives, TypeOK, RunsSound, RunSound, Run
<1>2. CallsSound'
  BY DEF TokenArrives, TypeOK, CallsSound, CallSound, AtDevice, Call, NoCall, IdleRun, Tokens
<1>3. CallsLinked'
  BY DEF TokenArrives, TypeOK, CallsLinked, RunsSound, RunSound, Call, NoCall, IdleRun, Run
<1>4. RunsSound'
  BY DEF TokenArrives, TypeOK, CallsLinked, CallsSound, CallSound, RunsSound, RunSound, Call,
       NoCall, IdleRun, Run, Key, Saved
<1>5. KeptTokenWasSaved'
  BY DEF TokenArrives, TypeOK, KeptTokenWasSaved, Saved, RunsSound, RunSound, Key
<1>6. ReportsOfTheDevice'
  BY DEF TokenArrives, TypeOK, ReportsOfTheDevice, CallsSound, CallSound, AtDevice, NoDevice
<1> QED  BY <1>1, <1>2, <1>3, <1>4, <1>5, <1>6 DEF Sound

\* The file gets the token that arrived.
LEMMA SaveConfigSound ==
  ASSUME IInv, NEW r \in Runs, SaveConfig(r)
  PROVE  Sound'
<1> USE EnrollmentAssumption, CallForms, RowForms DEF IInv, Sound
<1>1. TypeOK'
  <2>1. [runs[r] EXCEPT !.at = "loaded"] \in Run /\ IdleRun \in Run
    BY IdleTyped DEF TypeOK, Run
  <2>2. runs' \in [Runs -> Run]
    <3>1. runs' = [runs EXCEPT ![r] = IF runs[r].mode = "run"
                                      THEN [runs[r] EXCEPT !.at = "loaded"] ELSE IdleRun]
      BY DEF SaveConfig
    <3> QED  BY <2>1, <3>1 DEF TypeOK
  <2> QED  BY <2>2, KeysTyped DEF SaveConfig, TypeOK, Run
<1>2. CallsSound'
  BY DEF SaveConfig, TypeOK, CallsSound, CallSound, AtDevice, Call, NoCall, IdleRun, Tokens
<1>3. CallsLinked'
  BY DEF SaveConfig, TypeOK, CallsLinked, RunsSound, RunSound, Call, NoCall, IdleRun, Run
<1>4. RunsSound'
  BY DEF SaveConfig, TypeOK, CallsLinked, CallsSound, CallSound, RunsSound, RunSound, Call, NoCall,
       IdleRun, Run, Key, Saved
<1>5. KeptTokenWasSaved'
  BY DEF SaveConfig, TypeOK, KeptTokenWasSaved, Saved, RunsSound, RunSound, Key
<1>6. ReportsOfTheDevice'
  BY DEF SaveConfig, TypeOK, ReportsOfTheDevice, CallsSound, CallSound, AtDevice, NoDevice
<1> QED  BY <1>1, <1>2, <1>3, <1>4, <1>5, <1>6 DEF Sound

\* A run that reported has a token.
LEMMA ReportAcceptedSound ==
  ASSUME IInv, NEW r \in Runs, ReportAccepted(r)
  PROVE  Sound'
<1> USE EnrollmentAssumption, CallForms, RowForms DEF IInv, Sound
<1>1. TypeOK'
  <2>1. [runs[r] EXCEPT !.at = "reported", !.call = "none"] \in Run /\ IdleRun \in Run
    BY IdleTyped DEF TypeOK, Run
  <2>2. runs' \in [Runs -> Run]
    <3>1. runs' = [runs EXCEPT ![r] = IF calls[runs[r].call].op = "heartbeat"
                                      THEN [runs[r] EXCEPT !.at = "reported", !.call = "none"]
                                      ELSE IdleRun]
      BY DEF ReportAccepted
    <3> QED  BY <2>1, <3>1 DEF TypeOK
  <2> QED  BY <2>2 DEF ReportAccepted, TypeOK, RunsSound, RunSound
<1>2. CallsSound'
  BY DEF ReportAccepted, TypeOK, CallsSound, CallSound, AtDevice, Call, NoCall, IdleRun, Tokens
<1>3. CallsLinked'
  BY DEF ReportAccepted, TypeOK, CallsLinked, RunsSound, RunSound, Call, NoCall, IdleRun, Run
<1>4. RunsSound'
  BY DEF ReportAccepted, TypeOK, CallsLinked, CallsSound, CallSound, RunsSound, RunSound, Call,
       NoCall, IdleRun, Run, Key, Saved
<1>5. KeptTokenWasSaved'
  BY DEF ReportAccepted, TypeOK, KeptTokenWasSaved, Saved, RunsSound, RunSound, Key
<1>6. ReportsOfTheDevice'
  BY DEF ReportAccepted, TypeOK, ReportsOfTheDevice, CallsSound, CallSound, AtDevice, NoDevice
<1> QED  BY <1>1, <1>2, <1>3, <1>4, <1>5, <1>6 DEF Sound

\* A run may finish at any time after its heartbeat.
LEMMA FinishSound ==
  ASSUME IInv, NEW r \in Runs, Finish(r)
  PROVE  Sound'
<1> USE EnrollmentAssumption, CallForms, RowForms DEF IInv, Sound
<1>1. TypeOK'
  BY DEF Finish, TypeOK, Run, IdleRun, Call, NoCall, Device, NoDevice, RunsSound, RunSound
<1>2. CallsSound'
  BY DEF Finish, TypeOK, CallsSound, CallSound, AtDevice, Call, NoCall, IdleRun, Tokens
<1>3. CallsLinked'
  BY DEF Finish, TypeOK, CallsLinked, RunsSound, RunSound, Call, NoCall, IdleRun, Run
<1>4. RunsSound'
  BY DEF Finish, TypeOK, CallsLinked, CallsSound, CallSound, RunsSound, RunSound, Call, NoCall,
       IdleRun, Run, Key, Saved
<1>5. KeptTokenWasSaved'
  BY DEF Finish, TypeOK, KeptTokenWasSaved, Saved, RunsSound, RunSound, Key
<1>6. ReportsOfTheDevice'
  BY DEF Finish, TypeOK, ReportsOfTheDevice, CallsSound, CallSound, AtDevice, NoDevice
<1> QED  BY <1>1, <1>2, <1>3, <1>4, <1>5, <1>6 DEF Sound

\* A refused run forgets its token; its machine keeps what it had.
LEMMA GiveUpSound ==
  ASSUME IInv, NEW r \in Runs, GiveUp(r)
  PROVE  Sound'
<1> USE EnrollmentAssumption, CallForms, RowForms DEF IInv, Sound
<1>1. TypeOK'
  BY DEF GiveUp, TypeOK, Run, IdleRun, Call, NoCall, Device, NoDevice, RunsSound, RunSound
<1>2. CallsSound'
  BY DEF GiveUp, TypeOK, CallsSound, CallSound, AtDevice, Call, NoCall, IdleRun, Tokens
<1>3. CallsLinked'
  BY DEF GiveUp, TypeOK, CallsLinked, RunsSound, RunSound, Call, NoCall, IdleRun, Run
<1>4. RunsSound'
  BY DEF GiveUp, TypeOK, CallsLinked, CallsSound, CallSound, RunsSound, RunSound, Call, NoCall,
       IdleRun, Run, Key, Saved
<1>5. KeptTokenWasSaved'
  BY DEF GiveUp, TypeOK, KeptTokenWasSaved, Saved, RunsSound, RunSound, Key
<1>6. ReportsOfTheDevice'
  BY DEF GiveUp, TypeOK, ReportsOfTheDevice, CallsSound, CallSound, AtDevice, NoDevice
<1> QED  BY <1>1, <1>2, <1>3, <1>4, <1>5, <1>6 DEF Sound

\* The request of a run that died goes on alone.
LEMMA RunDiesSound ==
  ASSUME IInv, NEW r \in Runs, RunDies(r)
  PROVE  Sound'
<1> USE CallForms, RowForms DEF IInv, Sound
<1>a. /\ UNCHANGED <<rows, reports, config, issued>> /\ faults' \in 0..MaxFaults
      /\ runs' = [runs EXCEPT ![r] = IdleRun]
  BY EnrollmentAssumption DEF RunDies, TypeOK
<1>b. /\ runs' \in [Runs -> Run] /\ runs'[r] = IdleRun
      /\ \A s \in Runs : s # r => runs'[s] = runs[s]
  BY <1>a, IdleTyped, RunFacts
<1>i. IdleRun.at = "idle"
  BY DEF IdleRun
<1>A. CASE runs[r].at # "waiting"
  <2>u. calls' = calls
    BY <1>A DEF RunDies
  <2>1. TypeOK'
    BY <1>a, <1>b, <2>u DEF TypeOK
  <2>2. CallsSound'
    BY <1>a, <2>u DEF CallsSound, CallSound, AtDevice
  <2>3. CallsLinked'
    BY <1>A, <1>b, <2>u DEF CallsLinked, TypeOK, Call
  <2>4. RunsSound'
    BY <1>a, <1>b, <1>i, <2>u DEF RunsSound, RunSound, Saved, Key
  <2>5. KeptTokenWasSaved'
    BY <1>a DEF KeptTokenWasSaved, Saved
  <2>6. ReportsOfTheDevice'
    BY <1>a DEF ReportsOfTheDevice
  <2> QED  BY <2>1, <2>2, <2>3, <2>4, <2>5, <2>6 DEF Sound
<1>B. CASE runs[r].at = "waiting"
  <2>p. PICK c \in Calls : c = runs[r].call
    BY <1>B DEF RunsSound, RunSound
  <2> DEFINE x == IF calls[c].stage \in {"replied", "refused"} THEN NoCall
                  ELSE [calls[c] EXCEPT !.run = "none"]
  <2>c. calls[c] # NoCall /\ calls[c] \in Call /\ calls[c].run = r
    BY <1>B, <2>p DEF RunsSound, RunSound
  <2>x. /\ calls' = [calls EXCEPT ![c] = x]
        /\ x \in Call \cup {NoCall}
        /\ x # NoCall => /\ x.run = "none" /\ x.stage = calls[c].stage /\ x.op = calls[c].op
                         /\ x.key = calls[c].key /\ x.token = calls[c].token
                         /\ x.device = calls[c].device /\ x.found = calls[c].found
    <3>1. CASE calls[c].stage \in {"replied", "refused"}
      BY <1>B, <2>p, <3>1 DEF RunDies
    <3>2. CASE calls[c].stage \notin {"replied", "refused"}
      <4>1. calls' = [calls EXCEPT ![c] = [calls[c] EXCEPT !.run = "none"]]
        BY <1>B, <2>p, <3>2, <2>c DEF RunDies, TypeOK
      <4> QED  BY <3>2, <4>1, <2>c DEF Call
    <3> QED  BY <3>1, <3>2
  <2> HIDE DEF x
  <2>s. /\ calls' \in [Calls -> Call \cup {NoCall}] /\ calls'[c] = x
        /\ \A d \in Calls : d # c => calls'[d] = calls[d]
    BY <2>c, <2>x DEF TypeOK
  <2>1. TypeOK'
    BY <1>a, <1>b, <2>s DEF TypeOK
  <2>2. CallsSound'
    <3>1. ASSUME NEW d \in Calls, calls'[d] # NoCall, d # c  PROVE CallSound(calls[d])'
      BY <2>s, <1>a, <3>1 DEF CallsSound, CallSound, AtDevice
    <3>2. calls'[c] # NoCall => CallSound(calls[c])'
      <4>1. CallSound(calls[c])
        BY <2>c DEF CallsSound
      <4> QED  BY <4>1, <1>a, <2>s, <2>x DEF CallSound, AtDevice
    <3> QED  BY <3>1, <3>2, <2>c DEF CallsSound
  <2>3. CallsLinked'
    BY <1>b, <2>c, <2>x, <2>s DEF CallsLinked, Call
  <2>4. RunsSound'
    BY <1>a, <1>b, <1>i, <2>c, <2>s DEF RunsSound, RunSound, Saved, Key
  <2>5. KeptTokenWasSaved'
    BY <1>a DEF KeptTokenWasSaved, Saved
  <2>6. ReportsOfTheDevice'
    BY <1>a DEF ReportsOfTheDevice
  <2> QED  BY <2>1, <2>2, <2>3, <2>4, <2>5, <2>6 DEF Sound
<1> QED  BY <1>A, <1>B

\* The id a registration goes on with is never empty.
LEMMA LookUpDeviceSound ==
  ASSUME IInv, NEW c \in Calls, LookUpDevice(c)
  PROVE  Sound'
<1> USE CallForms, RowForms DEF IInv, Sound
<1>a. UNCHANGED <<rows, reports, config, runs, issued, faults>>
  BY DEF LookUpDevice
<1> DEFINE row == rows[calls[c].key]
           q == [calls[c] EXCEPT !.stage = "find",
                   !.device = IF row = NoDevice THEN calls[c].token ELSE row.id]
<1>0. calls[c] \in Call /\ calls[c].op = "register" /\ CallSound(calls[c]) /\ calls[c] # NoCall
  BY DEF LookUpDevice, CallsSound, NoCall
<1>q. /\ Step(c, q) /\ q \in Call /\ q # NoCall /\ q.stage = "find" /\ q.op = "register"
      /\ q.device # 0 /\ q.run = calls[c].run /\ q.key = calls[c].key
         /\ q.op = calls[c].op /\ q.token = calls[c].token
      /\ issued[q.token].key = q.key
  <2>1. (IF row = NoDevice THEN calls[c].token ELSE row.id) \in Tokens
    BY <1>0 DEF Call
  <2>2. (IF row = NoDevice THEN calls[c].token ELSE row.id) # 0
    BY <2>1, <1>0 DEF Tokens
  <2>3. issued[calls[c].token].key = calls[c].key
    BY <1>0 DEF CallSound
  <2> QED  BY <1>0, <2>1, <2>2, <2>3 DEF LookUpDevice, Call, NoCall, Stages
<1> HIDE DEF q
<1>s. /\ calls' \in [Calls -> Call \cup {NoCall}] /\ calls'[c] = q
      /\ \A d \in Calls : d # c => calls'[d] = calls[d]
  BY <1>q, StepFacts
<1>1. TypeOK'
  BY <1>a, <1>s DEF TypeOK
<1>2. CallsSound'
  <2>1. ASSUME NEW d \in Calls, calls'[d] # NoCall, d # c  PROVE CallSound(calls[d])'
    <3>1. calls'[d] = calls[d] /\ CallSound(calls[d]) /\ calls[d] \in Call
      BY <1>s, <2>1 DEF CallsSound
    <3> QED  BY <3>1, <1>a DEF CallSound, AtDevice
  <2>2. calls'[c] # NoCall => CallSound(calls[c])'
    BY <1>q, <1>a, <1>s DEF CallSound, AtDevice
  <2> QED  BY <2>1, <2>2 DEF CallsSound
<1>3. CallsLinked'
  BY <1>0, <1>q, <1>a, <1>s DEF CallsLinked
<1>4. RunsSound'
  <2>1. ASSUME NEW r \in Runs, runs[r].at = "waiting", runs[r].call = c  PROVE calls[c].run = r
    BY <2>1 DEF RunsSound, RunSound
  <2>2. ASSUME NEW r \in Runs  PROVE RunSound(r)'
    <3>1. RunSound(r)
      BY DEF RunsSound
    <3>2. ASSUME runs[r].at = "waiting", runs[r].call = c
          PROVE  calls'[c] # NoCall /\ calls'[c].run = r /\ calls'[c].key = Key(r)
                 /\ calls'[c].op = calls[c].op
      BY <1>q, <1>s, <2>1, <3>1, <3>2, EnrollmentAssumption DEF RunSound, NoCall
    <3> QED  BY <1>a, <1>s, <3>1, <3>2 DEF RunSound, Saved, Key
  <2> QED  BY <2>2 DEF RunsSound
<1>5. KeptTokenWasSaved'
  BY <1>a DEF KeptTokenWasSaved, Saved
<1>6. ReportsOfTheDevice'
  BY <1>a DEF ReportsOfTheDevice
<1> QED  BY <1>1, <1>2, <1>3, <1>4, <1>5, <1>6 DEF Sound

\* A token that is recognised belongs to a device.
LEMMA AuthenticateSound ==
  ASSUME IInv, NEW c \in Calls, Authenticate(c)
  PROVE  Sound'
<1> USE CallForms, RowForms DEF IInv, Sound
<1>a. UNCHANGED <<rows, reports, config, runs, issued, faults>>
  BY DEF Authenticate
<1> DEFINE row == rows[calls[c].key]
           next == IF calls[c].op = "heartbeat" THEN "record" ELSE "snapshot"
           p == IF row.token = calls[c].token
                THEN [calls[c] EXCEPT !.stage = next, !.device = row.id]
                ELSE Ended(calls[c], "refused")
<1>0. /\ calls[c] \in Call /\ calls[c].op \in {"heartbeat", "snapshot"} /\ calls[c] # NoCall
  BY DEF Authenticate, NoCall, Call
<1>q. /\ Step(c, p) /\ p \in Call \cup {NoCall}
      /\ p = NoCall => calls[c].run = "none"
      /\ p # NoCall => p.run = calls[c].run /\ p.key = calls[c].key
         /\ p.op = calls[c].op /\ p.token = calls[c].token
      /\ p # NoCall =>
           \/ p.stage = "refused"
           \/ p.stage = next /\ row # NoDevice /\ p.device = row.id
  <2>1. Step(c, p)
    BY DEF Authenticate
  <2>2. CASE row.token = calls[c].token
    <3>1. row # NoDevice /\ row.id \in Tokens
      BY <1>0, <2>2 DEF Call, NoDevice, Tokens
    <3> QED  BY <1>0, <2>1, <2>2, <3>1 DEF Call, NoCall, Stages
  <2>3. CASE row.token # calls[c].token
    BY <1>0, <2>1, <2>3 DEF Ended, Call, NoCall, Stages
  <2> QED  BY <2>2, <2>3
<1> HIDE DEF p
<1>s. /\ calls' \in [Calls -> Call \cup {NoCall}] /\ calls'[c] = p
      /\ \A d \in Calls : d # c => calls'[d] = calls[d]
  BY <1>q, StepFacts
<1>1. TypeOK'
  BY <1>a, <1>s DEF TypeOK
<1>2. CallsSound'
  <2>1. ASSUME NEW d \in Calls, calls'[d] # NoCall, d # c  PROVE CallSound(calls[d])'
    <3>1. calls'[d] = calls[d] /\ CallSound(calls[d]) /\ calls[d] \in Call
      BY <1>s, <2>1 DEF CallsSound
    <3> QED  BY <3>1, <1>a DEF CallSound, AtDevice
  <2>2. calls'[c] # NoCall => CallSound(calls[c])'
    BY <1>0, <1>q, <1>a, <1>s DEF CallSound, AtDevice, Call
  <2> QED  BY <2>1, <2>2 DEF CallsSound
<1>3. CallsLinked'
  BY <1>0, <1>q, <1>a, <1>s DEF CallsLinked
<1>4. RunsSound'
  <2>1. ASSUME NEW r \in Runs, runs[r].at = "waiting", runs[r].call = c  PROVE calls[c].run = r
    BY <2>1 DEF RunsSound, RunSound
  <2>2. ASSUME NEW r \in Runs  PROVE RunSound(r)'
    <3>1. RunSound(r)
      BY DEF RunsSound
    <3>2. ASSUME runs[r].at = "waiting", runs[r].call = c
          PROVE  calls'[c] # NoCall /\ calls'[c].run = r /\ calls'[c].key = Key(r)
                 /\ calls'[c].op = calls[c].op
      BY <1>q, <1>s, <2>1, <3>1, <3>2, EnrollmentAssumption DEF RunSound, NoCall
    <3> QED  BY <1>a, <1>s, <3>1, <3>2 DEF RunSound, Saved, Key
  <2> QED  BY <2>2 DEF RunsSound
<1>5. KeptTokenWasSaved'
  BY <1>a DEF KeptTokenWasSaved, Saved
<1>6. ReportsOfTheDevice'
  BY <1>a DEF ReportsOfTheDevice
<1> QED  BY <1>1, <1>2, <1>3, <1>4, <1>5, <1>6 DEF Sound

\* A heartbeat is stored for the device its key has.
LEMMA RecordHeartbeatSound ==
  ASSUME IInv, NEW c \in Calls, RecordHeartbeat(c)
  PROVE  Sound'
<1> USE CallForms, RowForms DEF IInv, Sound
<1>a. UNCHANGED <<rows, config, runs, issued, faults>>
  BY DEF RecordHeartbeat
<1> DEFINE q == [calls[c] EXCEPT !.stage = "find"]
<1>0. /\ calls[c] \in Call /\ calls[c].op = "heartbeat" /\ AtDevice(calls[c]) /\ calls[c] # NoCall
  BY DEF RecordHeartbeat, CallsSound, CallSound, NoCall
<1>q. /\ Step(c, q) /\ q \in Call /\ q # NoCall /\ q.stage = "find" /\ q.op = "heartbeat"
      /\ q.device = calls[c].device /\ q.run = calls[c].run /\ q.key = calls[c].key
         /\ q.op = calls[c].op /\ q.token = calls[c].token
  BY <1>0 DEF RecordHeartbeat, Call, NoCall, Stages
<1>r. reports' = reports \cup
        {[kind |-> "heartbeat", key |-> calls[c].key, device |-> calls[c].device]}
  BY DEF RecordHeartbeat
<1>t. calls[c].key \in Keys /\ calls[c].device = rows[calls[c].key].id /\ calls[c].device \in Tokens
  BY <1>0 DEF AtDevice, Call
<1> HIDE DEF q
<1>s. /\ calls' \in [Calls -> Call \cup {NoCall}] /\ calls'[c] = q
      /\ \A d \in Calls : d # c => calls'[d] = calls[d]
  BY <1>q, StepFacts
<1>1. TypeOK'
  BY <1>a, <1>s, <1>r, <1>t DEF TypeOK
<1>2. CallsSound'
  <2>1. ASSUME NEW d \in Calls, calls'[d] # NoCall, d # c  PROVE CallSound(calls[d])'
    <3>1. calls'[d] = calls[d] /\ CallSound(calls[d]) /\ calls[d] \in Call
      BY <1>s, <2>1 DEF CallsSound
    <3> QED  BY <3>1, <1>a DEF CallSound, AtDevice
  <2>2. calls'[c] # NoCall => CallSound(calls[c])'
    BY <1>0, <1>q, <1>a, <1>s DEF CallSound, AtDevice
  <2> QED  BY <2>1, <2>2 DEF CallsSound
<1>3. CallsLinked'
  BY <1>0, <1>q, <1>a, <1>s DEF CallsLinked
<1>4. RunsSound'
  <2>1. ASSUME NEW r \in Runs, runs[r].at = "waiting", runs[r].call = c  PROVE calls[c].run = r
    BY <2>1 DEF RunsSound, RunSound
  <2>2. ASSUME NEW r \in Runs  PROVE RunSound(r)'
    <3>1. RunSound(r)
      BY DEF RunsSound
    <3>2. ASSUME runs[r].at = "waiting", runs[r].call = c
          PROVE  calls'[c] # NoCall /\ calls'[c].run = r /\ calls'[c].key = Key(r)
                 /\ calls'[c].op = calls[c].op
      BY <1>q, <1>s, <2>1, <3>1, <3>2, EnrollmentAssumption DEF RunSound, NoCall
    <3> QED  BY <1>a, <1>s, <3>1, <3>2 DEF RunSound, Saved, Key
  <2> QED  BY <2>2 DEF RunsSound
<1>5. KeptTokenWasSaved'
  BY <1>a DEF KeptTokenWasSaved, Saved
<1>6. ReportsOfTheDevice'
  BY <1>a, <1>r, <1>t DEF ReportsOfTheDevice
<1> QED  BY <1>1, <1>2, <1>3, <1>4, <1>5, <1>6 DEF Sound

\* The row that was read has a token, and it is not replaced by another row.
LEMMA FindDeviceSound ==
  ASSUME IInv, NEW c \in Calls, FindDevice(c)
  PROVE  Sound'
<1> USE CallForms, RowForms DEF IInv, Sound
<1>a. UNCHANGED <<rows, reports, config, runs, issued, faults>>
  BY DEF FindDevice
<1> DEFINE row == rows[calls[c].key]
           f == IF calls[c].op = "heartbeat" /\ row.id = calls[c].device THEN row.token ELSE 0
           q == [calls[c] EXCEPT !.stage = "upsert", !.found = f]
<1>0. /\ calls[c] \in Call /\ calls[c] # NoCall /\ calls[c].op \in {"register", "heartbeat"}
      /\ calls[c].op = "heartbeat" => AtDevice(calls[c])
      /\ calls[c].op = "register" => issued[calls[c].token].key = calls[c].key
                                     /\ calls[c].device # 0
  BY DEF FindDevice, CallsSound, CallSound, NoCall
<1>f. f \in Tokens \cup {0} /\ (calls[c].op = "heartbeat" => f \in Tokens /\ f # 0)
  BY <1>0 DEF AtDevice, Call, Tokens
<1>b. Step(c, q)
  BY DEF FindDevice
<1> HIDE DEF f
<1>q. /\ Step(c, q) /\ q \in Call /\ q # NoCall /\ q.stage = "upsert"
      /\ q.device = calls[c].device /\ q.found = f /\ q.run = calls[c].run
         /\ q.key = calls[c].key /\ q.op = calls[c].op /\ q.token = calls[c].token
  BY <1>0, <1>b, <1>f DEF Call, NoCall, Stages
<1> HIDE DEF q
<1>s. /\ calls' \in [Calls -> Call \cup {NoCall}] /\ calls'[c] = q
      /\ \A d \in Calls : d # c => calls'[d] = calls[d]
  BY <1>q, StepFacts
<1>1. TypeOK'
  BY <1>a, <1>s DEF TypeOK
<1>2. CallsSound'
  <2>1. ASSUME NEW d \in Calls, calls'[d] # NoCall, d # c  PROVE CallSound(calls[d])'
    <3>1. calls'[d] = calls[d] /\ CallSound(calls[d]) /\ calls[d] \in Call
      BY <1>s, <2>1 DEF CallsSound
    <3> QED  BY <3>1, <1>a DEF CallSound, AtDevice
  <2>2. calls'[c] # NoCall => CallSound(calls[c])'
    BY <1>0, <1>f, <1>q, <1>a, <1>s DEF CallSound, AtDevice
  <2> QED  BY <2>1, <2>2 DEF CallsSound
<1>3. CallsLinked'
  BY <1>0, <1>q, <1>a, <1>s DEF CallsLinked
<1>4. RunsSound'
  <2>1. ASSUME NEW r \in Runs, runs[r].at = "waiting", runs[r].call = c  PROVE calls[c].run = r
    BY <2>1 DEF RunsSound, RunSound
  <2>2. ASSUME NEW r \in Runs  PROVE RunSound(r)'
    <3>1. RunSound(r)
      BY DEF RunsSound
    <3>2. ASSUME runs[r].at = "waiting", runs[r].call = c
          PROVE  calls'[c] # NoCall /\ calls'[c].run = r /\ calls'[c].key = Key(r)
                 /\ calls'[c].op = calls[c].op
      BY <1>q, <1>s, <2>1, <3>1, <3>2, EnrollmentAssumption DEF RunSound, NoCall
    <3> QED  BY <1>a, <1>s, <3>1, <3>2 DEF RunSound, Saved, Key
  <2> QED  BY <2>2 DEF RunsSound
<1>5. KeptTokenWasSaved'
  BY <1>a DEF KeptTokenWasSaved, Saved
<1>6. ReportsOfTheDevice'
  BY <1>a DEF ReportsOfTheDevice
<1> QED  BY <1>1, <1>2, <1>3, <1>4, <1>5, <1>6 DEF Sound

\* A save creates a device or keeps its id, so what others read of it still holds.
LEMMA UpsertDeviceSound ==
  ASSUME IInv, NEW c \in Calls, UpsertDevice(c)
  PROVE  Sound'
<1> USE CallForms, RowForms DEF IInv, Sound
<1> DEFINE call == calls[c]
           row == rows[call.key]
           new == [id |-> call.device,
                   token |-> IF call.op = "register" THEN call.token ELSE call.found]
<1>0. /\ call \in Call /\ call # NoCall /\ call.op \in {"register", "heartbeat"}
      /\ CallSound(call) /\ call.stage = "upsert" /\ UNCHANGED <<reports, config, runs, faults>>
  BY DEF UpsertDevice, CallsSound, CallSound, NoCall
<1>k. call.key \in Keys /\ call.token \in Tokens /\ call.device \in Tokens
  BY <1>0 DEF Call, CallSound, AtDevice
<1>n. new \in Device /\ new # NoDevice /\ new.id = call.device
  BY <1>0, <1>k DEF Call, CallSound, Device, NoDevice, Tokens
<1>A. CASE row = NoDevice \/ row.id = call.device
  <2> DEFINE q == IF call.op = "register" THEN [call EXCEPT !.stage = "snapshot"]
                  ELSE Ended(call, "replied")
  <2>r. /\ rows' \in [Keys -> Device \cup {NoDevice}]
        /\ rows'[call.key] = new /\ \A k \in Keys : k # call.key => rows'[k] = rows[k]
    BY <1>A, <1>k, <1>n DEF UpsertDevice, TypeOK
  <2>i. /\ issued' \in [Tokens -> [key : Keys \cup {"none"}, saved : BOOLEAN, lone : BOOLEAN]]
        /\ \A u \in Tokens : issued'[u].key = issued[u].key /\ (issued[u].saved => issued'[u].saved)
        /\ call.op = "register" => issued'[call.token].saved
    <3>1. CASE call.op = "register"
      <4>1. issued' = [issued EXCEPT ![call.token] = [issued[call.token] EXCEPT !.saved = TRUE]]
        BY <1>A, <3>1 DEF UpsertDevice, TypeOK
      <4>2. /\ [issued[call.token] EXCEPT !.saved = TRUE] \in
                 [key : Keys \cup {"none"}, saved : BOOLEAN, lone : BOOLEAN]
            /\ [issued[call.token] EXCEPT !.saved = TRUE].key = issued[call.token].key
            /\ [issued[call.token] EXCEPT !.saved = TRUE].saved
        <5>1. issued[call.token] \in
                [key : Keys \cup {"none"}, saved : BOOLEAN, lone : BOOLEAN]
          BY <1>k DEF TypeOK
        <5> QED  BY <5>1
      <4> QED  BY <4>1, <4>2, <1>k DEF TypeOK
    <3>2. CASE call.op = "heartbeat"
      BY <1>A, <3>2 DEF UpsertDevice, TypeOK
    <3> QED  BY <3>1, <3>2, <1>0
  <2>q. /\ Step(c, q) /\ q \in Call \cup {NoCall}
        /\ q = NoCall => call.run = "none"
        /\ q # NoCall => /\ q.run = call.run /\ q.key = call.key /\ q.op = call.op
                         /\ q.token = call.token /\ q.device = call.device
                         /\ q.stage = IF call.op = "register" THEN "snapshot" ELSE "replied"
    <3>1. Step(c, q)
      BY <1>A, <1>0 DEF UpsertDevice
    <3> QED  BY <3>1, <1>0 DEF Ended, Call, NoCall, Stages
  <2> HIDE DEF q
  <2>s. /\ calls' \in [Calls -> Call \cup {NoCall}] /\ calls'[c] = q
        /\ \A d \in Calls : d # c => calls'[d] = calls[d]
    BY <2>q, StepFacts
  <2>k. \A k \in Keys : rows[k] # NoDevice => rows'[k] # NoDevice /\ rows'[k].id = rows[k].id
    BY <2>r, <1>A, <1>n
  <2> HIDE DEF new
  <2>1. TypeOK'
    BY <1>0, <2>r, <2>i, <2>s DEF TypeOK
  <2>2. CallsSound'
    <3>1. ASSUME NEW d \in Calls, calls'[d] # NoCall, d # c  PROVE CallSound(calls[d])'
      <4>1. calls'[d] = calls[d] /\ CallSound(calls[d]) /\ calls[d] \in Call
        BY <2>s, <3>1 DEF CallsSound
      <4>2. calls[d].key \in Keys /\ calls[d].token \in Tokens
        BY <4>1 DEF Call
      <4> QED  BY <4>1, <4>2, <2>i, <2>k DEF CallSound, AtDevice
    <3>2. calls'[c] # NoCall => CallSound(calls[c])'
      <4>1. issued'[call.token].key = issued[call.token].key
        BY <1>k, <2>i
      <4> QED  BY <1>0, <1>n, <2>q, <2>r, <2>s, <2>i, <4>1 DEF CallSound, AtDevice
    <3> QED  BY <3>1, <3>2 DEF CallsSound
  <2>3. CallsLinked'
    BY <1>0, <2>q, <2>s DEF CallsLinked
  <2>4. RunsSound'
    <3>1. ASSUME NEW r \in Runs  PROVE RunSound(r)'
      <4>1. RunSound(r) /\ runs'[r] = runs[r]
        BY <1>0 DEF RunsSound
      <4>2. ASSUME runs[r].at = "waiting", runs[r].call = c
            PROVE  calls'[c] # NoCall /\ calls'[c].run = r /\ calls'[c].key = Key(r)
                   /\ calls'[c].op = calls[c].op
        BY <2>q, <2>s, <4>1, <4>2, EnrollmentAssumption DEF RunSound, NoCall
      <4>3. runs[r].token \in Saved(Key(r)) => runs[r].token \in Saved(Key(r))'
        BY <2>i, KeysTyped DEF Saved, Key
      <4> QED  BY <4>1, <4>2, <4>3, <2>s DEF RunSound, Key
    <3> QED  BY <3>1 DEF RunsSound
  <2>5. KeptTokenWasSaved'
    BY <1>0, <2>i DEF KeptTokenWasSaved, Saved
  <2>6. ReportsOfTheDevice'
    <3>1. ASSUME NEW x \in reports  PROVE rows'[x.key].id = x.device
      <4>1. x.key \in Keys /\ x.device \in Tokens /\ rows[x.key].id = x.device
        BY DEF ReportsOfTheDevice, TypeOK
      <4> QED  BY <4>1, <2>k DEF Tokens
    <3> QED  BY <1>0, <3>1 DEF ReportsOfTheDevice
  <2> QED  BY <2>1, <2>2, <2>3, <2>4, <2>5, <2>6 DEF Sound
<1>B. CASE ~(row = NoDevice \/ row.id = call.device)
  <2> DEFINE q == Ended(call, "refused")
  <2>u. UNCHANGED <<rows, issued>> /\ Step(c, q)
    BY <1>B DEF UpsertDevice
  <2>q. /\ q \in Call \cup {NoCall}
        /\ q = NoCall => call.run = "none"
        /\ q # NoCall => /\ q.run = call.run /\ q.key = call.key /\ q.op = call.op
                         /\ q.token = call.token /\ q.stage = "refused"
    BY <1>0 DEF Ended, Call, NoCall, Stages
  <2> HIDE DEF q
  <2>s. /\ calls' \in [Calls -> Call \cup {NoCall}] /\ calls'[c] = q
        /\ \A d \in Calls : d # c => calls'[d] = calls[d]
    BY <2>u, <2>q, StepFacts
  <2>1. TypeOK'
    BY <1>0, <2>u, <2>s DEF TypeOK
  <2>2. CallsSound'
    <3>1. ASSUME NEW d \in Calls, calls'[d] # NoCall, d # c  PROVE CallSound(calls[d])'
      BY <2>s, <2>u, <3>1 DEF CallsSound, CallSound, AtDevice
    <3>2. calls'[c] # NoCall => CallSound(calls[c])'
      BY <1>0, <2>q, <2>u, <2>s DEF CallSound, AtDevice
    <3> QED  BY <3>1, <3>2 DEF CallsSound
  <2>3. CallsLinked'
    BY <1>0, <2>q, <2>s DEF CallsLinked
  <2>4. RunsSound'
    <3>1. ASSUME NEW r \in Runs  PROVE RunSound(r)'
      <4>1. RunSound(r) /\ runs'[r] = runs[r]
        BY <1>0 DEF RunsSound
      <4>2. ASSUME runs[r].at = "waiting", runs[r].call = c
            PROVE  calls'[c] # NoCall /\ calls'[c].run = r /\ calls'[c].key = Key(r)
                   /\ calls'[c].op = calls[c].op
        BY <2>q, <2>s, <4>1, <4>2, EnrollmentAssumption DEF RunSound, NoCall
      <4> QED  BY <4>1, <4>2, <2>s, <2>u DEF RunSound, Saved, Key
    <3> QED  BY <3>1 DEF RunsSound
  <2>5. KeptTokenWasSaved'
    BY <1>0, <2>u DEF KeptTokenWasSaved, Saved
  <2>6. ReportsOfTheDevice'
    BY <1>0, <2>u DEF ReportsOfTheDevice
  <2> QED  BY <2>1, <2>2, <2>3, <2>4, <2>5, <2>6 DEF Sound
<1> QED  BY <1>A, <1>B

\* A snapshot is stored for the device its key has.
LEMMA SaveSnapshotSound ==
  ASSUME IInv, NEW c \in Calls, SaveSnapshot(c)
  PROVE  Sound'
<1> USE CallForms, RowForms DEF IInv, Sound
<1>a. UNCHANGED <<rows, config, runs, issued, faults>>
  BY DEF SaveSnapshot
<1> DEFINE p == Ended(calls[c], "replied")
<1>0. /\ calls[c] \in Call /\ calls[c].op \in {"register", "snapshot"}
      /\ AtDevice(calls[c]) /\ calls[c] # NoCall
      /\ calls[c].op = "register" => issued[calls[c].token].key = calls[c].key
                                     /\ issued[calls[c].token].saved
  BY DEF SaveSnapshot, CallsSound, CallSound, NoCall
<1>q. /\ Step(c, p) /\ p \in Call \cup {NoCall}
      /\ p = NoCall => calls[c].run = "none"
      /\ p # NoCall => p.stage = "replied" /\ p.run = calls[c].run
         /\ p.key = calls[c].key /\ p.op = calls[c].op /\ p.token = calls[c].token
  BY <1>0 DEF SaveSnapshot, Ended, Call, NoCall, Stages
<1>r. reports' = reports \cup
        {[kind |-> "snapshot", key |-> calls[c].key, device |-> calls[c].device]}
  BY DEF SaveSnapshot
<1>t. calls[c].key \in Keys /\ calls[c].device = rows[calls[c].key].id /\ calls[c].device \in Tokens
  BY <1>0 DEF AtDevice, Call
<1> HIDE DEF p
<1>s. /\ calls' \in [Calls -> Call \cup {NoCall}] /\ calls'[c] = p
      /\ \A d \in Calls : d # c => calls'[d] = calls[d]
  BY <1>q, StepFacts
<1>1. TypeOK'
  BY <1>a, <1>s, <1>r, <1>t DEF TypeOK
<1>2. CallsSound'
  <2>1. ASSUME NEW d \in Calls, calls'[d] # NoCall, d # c  PROVE CallSound(calls[d])'
    <3>1. calls'[d] = calls[d] /\ CallSound(calls[d]) /\ calls[d] \in Call
      BY <1>s, <2>1 DEF CallsSound
    <3> QED  BY <3>1, <1>a DEF CallSound, AtDevice
  <2>2. calls'[c] # NoCall => CallSound(calls[c])'
    BY <1>0, <1>q, <1>a, <1>s DEF CallSound, AtDevice
  <2> QED  BY <2>1, <2>2 DEF CallsSound
<1>3. CallsLinked'
  BY <1>0, <1>q, <1>a, <1>s DEF CallsLinked
<1>4. RunsSound'
  <2>1. ASSUME NEW r \in Runs, runs[r].at = "waiting", runs[r].call = c  PROVE calls[c].run = r
    BY <2>1 DEF RunsSound, RunSound
  <2>2. ASSUME NEW r \in Runs  PROVE RunSound(r)'
    <3>1. RunSound(r)
      BY DEF RunsSound
    <3>2. ASSUME runs[r].at = "waiting", runs[r].call = c
          PROVE  calls'[c] # NoCall /\ calls'[c].run = r /\ calls'[c].key = Key(r)
                 /\ calls'[c].op = calls[c].op
      BY <1>q, <1>s, <2>1, <3>1, <3>2, EnrollmentAssumption DEF RunSound, NoCall
    <3> QED  BY <1>a, <1>s, <3>1, <3>2 DEF RunSound, Saved, Key
  <2> QED  BY <2>2 DEF RunsSound
<1>5. KeptTokenWasSaved'
  BY <1>a DEF KeptTokenWasSaved, Saved
<1>6. ReportsOfTheDevice'
  BY <1>a, <1>r, <1>t DEF ReportsOfTheDevice
<1> QED  BY <1>1, <1>2, <1>3, <1>4, <1>5, <1>6 DEF Sound

\* The requests of a dead API are refused; what they saved stays.
LEMMA ApiDiesSound ==
  ASSUME IInv, ApiDies
  PROVE  Sound'
<1> USE CallForms, RowForms DEF IInv, Sound
<1>a. UNCHANGED <<rows, reports, config, runs, issued>> /\ faults' \in 0..MaxFaults
  BY EnrollmentAssumption DEF ApiDies, TypeOK
<1>c. ASSUME NEW c \in Calls
      PROVE  /\ calls'[c] \in Call \cup {NoCall}
             /\ calls[c] = NoCall => calls'[c] = NoCall
             /\ calls[c] # NoCall /\ calls'[c] = NoCall => calls[c].run = "none"
             /\ calls'[c] # NoCall =>
                  /\ calls'[c] = calls[c] \/ calls'[c].stage = "refused"
                  /\ calls'[c].run = calls[c].run /\ calls'[c].key = calls[c].key
                  /\ calls'[c].op = calls[c].op /\ calls'[c].token = calls[c].token
  <2> DEFINE x == IF calls[c].stage \in {"free", "replied", "refused"} THEN calls[c]
                  ELSE Ended(calls[c], "refused")
  <2>1. calls'[c] = x
    BY DEF ApiDies
  <2>2. CASE calls[c] = NoCall
    BY <2>1, <2>2 DEF NoCall
  <2>3. CASE calls[c] # NoCall /\ calls[c].stage \in {"replied", "refused"}
    BY <2>1, <2>3
  <2>4. CASE calls[c] # NoCall /\ calls[c].stage \notin {"replied", "refused"}
    <3>1. calls[c] \in Call /\ x = Ended(calls[c], "refused")
      BY <2>4
    <3> HIDE DEF x
    <3> QED  BY <2>1, <2>4, <3>1 DEF Ended, Call, NoCall, Stages
  <2> QED  BY <2>2, <2>3, <2>4
<1>1. TypeOK'
  <2>1. calls' = [c \in Calls |-> calls'[c]]
    BY DEF ApiDies
  <2> QED  BY <1>a, <1>c, <2>1 DEF TypeOK
<1>2. CallsSound'
  <2>1. ASSUME NEW c \in Calls, calls'[c] # NoCall  PROVE CallSound(calls[c])'
    <3>1. CallSound(calls[c])
      BY <1>c, <2>1 DEF CallsSound
    <3> QED  BY <1>a, <1>c, <2>1, <3>1 DEF CallSound, AtDevice
  <2> QED  BY <2>1 DEF CallsSound
<1>3. CallsLinked'
  BY <1>a, <1>c DEF CallsLinked
<1>4. RunsSound'
  <2>1. ASSUME NEW r \in Runs  PROVE RunSound(r)'
    <3>1. RunSound(r) /\ r # "none"
      BY EnrollmentAssumption DEF RunsSound
    <3> QED  BY <1>a, <1>c, <3>1 DEF RunSound, Saved, Key
  <2> QED  BY <2>1 DEF RunsSound
<1>5. KeptTokenWasSaved'
  BY <1>a DEF KeptTokenWasSaved, Saved
<1>6. ReportsOfTheDevice'
  BY <1>a DEF ReportsOfTheDevice
<1> QED  BY <1>1, <1>2, <1>3, <1>4, <1>5, <1>6 DEF Sound

-----------------------------------------------------------------------------
(* Every step keeps Fresh *)

\* The overlaps of requests are none of the agent's doing.
LEMMA LoadConfigFresh ==
  ASSUME IInv, NEW r \in Runs, NEW mode \in {"run", "register", "heartbeat"}, LoadConfig(r, mode)
  PROVE  Fresh'
<1> USE EnrollmentAssumption, CallForms, RowForms DEF IInv, Sound, Fresh
<1>1. InOrder'
  BY DEF LoadConfig, TypeOK, InOrder, NotIssued, Tokens
<1>2. Overlaps'
  BY DEF LoadConfig, TypeOK, Overlaps, Open, Call, NoCall
<1>3. LateSaves'
  BY DEF LoadConfig, TypeOK, LateSaves, Call, NoCall, Open, Tokens, NotIssued
<1>4. FoundStands'
  BY DEF LoadConfig, TypeOK, FoundStands, Newest, Saved, TokenStands, Call, NoCall, Open
<1>5. TokenStands'
  BY DEF LoadConfig, TypeOK, TokenStands, Newest, Saved, FoundStands
<1> QED  BY <1>1, <1>2, <1>3, <1>4, <1>5 DEF Fresh

\* A registration that begins while another is to save is not alone, and nor is that one.
LEMMA RegisterFresh ==
  ASSUME IInv, NEW r \in Runs, NEW c \in Calls, NEW t \in Tokens, Register(r, c, t)
  PROVE  Fresh'
<1> USE CallForms, RowForms DEF IInv, Sound, Fresh
<1>a. /\ Arrives(c, r, "register", Key(r), t)
      /\ issued[t] = NotIssued /\ \A u \in Tokens : u < t => issued[u] # NotIssued
      /\ UNCHANGED <<rows, reports, config, faults>>
  BY DEF Register
<1>b. /\ issued'[t].key = Key(r) /\ issued'[t].saved = FALSE
      /\ issued'[t].lone = (Open(Key(r)) = {})
      /\ \A u \in Tokens :
           u # t => /\ issued'[u].key = issued[u].key /\ issued'[u].saved = issued[u].saved
                    /\ issued'[u].lone =>
                         /\ issued[u].lone
                         /\ \A d \in Open(Key(r)) :
                              calls[d].op = "register" => calls[d].token # u
  BY CrossedTyped, CrossedKeeps, KeysTyped DEF Register
<1>c. /\ issued[t].key = "none" /\ issued[t].saved = FALSE
      /\ Key(r) \in Keys /\ "none" \notin Keys
  BY <1>a, EnrollmentAssumption, KeysTyped DEF NotIssued
<1>d. /\ calls'[c] # NoCall /\ calls'[c].stage = "lookUp" /\ calls'[c].op = "register"
      /\ calls'[c].key = Key(r) /\ calls'[c].token = t /\ calls[c] = NoCall
      /\ \A d \in Calls : d # c => calls'[d] = calls[d]
  BY <1>a, ArrivesFacts DEF NoCall
<1>o. ASSUME NEW k \in Keys, NEW d \in Open(k)'
      PROVE  (d = c /\ k = Key(r)) \/ (d # c /\ d \in Open(k) /\ calls'[d] = calls[d])
  BY <1>d, <1>o DEF Open
<1>n. \A k \in Keys : Newest(k)' = Newest(k)
  <2>1. ASSUME NEW k \in Keys  PROVE Saved(k)' = Saved(k)
    BY <1>b, <1>c DEF Saved
  <2> QED  BY <2>1 DEF Newest
<1>1. InOrder'
  <2>1. \A u \in Tokens : u < t => issued[u].key # "none"
    BY <1>a, NotIssuedForm DEF InOrder
  <2> QED  BY <1>b, <1>c, <2>1 DEF InOrder
<1>2. Overlaps'
  <2>1. ASSUME NEW k \in Keys, NEW x \in Open(k)', NEW y \in Open(k)', x # y,
               calls'[y].op = "register"
        PROVE  ~issued'[calls'[y].token].lone
    <3>1. CASE y = c
      BY <1>b, <1>d, <1>o, <2>1, <3>1
    <3>2. CASE y # c
      <4>1. y \in Open(k) /\ calls'[y] = calls[y] /\ calls[y] \in Call /\ calls[y] # NoCall
        BY <1>o, <2>1, <3>2 DEF Open
      <4>2. calls[y].token \in Tokens /\ calls[y].op = "register" /\ calls[y].key \in Keys
        BY <4>1, <2>1 DEF Call
      <4>3. calls[y].token # t
        BY <1>c, <4>1, <4>2 DEF CallsSound, CallSound, Open
      <4>4. CASE x = c
        BY <1>b, <1>o, <4>1, <4>2, <4>3, <4>4
      <4>5. CASE x # c
        BY <1>b, <1>o, <2>1, <4>1, <4>2, <4>3, <4>5 DEF Overlaps
      <4> QED  BY <4>4, <4>5
    <3> QED  BY <3>1, <3>2
  <2> QED  BY <2>1 DEF Overlaps
<1>3. LateSaves'
  <2>1. ASSUME NEW d \in Calls, calls'[d].stage \in {"lookUp", "find", "upsert"},
               calls'[d].op = "register", NEW u \in Tokens, u > calls'[d].token,
               issued'[u].key = calls'[d].key
        PROVE  ~issued'[u].lone
    <3>1. CASE d = c
      <4>1. u # t /\ t < u /\ issued[u].key = Key(r)
        BY <1>b, <1>d, <2>1, <3>1 DEF Tokens
      <4> QED  BY <1>c, <4>1 DEF InOrder
    <3>2. CASE d # c
      <4>1. calls'[d] = calls[d] /\ calls[d] # NoCall /\ calls[d].key \in Keys
        BY <1>d, <2>1, <3>2 DEF Call, NoCall
      <4>2. CASE u = t
        <5>1. d \in Open(Key(r))
          BY <1>b, <2>1, <4>1, <4>2 DEF Open
        <5> QED  BY <1>b, <4>2, <5>1
      <4>3. CASE u # t
        BY <1>b, <2>1, <4>1, <4>3 DEF LateSaves
      <4> QED  BY <4>2, <4>3
    <3> QED  BY <3>1, <3>2
  <2> QED  BY <2>1 DEF LateSaves
<1>4. FoundStands'
  <2>1. ASSUME NEW d \in Calls, calls'[d].stage = "upsert", calls'[d].op = "heartbeat",
               NEW k \in Keys, calls'[d].key = k, NEW u \in Newest(k)', issued'[u].lone
        PROVE  calls'[d].found = u
    <3>1. d # c /\ calls'[d] = calls[d] /\ calls[d].key \in Keys
      BY <1>d, <2>1 DEF Call, NoCall
    <3>2. u \in Newest(calls[d].key) /\ u \in Tokens /\ issued[u].saved
      BY <1>n, <2>1, <3>1 DEF Newest, Saved
    <3> QED  BY <1>b, <1>c, <2>1, <3>1, <3>2 DEF FoundStands
  <2>2. \A d \in Calls : calls'[d].stage = "upsert" => calls'[d].key \in Keys
    BY <1>a, ArrivesFacts DEF Call, NoCall
  <2> QED  BY <2>1, <2>2 DEF FoundStands, Newest, Saved
<1>5. TokenStands'
  <2>1. ASSUME NEW k \in Keys, NEW u \in Newest(k)', issued'[u].lone  PROVE rows'[k].token = u
    <3>1. u \in Newest(k) /\ u \in Tokens /\ issued[u].saved
      BY <1>n, <2>1 DEF Newest, Saved
    <3> QED  BY <1>a, <1>b, <1>c, <2>1, <3>1 DEF TokenStands
  <2> QED  BY <2>1 DEF TokenStands
<1> QED  BY <1>1, <1>2, <1>3, <1>4, <1>5 DEF Fresh

\* A heartbeat that begins takes the registrations it overlaps out of play.
LEMMA HeartbeatFresh ==
  ASSUME IInv, NEW r \in Runs, NEW c \in Calls, Heartbeat(r, c)
  PROVE  Fresh'
<1> USE CallForms, RowForms DEF IInv, Sound, Fresh
<1>a. /\ Arrives(c, r, "heartbeat", Key(r), runs[r].token) /\ runs[r].at = "loaded"
      /\ runs[r].token \in Tokens
      /\ UNCHANGED <<rows, reports, config, faults>>
  BY DEF Heartbeat, TypeOK, Run, RunsSound, RunSound
<1>b. \A u \in Tokens : /\ issued'[u].key = issued[u].key /\ issued'[u].saved = issued[u].saved
                        /\ issued'[u].lone =>
                             /\ issued[u].lone
                             /\ \A d \in Open(Key(r)) :
                                  calls[d].op = "register" => calls[d].token # u
  BY CrossedKeeps, KeysTyped DEF Heartbeat
<1>d. /\ calls'[c] # NoCall /\ calls'[c].stage = "lookUp" /\ calls'[c].op = "heartbeat"
      /\ calls'[c].key = Key(r) /\ calls'[c].token = runs[r].token /\ calls[c] = NoCall
      /\ \A d \in Calls : d # c => calls'[d] = calls[d]
  BY <1>a, ArrivesFacts DEF NoCall
<1>o. ASSUME NEW k \in Keys, NEW d \in Open(k)'
      PROVE  (d = c /\ k = Key(r)) \/ (d # c /\ d \in Open(k) /\ calls'[d] = calls[d])
  BY <1>d, <1>o DEF Open
<1>n. \A k \in Keys : Newest(k)' = Newest(k)
  <2>1. ASSUME NEW k \in Keys  PROVE Saved(k)' = Saved(k)
    BY <1>b DEF Saved
  <2> QED  BY <2>1 DEF Newest
<1>1. InOrder'
  BY <1>b DEF InOrder
<1>2. Overlaps'
  <2>1. ASSUME NEW k \in Keys, NEW x \in Open(k)', NEW y \in Open(k)', x # y,
               calls'[y].op = "register"
        PROVE  ~issued'[calls'[y].token].lone
    <3>1. y # c /\ y \in Open(k) /\ calls'[y] = calls[y] /\ calls[y] \in Call
      BY <1>d, <1>o, <2>1 DEF Open
    <3>2. calls[y].token \in Tokens /\ calls[y].op = "register"
      BY <3>1, <2>1 DEF Call
    <3>3. CASE x = c
      BY <1>b, <1>o, <3>1, <3>2, <3>3
    <3>4. CASE x # c
      BY <1>b, <1>o, <2>1, <3>1, <3>2, <3>4 DEF Overlaps
    <3> QED  BY <3>3, <3>4
  <2> QED  BY <2>1 DEF Overlaps
<1>3. LateSaves'
  <2>1. ASSUME NEW d \in Calls, calls'[d].stage \in {"lookUp", "find", "upsert"},
               calls'[d].op = "register", NEW t \in Tokens, t > calls'[d].token,
               issued'[t].key = calls'[d].key
        PROVE  ~issued'[t].lone
    BY <1>b, <1>d, <2>1 DEF LateSaves
  <2> QED  BY <2>1 DEF LateSaves
<1>4. FoundStands'
  <2>1. ASSUME NEW d \in Calls, calls'[d].stage = "upsert", calls'[d].op = "heartbeat",
               NEW k \in Keys, calls'[d].key = k, NEW t \in Newest(k)', issued'[t].lone
        PROVE  calls'[d].found = t
    <3>1. d # c /\ calls'[d] = calls[d] /\ calls[d].key \in Keys
      BY <1>d, <2>1 DEF Call, NoCall
    <3>2. t \in Newest(calls[d].key) /\ t \in Tokens
      BY <1>n, <2>1, <3>1 DEF Newest, Saved
    <3> QED  BY <1>b, <2>1, <3>1, <3>2 DEF FoundStands
  <2>2. \A d \in Calls : calls'[d].stage = "upsert" => calls'[d].key \in Keys
    BY <1>a, ArrivesFacts DEF Call, NoCall
  <2> QED  BY <2>1, <2>2 DEF FoundStands, Newest, Saved
<1>5. TokenStands'
  BY <1>a, <1>b, <1>n DEF TokenStands, Newest, Saved
<1> QED  BY <1>1, <1>2, <1>3, <1>4, <1>5 DEF Fresh

\* So does a snapshot.
LEMMA SnapshotFresh ==
  ASSUME IInv, NEW r \in Runs, NEW c \in Calls, Snapshot(r, c)
  PROVE  Fresh'
<1> USE CallForms, RowForms DEF IInv, Sound, Fresh
<1>a. /\ Arrives(c, r, "snapshot", Key(r), runs[r].token) /\ runs[r].at = "reported"
      /\ runs[r].token \in Tokens
      /\ UNCHANGED <<rows, reports, config, faults>>
  BY DEF Snapshot, TypeOK, Run, RunsSound, RunSound
<1>b. \A u \in Tokens : /\ issued'[u].key = issued[u].key /\ issued'[u].saved = issued[u].saved
                        /\ issued'[u].lone =>
                             /\ issued[u].lone
                             /\ \A d \in Open(Key(r)) :
                                  calls[d].op = "register" => calls[d].token # u
  BY CrossedKeeps, KeysTyped DEF Snapshot
<1>d. /\ calls'[c] # NoCall /\ calls'[c].stage = "lookUp" /\ calls'[c].op = "snapshot"
      /\ calls'[c].key = Key(r) /\ calls'[c].token = runs[r].token /\ calls[c] = NoCall
      /\ \A d \in Calls : d # c => calls'[d] = calls[d]
  BY <1>a, ArrivesFacts DEF NoCall
<1>o. ASSUME NEW k \in Keys, NEW d \in Open(k)'
      PROVE  (d = c /\ k = Key(r)) \/ (d # c /\ d \in Open(k) /\ calls'[d] = calls[d])
  BY <1>d, <1>o DEF Open
<1>n. \A k \in Keys : Newest(k)' = Newest(k)
  <2>1. ASSUME NEW k \in Keys  PROVE Saved(k)' = Saved(k)
    BY <1>b DEF Saved
  <2> QED  BY <2>1 DEF Newest
<1>1. InOrder'
  BY <1>b DEF InOrder
<1>2. Overlaps'
  <2>1. ASSUME NEW k \in Keys, NEW x \in Open(k)', NEW y \in Open(k)', x # y,
               calls'[y].op = "register"
        PROVE  ~issued'[calls'[y].token].lone
    <3>1. y # c /\ y \in Open(k) /\ calls'[y] = calls[y] /\ calls[y] \in Call
      BY <1>d, <1>o, <2>1 DEF Open
    <3>2. calls[y].token \in Tokens /\ calls[y].op = "register"
      BY <3>1, <2>1 DEF Call
    <3>3. CASE x = c
      BY <1>b, <1>o, <3>1, <3>2, <3>3
    <3>4. CASE x # c
      BY <1>b, <1>o, <2>1, <3>1, <3>2, <3>4 DEF Overlaps
    <3> QED  BY <3>3, <3>4
  <2> QED  BY <2>1 DEF Overlaps
<1>3. LateSaves'
  <2>1. ASSUME NEW d \in Calls, calls'[d].stage \in {"lookUp", "find", "upsert"},
               calls'[d].op = "register", NEW t \in Tokens, t > calls'[d].token,
               issued'[t].key = calls'[d].key
        PROVE  ~issued'[t].lone
    BY <1>b, <1>d, <2>1 DEF LateSaves
  <2> QED  BY <2>1 DEF LateSaves
<1>4. FoundStands'
  <2>1. ASSUME NEW d \in Calls, calls'[d].stage = "upsert", calls'[d].op = "heartbeat",
               NEW k \in Keys, calls'[d].key = k, NEW t \in Newest(k)', issued'[t].lone
        PROVE  calls'[d].found = t
    <3>1. d # c /\ calls'[d] = calls[d] /\ calls[d].key \in Keys
      BY <1>d, <2>1 DEF Call, NoCall
    <3>2. t \in Newest(calls[d].key) /\ t \in Tokens
      BY <1>n, <2>1, <3>1 DEF Newest, Saved
    <3> QED  BY <1>b, <2>1, <3>1, <3>2 DEF FoundStands
  <2>2. \A d \in Calls : calls'[d].stage = "upsert" => calls'[d].key \in Keys
    BY <1>a, ArrivesFacts DEF Call, NoCall
  <2> QED  BY <2>1, <2>2 DEF FoundStands, Newest, Saved
<1>5. TokenStands'
  BY <1>a, <1>b, <1>n DEF TokenStands, Newest, Saved
<1> QED  BY <1>1, <1>2, <1>3, <1>4, <1>5 DEF Fresh

LEMMA TokenArrivesFresh ==
  ASSUME IInv, NEW r \in Runs, TokenArrives(r)
  PROVE  Fresh'
<1> USE EnrollmentAssumption, CallForms, RowForms DEF IInv, Sound, Fresh
<1>1. InOrder'
  BY DEF TokenArrives, TypeOK, InOrder, NotIssued, Tokens
<1>2. Overlaps'
  BY DEF TokenArrives, TypeOK, Overlaps, Open, Call, NoCall
<1>3. LateSaves'
  BY DEF TokenArrives, TypeOK, LateSaves, Call, NoCall, Open, Tokens, NotIssued
<1>4. FoundStands'
  BY DEF TokenArrives, TypeOK, FoundStands, Newest, Saved, TokenStands, Call, NoCall, Open
<1>5. TokenStands'
  BY DEF TokenArrives, TypeOK, TokenStands, Newest, Saved, FoundStands
<1> QED  BY <1>1, <1>2, <1>3, <1>4, <1>5 DEF Fresh

LEMMA SaveConfigFresh ==
  ASSUME IInv, NEW r \in Runs, SaveConfig(r)
  PROVE  Fresh'
<1> USE EnrollmentAssumption, CallForms, RowForms DEF IInv, Sound, Fresh
<1>1. InOrder'
  BY DEF SaveConfig, TypeOK, InOrder, NotIssued, Tokens
<1>2. Overlaps'
  BY DEF SaveConfig, TypeOK, Overlaps, Open, Call, NoCall
<1>3. LateSaves'
  BY DEF SaveConfig, TypeOK, LateSaves, Call, NoCall, Open, Tokens, NotIssued
<1>4. FoundStands'
  BY DEF SaveConfig, TypeOK, FoundStands, Newest, Saved, TokenStands, Call, NoCall, Open
<1>5. TokenStands'
  BY DEF SaveConfig, TypeOK, TokenStands, Newest, Saved, FoundStands
<1> QED  BY <1>1, <1>2, <1>3, <1>4, <1>5 DEF Fresh

LEMMA ReportAcceptedFresh ==
  ASSUME IInv, NEW r \in Runs, ReportAccepted(r)
  PROVE  Fresh'
<1> USE EnrollmentAssumption, CallForms, RowForms DEF IInv, Sound, Fresh
<1>1. InOrder'
  BY DEF ReportAccepted, TypeOK, InOrder, NotIssued, Tokens
<1>2. Overlaps'
  BY DEF ReportAccepted, TypeOK, Overlaps, Open, Call, NoCall
<1>3. LateSaves'
  BY DEF ReportAccepted, TypeOK, LateSaves, Call, NoCall, Open, Tokens, NotIssued
<1>4. FoundStands'
  BY DEF ReportAccepted, TypeOK, FoundStands, Newest, Saved, TokenStands, Call, NoCall, Open
<1>5. TokenStands'
  BY DEF ReportAccepted, TypeOK, TokenStands, Newest, Saved, FoundStands
<1> QED  BY <1>1, <1>2, <1>3, <1>4, <1>5 DEF Fresh

LEMMA FinishFresh ==
  ASSUME IInv, NEW r \in Runs, Finish(r)
  PROVE  Fresh'
<1> USE EnrollmentAssumption, CallForms, RowForms DEF IInv, Sound, Fresh
<1>1. InOrder'
  BY DEF Finish, TypeOK, InOrder, NotIssued, Tokens
<1>2. Overlaps'
  BY DEF Finish, TypeOK, Overlaps, Open, Call, NoCall
<1>3. LateSaves'
  BY DEF Finish, TypeOK, LateSaves, Call, NoCall, Open, Tokens, NotIssued
<1>4. FoundStands'
  BY DEF Finish, TypeOK, FoundStands, Newest, Saved, TokenStands, Call, NoCall, Open
<1>5. TokenStands'
  BY DEF Finish, TypeOK, TokenStands, Newest, Saved, FoundStands
<1> QED  BY <1>1, <1>2, <1>3, <1>4, <1>5 DEF Fresh

LEMMA GiveUpFresh ==
  ASSUME IInv, NEW r \in Runs, GiveUp(r)
  PROVE  Fresh'
<1> USE EnrollmentAssumption, CallForms, RowForms DEF IInv, Sound, Fresh
<1>1. InOrder'
  BY DEF GiveUp, TypeOK, InOrder, NotIssued, Tokens
<1>2. Overlaps'
  BY DEF GiveUp, TypeOK, Overlaps, Open, Call, NoCall
<1>3. LateSaves'
  BY DEF GiveUp, TypeOK, LateSaves, Call, NoCall, Open, Tokens, NotIssued
<1>4. FoundStands'
  BY DEF GiveUp, TypeOK, FoundStands, Newest, Saved, TokenStands, Call, NoCall, Open
<1>5. TokenStands'
  BY DEF GiveUp, TypeOK, TokenStands, Newest, Saved, FoundStands
<1> QED  BY <1>1, <1>2, <1>3, <1>4, <1>5 DEF Fresh

LEMMA RunDiesFresh ==
  ASSUME IInv, NEW r \in Runs, RunDies(r)
  PROVE  Fresh'
<1> USE EnrollmentAssumption, CallForms, RowForms DEF IInv, Sound, Fresh
<1>1. InOrder'
  BY DEF RunDies, TypeOK, InOrder, NotIssued, Tokens
<1>2. Overlaps'
  BY DEF RunDies, TypeOK, Overlaps, Open, Call, NoCall
<1>3. LateSaves'
  BY DEF RunDies, TypeOK, LateSaves, Call, NoCall, Open, Tokens, NotIssued
<1>4. FoundStands'
  BY DEF RunDies, TypeOK, FoundStands, Newest, Saved, TokenStands, Call, NoCall, Open
<1>5. TokenStands'
  BY DEF RunDies, TypeOK, TokenStands, Newest, Saved, FoundStands
<1> QED  BY <1>1, <1>2, <1>3, <1>4, <1>5 DEF Fresh

LEMMA LookUpDeviceFresh ==
  ASSUME IInv, NEW c \in Calls, LookUpDevice(c)
  PROVE  Fresh'
<1> USE EnrollmentAssumption, CallForms, RowForms DEF IInv, Sound, Fresh
<1>1. InOrder'
  BY DEF LookUpDevice, Step, Ended, TypeOK, InOrder, NotIssued, Tokens
<1>2. Overlaps'
  BY DEF LookUpDevice, Step, Ended, TypeOK, Overlaps, Open, Call, NoCall
<1>3. LateSaves'
  BY DEF LookUpDevice, Step, Ended, TypeOK, LateSaves, Call, NoCall, Open, Tokens, NotIssued
<1>4. FoundStands'
  BY DEF LookUpDevice, Step, Ended, TypeOK, FoundStands, Newest, Saved, TokenStands, Call, NoCall,
       Open
<1>5. TokenStands'
  BY DEF LookUpDevice, Step, Ended, TypeOK, TokenStands, Newest, Saved, FoundStands
<1> QED  BY <1>1, <1>2, <1>3, <1>4, <1>5 DEF Fresh

LEMMA AuthenticateFresh ==
  ASSUME IInv, NEW c \in Calls, Authenticate(c)
  PROVE  Fresh'
<1> USE EnrollmentAssumption, CallForms, RowForms DEF IInv, Sound, Fresh
<1>1. InOrder'
  BY DEF Authenticate, Step, Ended, TypeOK, InOrder, NotIssued, Tokens
<1>2. Overlaps'
  BY DEF Authenticate, Step, Ended, TypeOK, Overlaps, Open, Call, NoCall
<1>3. LateSaves'
  BY DEF Authenticate, Step, Ended, TypeOK, LateSaves, Call, NoCall, Open, Tokens, NotIssued
<1>4. FoundStands'
  BY DEF Authenticate, Step, Ended, TypeOK, FoundStands, Newest, Saved, TokenStands, Call, NoCall,
       Open
<1>5. TokenStands'
  BY DEF Authenticate, Step, Ended, TypeOK, TokenStands, Newest, Saved, FoundStands
<1> QED  BY <1>1, <1>2, <1>3, <1>4, <1>5 DEF Fresh

LEMMA RecordHeartbeatFresh ==
  ASSUME IInv, NEW c \in Calls, RecordHeartbeat(c)
  PROVE  Fresh'
<1> USE CallForms, RowForms DEF IInv, Sound, Fresh
<1>1. InOrder'
  BY DEF RecordHeartbeat, Step, Ended, TypeOK, InOrder, NotIssued, Tokens
<1>2. Overlaps'
  BY DEF RecordHeartbeat, Step, Ended, TypeOK, Overlaps, Open, Call, NoCall
<1>3. LateSaves'
  <2>1. calls[c].op = "heartbeat" /\ calls[c] \in Call /\ UNCHANGED issued
    BY DEF RecordHeartbeat, CallsSound, CallSound, NoCall
  <2>2. calls'[c].op = "heartbeat" /\ \A d \in Calls : d # c => calls'[d] = calls[d]
    BY <2>1 DEF RecordHeartbeat, Step, TypeOK, Call
  <2> QED  BY <2>1, <2>2 DEF LateSaves
<1>4. FoundStands'
  BY DEF RecordHeartbeat, Step, Ended, TypeOK, FoundStands, Newest, Saved, TokenStands, Call,
       NoCall, Open
<1>5. TokenStands'
  BY DEF RecordHeartbeat, Step, Ended, TypeOK, TokenStands, Newest, Saved, FoundStands
<1> QED  BY <1>1, <1>2, <1>3, <1>4, <1>5 DEF Fresh

\* What a heartbeat reads now is the token that stands.
LEMMA FindDeviceFresh ==
  ASSUME IInv, NEW c \in Calls, FindDevice(c)
  PROVE  Fresh'
<1> USE EnrollmentAssumption, CallForms, RowForms DEF IInv, Sound, Fresh
<1>1. InOrder'
  BY DEF FindDevice, Step, Ended, TypeOK, InOrder, NotIssued, Tokens
<1>2. Overlaps'
  BY DEF FindDevice, Step, Ended, TypeOK, Overlaps, Open, Call, NoCall
<1>3. LateSaves'
  BY DEF FindDevice, Step, Ended, TypeOK, LateSaves, Call, NoCall, Open, Tokens, NotIssued
<1>4. FoundStands'
  <2>1. UNCHANGED <<rows, issued>> /\ calls[c] \in Call /\ calls[c].key \in Keys
    BY DEF FindDevice, NoCall, Call
  <2>2. \A d \in Calls : d # c => calls'[d] = calls[d]
    BY DEF FindDevice, Step, TypeOK
  <2>3. CASE calls[c].op = "heartbeat"
    <3>1. rows[calls[c].key].id = calls[c].device
      BY <2>3, <2>1 DEF FindDevice, CallsSound, CallSound, AtDevice, NoCall
    <3>2. calls'[c] = [calls[c] EXCEPT !.stage = "upsert", !.found = rows[calls[c].key].token]
      BY <2>3, <3>1 DEF FindDevice, Step, TypeOK
    <3>3. calls'[c].key = calls[c].key /\ calls'[c].found = rows[calls[c].key].token
      BY <2>1, <3>2 DEF Call
    <3>4. \A t \in Newest(calls[c].key) : issued[t].lone => calls'[c].found = t
      BY <2>1, <3>3 DEF TokenStands
    <3> QED  BY <2>1, <2>2, <3>3, <3>4 DEF FoundStands, Newest, Saved
  <2>4. CASE calls[c].op # "heartbeat"
    <3>1. calls'[c].op # "heartbeat"
      BY <2>1, <2>4 DEF FindDevice, Step, TypeOK, Call
    <3> QED  BY <2>1, <2>2, <3>1 DEF FoundStands, Newest, Saved
  <2> QED  BY <2>3, <2>4
<1>5. TokenStands'
  BY DEF FindDevice, Step, Ended, TypeOK, TokenStands, Newest, Saved, FoundStands
<1> QED  BY <1>1, <1>2, <1>3, <1>4, <1>5 DEF Fresh

\* A registration that saves becomes the newest, or was overlapped; a heartbeat that
\* found its token before was overlapped by it.
LEMMA UpsertDeviceFresh ==
  ASSUME IInv, NEW c \in Calls, UpsertDevice(c)
  PROVE  Fresh'
<1> USE CallForms, RowForms DEF IInv, Sound, Fresh
<1> DEFINE call == calls[c]
           row == rows[call.key]
<1>0. /\ call \in Call /\ call # NoCall /\ call.op \in {"register", "heartbeat"}
      /\ CallSound(call) /\ call.stage = "upsert"
      /\ call.key \in Keys /\ call.token \in Tokens /\ c \in Open(call.key)
  BY DEF UpsertDevice, CallsSound, CallSound, NoCall, Call, Open
<1>s. /\ \A d \in Calls : d # c => calls'[d] = calls[d]
      /\ calls'[c] # NoCall => calls'[c].stage \in {"snapshot", "replied", "refused"}
      /\ \A k \in Keys : Open(k)' \subseteq Open(k)
      /\ calls'[c] # NoCall => calls'[c].op = call.op /\ calls'[c].token = call.token
  <2>1. PICK q \in Call \cup {NoCall} :
          /\ Step(c, q)
          /\ q # NoCall => /\ q.stage \in {"snapshot", "replied", "refused"}
                           /\ q.op = call.op /\ q.token = call.token /\ q.key = call.key
    <3>1. \E s \in {"snapshot", "replied", "refused"} :
            Step(c, [call EXCEPT !.stage = s]) \/ Step(c, Ended(call, s))
      BY DEF UpsertDevice
    <3>2. \A s \in {"snapshot", "replied", "refused"} :
            /\ [call EXCEPT !.stage = s] \in Call /\ [call EXCEPT !.stage = s].stage = s
            /\ [call EXCEPT !.stage = s].op = call.op /\ [call EXCEPT !.stage = s].key = call.key
            /\ [call EXCEPT !.stage = s].token = call.token
      BY <1>0 DEF Call, Stages
    <3> QED  BY <3>1, <3>2 DEF Ended
  <2>2. calls'[c] = q /\ \A d \in Calls : d # c => calls'[d] = calls[d]
    BY <2>1, StepFacts
  <2> QED  BY <1>0, <2>1, <2>2 DEF Open, NoCall
<1>i. /\ \A t \in Tokens : issued'[t].key = issued[t].key /\ issued'[t].lone = issued[t].lone
      /\ \A t \in Tokens : issued'[t].saved =>
           issued[t].saved \/ (t = call.token /\ call.op = "register")
      /\ \A t \in Tokens : issued[t].saved => issued'[t].saved
  <2>1. CASE call.op = "register" /\ (row = NoDevice \/ row.id = call.device)
    <3>1. issued' = [issued EXCEPT ![call.token] = [issued[call.token] EXCEPT !.saved = TRUE]]
      BY <2>1 DEF UpsertDevice, TypeOK
    <3>2. issued[call.token] \in [key : Keys \cup {"none"}, saved : BOOLEAN, lone : BOOLEAN]
      BY <1>0 DEF TypeOK
    <3>3. /\ [issued[call.token] EXCEPT !.saved = TRUE].key = issued[call.token].key
          /\ [issued[call.token] EXCEPT !.saved = TRUE].lone = issued[call.token].lone
          /\ [issued[call.token] EXCEPT !.saved = TRUE].saved
      BY <3>2
    <3> QED  BY <1>0, <2>1, <3>1, <3>3 DEF TypeOK
  <2>2. CASE ~(call.op = "register" /\ (row = NoDevice \/ row.id = call.device))
    BY <2>2 DEF UpsertDevice
  <2> QED  BY <2>1, <2>2
<1>k. call.op = "register" => issued[call.token].key = call.key
  BY <1>0 DEF CallSound
<1>n. ASSUME NEW k \in Keys, NEW t \in Newest(k)'
      PROVE  /\ t \in Tokens
             /\ \/ t \in Newest(k) /\ (call.op = "register" /\ call.key = k
                                        /\ issued'[call.token].saved => call.token <= t)
                \/ t = call.token /\ call.op = "register" /\ call.key = k
  BY <1>n, <1>i, <1>k, <1>0 DEF Newest, Saved
<1>1. InOrder'
  <2>1. call.op = "register" => issued[call.token].key # "none"
    BY <1>0, <1>k, EnrollmentAssumption
  <2> QED  BY <1>i, <2>1 DEF InOrder
<1>2. Overlaps'
  <2>1. ASSUME NEW k \in Keys, NEW x \in Open(k)', NEW y \in Open(k)', x # y,
               calls'[y].op = "register"
        PROVE  ~issued'[calls'[y].token].lone
    <3>1. x \in Open(k) /\ y \in Open(k) /\ calls'[y].op = calls[y].op
          /\ calls'[y].token = calls[y].token /\ calls[y] \in Call
      BY <1>s, <2>1 DEF Open, NoCall
    <3>2. calls[y].token \in Tokens
      BY <3>1 DEF Call
    <3> QED  BY <1>i, <2>1, <3>1, <3>2 DEF Overlaps
  <2> QED  BY <2>1 DEF Overlaps
<1>3. LateSaves'
  <2>1. ASSUME NEW d \in Calls, calls'[d].stage \in {"lookUp", "find", "upsert"},
               calls'[d].op = "register", NEW t \in Tokens, t > calls'[d].token,
               issued'[t].key = calls'[d].key
        PROVE  ~issued'[t].lone
    BY <1>i, <1>s, <2>1 DEF LateSaves, NoCall
  <2> QED  BY <2>1 DEF LateSaves
<1>4. FoundStands'
  <2>1. ASSUME NEW d \in Calls, calls'[d].stage = "upsert", calls'[d].op = "heartbeat",
               NEW k \in Keys, calls'[d].key = k, NEW t \in Newest(k)', issued'[t].lone
        PROVE  calls'[d].found = t
    <3>1. d # c /\ calls'[d] = calls[d] /\ d \in Open(k)
      BY <1>s, <2>1 DEF NoCall, Open
    <3>2. CASE t \in Newest(k)
      BY <1>i, <1>n, <2>1, <3>1, <3>2 DEF FoundStands
    <3>3. CASE t = call.token /\ call.op = "register" /\ call.key = k
      <4>1. ~issued[t].lone
        BY <1>0, <3>1, <3>3 DEF Overlaps
      <4> QED  BY <1>i, <1>n, <2>1, <4>1
    <3> QED  BY <1>n, <2>1, <3>2, <3>3
  <2>2. \A d \in Calls : calls'[d].stage = "upsert" => calls'[d].key \in Keys
    BY <1>s DEF Call, NoCall
  <2> QED  BY <2>1, <2>2 DEF FoundStands, Newest, Saved
<1>5. TokenStands'
  <2>1. ASSUME NEW k \in Keys, NEW t \in Newest(k)', issued'[t].lone  PROVE rows'[k].token = t
    <3>1. CASE row = NoDevice \/ row.id = call.device
      <4>1. rows' = [rows EXCEPT ![call.key] =
                [id |-> call.device,
                 token |-> IF call.op = "register" THEN call.token ELSE call.found]]
        BY <3>1 DEF UpsertDevice
      <4>2. CASE k # call.key
        BY <1>i, <1>n, <2>1, <4>1, <4>2 DEF TokenStands, TypeOK
      <4>3. CASE k = call.key /\ call.op = "heartbeat"
        <5>1. rows'[k].token = call.found
          BY <4>1, <4>3, <1>0 DEF TypeOK
        <5> QED  BY <1>0, <1>i, <1>n, <2>1, <4>3, <5>1 DEF FoundStands
      <4>4. CASE k = call.key /\ call.op = "register"
        <5>1. rows'[k].token = call.token
          BY <4>1, <4>4, <1>0 DEF TypeOK
        <5>2. issued'[call.token].saved
          <6>1. issued' = [issued EXCEPT ![call.token] =
                             [issued[call.token] EXCEPT !.saved = TRUE]]
            BY <3>1, <4>4 DEF UpsertDevice, TypeOK
          <6>2. issued[call.token] \in
                  [key : Keys \cup {"none"}, saved : BOOLEAN, lone : BOOLEAN]
            BY <1>0 DEF TypeOK
          <6> QED  BY <1>0, <6>1, <6>2 DEF TypeOK
        <5>3. ~(call.token < t)
          <6>1. \A u \in Tokens :
                  u > call.token /\ issued[u].key = call.key => ~issued[u].lone
            BY <1>0, <4>4 DEF LateSaves
          <6>2. issued[t].key = k /\ t \in Tokens
            BY <1>i, <2>1 DEF Newest, Saved
          <6> QED  BY <1>i, <2>1, <4>4, <6>1, <6>2 DEF Tokens
        <5>4. call.token <= t
          BY <1>0, <1>i, <1>k, <2>1, <4>4, <5>2 DEF Newest, Saved
        <5> QED  BY <1>0, <1>n, <2>1, <5>1, <5>3, <5>4 DEF Tokens
      <4> QED  BY <1>0, <4>2, <4>3, <4>4
    <3>2. CASE ~(row = NoDevice \/ row.id = call.device)
      <4>1. UNCHANGED <<rows, issued>>
        BY <3>2 DEF UpsertDevice
      <4> QED  BY <2>1, <4>1 DEF TokenStands, Newest, Saved
    <3> QED  BY <3>1, <3>2
  <2> QED  BY <2>1 DEF TokenStands
<1> QED  BY <1>1, <1>2, <1>3, <1>4, <1>5 DEF Fresh

LEMMA SaveSnapshotFresh ==
  ASSUME IInv, NEW c \in Calls, SaveSnapshot(c)
  PROVE  Fresh'
<1> USE EnrollmentAssumption, CallForms, RowForms DEF IInv, Sound, Fresh
<1>1. InOrder'
  BY DEF SaveSnapshot, Step, Ended, TypeOK, InOrder, NotIssued, Tokens
<1>2. Overlaps'
  BY DEF SaveSnapshot, Step, Ended, TypeOK, Overlaps, Open, Call, NoCall
<1>3. LateSaves'
  BY DEF SaveSnapshot, Step, Ended, TypeOK, LateSaves, Call, NoCall, Open, Tokens, NotIssued
<1>4. FoundStands'
  BY DEF SaveSnapshot, Step, Ended, TypeOK, FoundStands, Newest, Saved, TokenStands, Call, NoCall,
       Open
<1>5. TokenStands'
  BY DEF SaveSnapshot, Step, Ended, TypeOK, TokenStands, Newest, Saved, FoundStands
<1> QED  BY <1>1, <1>2, <1>3, <1>4, <1>5 DEF Fresh

LEMMA ApiDiesFresh ==
  ASSUME IInv, ApiDies
  PROVE  Fresh'
<1> USE EnrollmentAssumption, CallForms, RowForms DEF IInv, Sound, Fresh
<1>1. InOrder'
  BY DEF ApiDies, Ended, TypeOK, InOrder, NotIssued, Tokens
<1>2. Overlaps'
  BY DEF ApiDies, Ended, TypeOK, Overlaps, Open, Call, NoCall
<1>3. LateSaves'
  BY DEF ApiDies, Ended, TypeOK, LateSaves, Call, NoCall, Open, Tokens, NotIssued
<1>4. FoundStands'
  BY DEF ApiDies, Ended, TypeOK, FoundStands, Newest, Saved, TokenStands, Call, NoCall, Open
<1>5. TokenStands'
  BY DEF ApiDies, Ended, TypeOK, TokenStands, Newest, Saved, FoundStands
<1> QED  BY <1>1, <1>2, <1>3, <1>4, <1>5 DEF Fresh

-----------------------------------------------------------------------------
(* The theorems *)

\* Nothing is issued, asked or kept at first.
LEMMA InitIInv == Init => IInv
<1> USE EnrollmentAssumption
<1> SUFFICES ASSUME Init  PROVE IInv
  OBVIOUS
<1>1. TypeOK
  BY IdleTyped DEF Init, TypeOK, NoDevice, NotIssued
<1>2. CallsSound /\ CallsLinked /\ RunsSound
  BY DEF Init, CallsSound, CallsLinked, RunsSound, RunSound, IdleRun
<1>3. KeptTokenWasSaved /\ ReportsOfTheDevice
  BY DEF Init, KeptTokenWasSaved, ReportsOfTheDevice
<1>4. InOrder /\ Overlaps /\ LateSaves /\ FoundStands /\ TokenStands
  BY DEF Init, InOrder, Overlaps, Open, LateSaves, FoundStands, TokenStands, Newest, Saved,
         NotIssued, NoCall
<1> QED  BY <1>1, <1>2, <1>3, <1>4 DEF IInv, Sound, Fresh

\* Every step keeps the invariant.
LEMMA StepIInv == IInv /\ [Next]_vars => IInv'
<1> SUFFICES ASSUME IInv, [Next]_vars  PROVE IInv'
  OBVIOUS
<1>1. ASSUME NEW r \in Runs, AgentStep(r)  PROVE IInv'
  <2>1. CASE \E mode \in {"run", "register", "heartbeat"} : LoadConfig(r, mode)
    BY <2>1, LoadConfigSound, LoadConfigFresh DEF IInv
  <2>2. CASE \E c \in Calls, t \in Tokens : Register(r, c, t)
    BY <2>2, RegisterSound, RegisterFresh DEF IInv
  <2>3. CASE \E c \in Calls : Heartbeat(r, c)
    BY <2>3, HeartbeatSound, HeartbeatFresh DEF IInv
  <2>4. CASE \E c \in Calls : Snapshot(r, c)
    BY <2>4, SnapshotSound, SnapshotFresh DEF IInv
  <2>5. CASE TokenArrives(r)
    BY <2>5, TokenArrivesSound, TokenArrivesFresh DEF IInv
  <2>6. CASE SaveConfig(r)
    BY <2>6, SaveConfigSound, SaveConfigFresh DEF IInv
  <2>7. CASE ReportAccepted(r)
    BY <2>7, ReportAcceptedSound, ReportAcceptedFresh DEF IInv
  <2>8. CASE Finish(r)
    BY <2>8, FinishSound, FinishFresh DEF IInv
  <2>9. CASE GiveUp(r)
    BY <2>9, GiveUpSound, GiveUpFresh DEF IInv
  <2>10. CASE RunDies(r)
    BY <2>10, RunDiesSound, RunDiesFresh DEF IInv
  <2> QED  BY <1>1, <2>1, <2>2, <2>3, <2>4, <2>5, <2>6, <2>7, <2>8, <2>9, <2>10 DEF AgentStep
<1>2. ASSUME NEW c \in Calls, ApiStep(c)  PROVE IInv'
  <2>1. CASE LookUpDevice(c)
    BY <2>1, LookUpDeviceSound, LookUpDeviceFresh DEF IInv
  <2>2. CASE Authenticate(c)
    BY <2>2, AuthenticateSound, AuthenticateFresh DEF IInv
  <2>3. CASE RecordHeartbeat(c)
    BY <2>3, RecordHeartbeatSound, RecordHeartbeatFresh DEF IInv
  <2>4. CASE FindDevice(c)
    BY <2>4, FindDeviceSound, FindDeviceFresh DEF IInv
  <2>5. CASE UpsertDevice(c)
    BY <2>5, UpsertDeviceSound, UpsertDeviceFresh DEF IInv
  <2>6. CASE SaveSnapshot(c)
    BY <2>6, SaveSnapshotSound, SaveSnapshotFresh DEF IInv
  <2> QED  BY <1>2, <2>1, <2>2, <2>3, <2>4, <2>5, <2>6 DEF ApiStep
<1>3. CASE ApiDies
  BY <1>3, ApiDiesSound, ApiDiesFresh DEF IInv
<1>4. CASE UNCHANGED vars
  BY <1>4 DEF vars, IInv, Sound, Fresh, TypeOK, CallsSound, CallSound, AtDevice, CallsLinked,
       RunsSound, RunSound, KeptTokenWasSaved, Saved, ReportsOfTheDevice, InOrder, Overlaps,
       Open, LateSaves, FoundStands, Newest, TokenStands
<1> QED  BY <1>1, <1>2, <1>3, <1>4 DEF Next

\* The invariant holds throughout.
LEMMA Invariance == Spec => []IInv
<1> QED  BY InitIInv, StepIInv, PTL DEF Spec

\* The type invariant: a stale save leaves no device without a token and no
\* report without a device.
THEOREM DeviceTypes == Spec => []TypeOK
<1>1. IInv => TypeOK
  BY DEF IInv, Sound
<1> QED  BY <1>1, Invariance, PTL

\* The token of a registration that nothing overlapped stays the one the row
\* knows until a later registration saves, whatever heartbeats read before and
\* save after.
THEOREM TokensStand == Spec => []TokenStands
<1>1. IInv => TokenStands
  BY DEF IInv, Fresh
<1> QED  BY <1>1, Invariance, PTL

\* What a machine keeps in its config file is a token the API saved, wherever
\* a registration is cut short.
THEOREM KeptTokens == Spec => []KeptTokenWasSaved
<1>1. IInv => KeptTokenWasSaved
  BY DEF IInv, Sound
<1> QED  BY <1>1, Invariance, PTL

\* The heartbeats and snapshots of a key are all of one device, however many
\* machines register it at once.
THEOREM ReportsStay == Spec => []ReportsOfTheDevice
<1>1. IInv => ReportsOfTheDevice
  BY DEF IInv, Sound
<1> QED  BY <1>1, Invariance, PTL

=============================================================================
