------------------------------ MODULE RuleStore ------------------------------
(***************************************************************************)
(* The forwarding rules of one node and the JSON file that persists them:  *)
(* the command handlers of the daemon's Unix socket, HTTP API and manager  *)
(* client (forward/src/cmd.rs, http.rs, manager_client.rs), the rule       *)
(* operations they share (rule.rs) and the restore at start-up (main.rs).  *)
(*                                                                         *)
(* Every command runs in a task of its own, except that the manager client *)
(* is one task; the tasks share FORWARD_MAP under a mutex and the file     *)
(* under nothing. This module is for a daemon started with --rules-path.   *)
(***************************************************************************)
EXTENDS Integers, FiniteSets

CONSTANTS
  Task,         \* tasks that handle commands
  RuleKey,      \* protocol and local port
  Target,       \* target address and port
  MaxRules,     \* max_entries of FORWARD_MAP (1024)
  MayCrash,     \* the daemon may be killed, not only interrupted by Ctrl-C
  MayMiss,      \* a target's MAC address may fail to resolve during a restore
  MayFailDisk,  \* creating or writing the file may fail
  None,         \* no rule
  Unknown,      \* the outcome of a command that was not answered
  Garbled, Absent  \* what a file that holds no rules may be

ASSUME RoomAssumption == MaxRules \in Nat
ASSUME FlagAssumption == {MayCrash, MayMiss, MayFailDisk} \subseteq BOOLEAN
ASSUME ValueAssumption ==
  /\ None \notin Target /\ Unknown \notin Target \cup {None}
  /\ IsFiniteSet(RuleKey) /\ RuleKey # {}
  /\ {Garbled, Absent} \cap [RuleKey -> Target \cup {None}] = {} /\ Garbled # Absent

VARIABLES
  fwd,      \* FORWARD_MAP
  file,     \* the rules file: its length and the rules it parses to
  daemon,   \* "down", "restoring" or "serving"
  restore,  \* rules read from the file and not yet added again
  task,     \* the command each task is at
  acked     \* history: what clients were last told of each key

vars == <<fwd, file, daemon, restore, task, acked>>

Rules == [RuleKey -> Target \cup {None}]
NoRules == [k \in RuleKey |-> None]
Entries(m) == {k \in RuleKey : m[k] # None}

Readable == file.rules \notin {Garbled, Absent}

(* The length of the file's text, counted in rules, and 1 for the brackets. *)
Length(m) == Cardinality(Entries(m)) + 1

Resting == [pc |-> "idle", key |-> None, to |-> None, rules |-> NoRules]

Init ==
  /\ fwd = NoRules /\ file = [len |-> 0, rules |-> Absent]
  /\ daemon = "down" /\ restore = NoRules
  /\ task = [t \in Task |-> Resting]
  /\ acked = NoRules

SlipAccepts(k, v) == v # None \/ fwd[k] # None

(* insert needs room for a new key, remove needs the key. *)
Accepts(k, v) ==
  IF v = None THEN fwd[k] # None
  ELSE fwd[k] # None \/ Cardinality(Entries(fwd)) < MaxRules

-----------------------------------------------------------------------------
(* Start-up and shutdown. *)

(* An absent file and one that does not parse both start a node without rules;
   the second is only warned about. *)
Start ==
  /\ daemon = "down"
  /\ \/ Readable  /\ daemon' = "restoring" /\ restore' = file.rules
     \/ ~Readable /\ daemon' = "serving"   /\ restore' = NoRules
  /\ UNCHANGED <<fwd, file, task, acked>>

(* add_forward_rule may fail, because the target cannot be resolved or there is
   no room: logged, and the next one. *)
RestoreRule(k) ==
  /\ daemon = "restoring" /\ restore[k] # None
  /\ \/ Accepts(k, restore[k]) /\ fwd' = [fwd EXCEPT ![k] = restore[k]]
     \/ (MayMiss \/ ~Accepts(k, restore[k])) /\ fwd' = fwd
  /\ restore' = [restore EXCEPT ![k] = None]
  /\ UNCHANGED <<file, daemon, task, acked>>

SlipServe ==
  /\ daemon = "restoring" /\ daemon' = "serving" /\ restore' = NoRules
  /\ UNCHANGED <<fwd, file, task, acked>>

(* Only a finished restore lets the servers and the manager client start. *)
Serve ==
  /\ daemon = "restoring" /\ restore = NoRules /\ daemon' = "serving"
  /\ UNCHANGED <<fwd, file, restore, task, acked>>

(* The process is gone and with it its maps and its tasks. On Ctrl-C main
   returns, and the runtime drops each task where it waits; a save waits for
   nothing, so that comes before or after it. Any other signal, or the power,
   ends the process between any two steps. *)
Exit ==
  /\ daemon # "down" /\ daemon' = "down"
  /\ MayCrash \/ \A t \in Task : task[t].pc \notin {"create", "write"}
  /\ fwd' = NoRules /\ restore' = NoRules
  /\ task' = [t \in Task |-> Resting]
  /\ UNCHANGED <<file, acked>>

-----------------------------------------------------------------------------
(* The command handlers. *)

At(t, pc) == daemon = "serving" /\ task[t].pc = pc
Goto(t, pc) == task' = [task EXCEPT ![t].pc = pc]

BeginAdd(t, k, v) ==
  /\ At(t, "idle")
  /\ task' = [task EXCEPT ![t] = [Resting EXCEPT !.pc = "resolve", !.key = k, !.to = v]]
  /\ UNCHANGED <<fwd, file, daemon, restore, acked>>

BeginDelete(t, k) ==
  /\ At(t, "idle")
  /\ task' = [task EXCEPT ![t] = [Resting EXCEPT !.pc = "apply", !.key = k]]
  /\ UNCHANGED <<fwd, file, daemon, restore, acked>>

(* resolve_ip_mac waits for ARP, before the mutex is taken. *)
Resolve(t) ==
  /\ At(t, "resolve")
  /\ \/ Goto(t, "apply")
     \/ task' = [task EXCEPT ![t] = Resting]    \* answered with an error
  /\ UNCHANGED <<fwd, file, daemon, restore, acked>>

Apply(t) ==
  LET k == task[t].key
      v == task[t].to
  IN
  /\ At(t, "apply")
  /\ \/ /\ Accepts(k, v)
        /\ fwd' = [fwd EXCEPT ![k] = v]
        /\ acked' = [acked EXCEPT ![k] = Unknown]
        /\ Goto(t, "list")
     \/ /\ ~Accepts(k, v)
        /\ task' = [task EXCEPT ![t] = Resting]    \* answered with an error
        /\ UNCHANGED <<fwd, acked>>
  /\ UNCHANGED <<file, daemon, restore>>

(* The rule is put into the list of the file, FORWARD_MAP is not read. *)
SlipList(t) ==
  /\ At(t, "list")
  /\ task' = [task EXCEPT ![t].pc = "create",
       ![t].rules = [IF Readable THEN file.rules ELSE NoRules EXCEPT ![task[t].key] = task[t].to]]
  /\ UNCHANGED <<fwd, file, daemon, restore, acked>>

(* list_forward_rules, under the mutex again; what follows is not. *)
List(t) ==
  /\ At(t, "list")
  /\ task' = [task EXCEPT ![t].pc = "create", ![t].rules = fwd]
  /\ UNCHANGED <<fwd, file, daemon, restore, acked>>

SlipCreate(t) ==
  /\ At(t, "create")
  /\ Goto(t, "write")
  /\ UNCHANGED <<fwd, file, daemon, restore, acked>>

(* File::create truncates the file in place. The result of a save is ignored. *)
Create(t) ==
  /\ At(t, "create")
  /\ \/ /\ file' = [len |-> 0, rules |-> Garbled]
        /\ Goto(t, "write")
     \/ /\ MayFailDisk
        /\ file' = file
        /\ Goto(t, "reply")
  /\ UNCHANGED <<fwd, daemon, restore, acked>>

SlipOverwritten(m) == [file EXCEPT !.rules = m]

(* What writing m from the start of the file makes of it: longer text that
   another save has written meanwhile sticks out behind. *)
Overwritten(m) ==
  IF Length(m) < file.len THEN [file EXCEPT !.rules = Garbled]
  ELSE [len |-> Length(m), rules |-> m]

(* The texts that meet in the file: of every save under way, and of a save that
   ended after this one had truncated the file. *)
Meeting(t) ==
  {task[u].rules : u \in {v \in Task : task[v].pc = "write"}}
    \cup IF file.len = 0 THEN {} ELSE {file.rules}

(* The text is written piece by piece, each save at its own offset: of equally
   long texts that meet, one rule may stay from the one, the next from the other. *)
Blends(t) ==
  LET m == task[t].rules IN
  {r \in Rules : /\ file.len <= Length(m) /\ Length(r) = Length(m)
                 /\ \A k \in RuleKey : \E x \in Meeting(t) \cap Rules :
                      Length(x) = Length(m) /\ r[k] = x[k]}

(* This save's last piece is written. *)
Write(t) ==
  /\ At(t, "write")
  /\ \/ file' = Overwritten(task[t].rules)
     \/ \E r \in Blends(t) : file' = [len |-> Length(r), rules |-> r]
     \/ /\ MayFailDisk \/ Meeting(t) # {task[t].rules}
        /\ file' = [file EXCEPT !.rules = Garbled]
  /\ Goto(t, "reply")
  /\ UNCHANGED <<fwd, daemon, restore, acked>>

InFlight(t) == task[t].pc \in {"list", "create", "write", "reply"}

(* The client is told that its command took effect. What it may rely on is
   the rule in the map, unless another command for the key is under way. *)
Reply(t) ==
  /\ At(t, "reply")
  /\ task' = [task EXCEPT ![t] = Resting]
  /\ acked' = IF \E u \in Task \ {t} : InFlight(u) /\ task[u].key = task[t].key
              THEN acked ELSE [acked EXCEPT ![task[t].key] = fwd[task[t].key]]
  /\ UNCHANGED <<fwd, file, daemon, restore>>

(* The HTTP server drops a handler whose client left where it waits: for ARP or
   for the mutex. What it has done so far stays done. *)
Abandon(t) ==
  /\ daemon = "serving" /\ task[t].pc \in {"resolve", "apply", "list"}
  /\ task' = [task EXCEPT ![t] = Resting]
  /\ UNCHANGED <<fwd, file, daemon, restore, acked>>

Next ==
  \/ Start \/ Serve \/ Exit
  \/ \E k \in RuleKey : RestoreRule(k)
  \/ \E t \in Task, k \in RuleKey : BeginDelete(t, k) \/ \E v \in Target : BeginAdd(t, k, v)
  \/ \E t \in Task :
       Resolve(t) \/ Apply(t) \/ List(t) \/ Create(t) \/ Write(t) \/ Reply(t) \/ Abandon(t)

Spec == Init /\ [][Next]_vars

-----------------------------------------------------------------------------
(* Types; the length of the file is that of its rules. *)
TypeOK ==
  /\ fwd \in Rules /\ restore \in Rules
  /\ file \in [len : Nat, rules : Rules \cup {Garbled, Absent}]
  /\ Readable => file.len = Length(file.rules)
  /\ daemon \in {"down", "restoring", "serving"}
  /\ task \in [Task -> [pc : {"idle", "resolve", "apply", "list", "create", "write", "reply"},
                        key : RuleKey \cup {None}, to : Target \cup {None}, rules : Rules]]
  /\ acked \in [RuleKey -> Target \cup {None, Unknown}]

Fits(K) == Cardinality(K) <= MaxRules

(* No file, snapshot or half-done restore is more than FORWARD_MAP takes, so a
   restore never loses a rule for want of room. *)
CapacityKept ==
  /\ Fits(Entries(fwd) \cup Entries(restore))
  /\ \A t \in Task : Fits(Entries(task[t].rules))
  /\ Readable => Fits(Entries(file.rules))

Saving == \E t \in Task : task[t].pc = "write"

Told(k) == acked[k] # Unknown
FileSays(k) == IF file.rules = Absent THEN None ELSE file.rules[k]

(* README.md:76: configured rules are persisted to the file. Whatever a client
   was told of a key is what the file says of it, whenever no save is between
   its truncation and its write. *)
Durable ==
  ~Saving => \A k \in RuleKey :
    Told(k) => file.rules # Garbled /\ FileSays(k) = acked[k]

(* A node that serves has the rules its clients were told of, also through
   stops and restores between the telling and now. *)
Restored ==
  daemon = "serving" => \A k \in RuleKey : Told(k) => fwd[k] = acked[k]

(* The rules that outlive the daemon: a save under way, which Ctrl-C does not
   interrupt, is as good as done. *)
Book == [k \in RuleKey |-> IF Saving THEN fwd[k] ELSE FileSays(k)]

(* Commands handled one at a time implement RuleBook: the rule of a key that
   nobody has a command under way for stands, in the file, through saves for
   other keys, handlers that are dropped, restores and stops. *)
Promised == INSTANCE RuleBook WITH book <- Book, told <- acked
BookSpec == Promised!Spec

(* With one task, no crash and reachable targets: what the file, the rest of
   a restore, the map and the save under way owe each other. *)
FileKept ==
  ~Saving => /\ file.rules # Garbled
             /\ \A k \in RuleKey : Told(k) => FileSays(k) = acked[k]

RestoreKept ==
  daemon = "restoring" => \A k \in RuleKey : Told(k) =>
    acked[k] = IF restore[k] # None THEN restore[k] ELSE fwd[k]

SaveKept ==
  \A t \in Task :
    /\ task[t].pc # "idle" => daemon = "serving"
    /\ task[t].pc \in {"create", "write"} => task[t].rules = fwd
    /\ task[t].pc = "write" => file.len = 0
    /\ task[t].pc = "reply" => file.rules = fwd

(* Durable and Restored, made inductive. *)
DurableInv == FileKept /\ RestoreKept /\ SaveKept /\ Restored
=============================================================================
