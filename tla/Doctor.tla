-------------------------------- MODULE Doctor --------------------------------
(***************************************************************************)
(* The command doctor (doctor.py): a script on the server reports what it  *)
(* finds, one thing after the other and while the server may change; the   *)
(* client parses the records that arrive and gives a verdict.              *)
(*                                                                         *)
(* A record is a tuple, as the script prints it.  A path is described by   *)
(* the set of the shell tests that hold for it, and tar by its version and *)
(* the options that its help names.                                        *)
(***************************************************************************)
EXTENDS Naturals, Sequences, FiniteSets, SequencesExt

CONSTANTS
  Required, Optional,  \* REQUIRED_COMMANDS, with tar, and OPTIONAL_COMMANDS
  TarOptions,          \* REQUIRED_TAR_OPTIONS
  TestedVersions,      \* TESTED_TAR_VERSIONS
  Servers,             \* what a server may be like
  MaxChanges           \* bound: changes of the server during the inspection

VARIABLES
  server,   \* server.commands, server.tar, server.paths
  step,     \* the next command of the script
  held,     \* the tests that held so far for the path that is looked at
  reply,    \* the records that have arrived
  lost,     \* "no", "cut" when nothing arrives any more, "lost" when something did not
  result,   \* the verdict and its diagnostics
  past      \* history: what the server was like, one after the other, since the start

vars == <<server, step, held, reply, lost, result, past>>

Commands == ToSet(Required) \cup ToSet(Optional)
PathTests == <<"exists", "directory", "readable", "writable">>
Verdicts == {"compatible", "undetermined", "incompatible"}
Pending == [verdict |-> "pending", diagnostics |-> {}]

\* Each command is named once and not like a path, tar is among those that are
\* required, and must have some option;
\* what the shell says of a missing tar is no version that has been tested.
ASSUME DoctorAssumption ==
  /\ Required \in Seq(STRING) /\ Optional \in Seq(STRING)
  /\ \A i, j \in DOMAIN (Required \o Optional) : (Required \o Optional)[i] = (Required \o Optional)[j] => i = j
  /\ "tar" \in ToSet(Required) /\ Commands \cap {"root", "workdir"} = {}
  /\ TarOptions # {} /\ "not found" \notin TestedVersions
  /\ \A s \in Servers : s.paths \in [{"root", "workdir"} -> SUBSET ToSet(PathTests)]
  /\ MaxChanges \in Nat

-----------------------------------------------------------------------------
(* remote_doctor_script. *)

remote_path_probe(name) == [i \in DOMAIN PathTests |-> <<"test", name, PathTests[i]>>]
remote_doctor_script ==
  <<<<"print", "protocol">>>>
    \o [i \in DOMAIN (Required \o Optional) |-> <<"command", (Required \o Optional)[i]>>]
    \o remote_path_probe("root") \o remote_path_probe("workdir")
    \o <<<<"find", "tar">>, <<"ask", "version">>, <<"ask", "help">>>>

Doing(what) == step <= Len(remote_doctor_script) /\ remote_doctor_script[step][1] = what /\ result = Pending
Object == remote_doctor_script[step][2]

Say(records) ==
  IF lost = "no" THEN reply' = reply \cup records /\ UNCHANGED lost
                 ELSE lost' = "lost" /\ UNCHANGED reply
Walk == step' = step + 1 /\ UNCHANGED <<server, result, past>>

SayProtocol == Doing("print") /\ Say({<<"protocol", 1>>}) /\ Walk /\ UNCHANGED held

FindCommand ==
  /\ Doing("command") /\ Say({<<"command", Object, Object \in server.commands>>})
  /\ Walk /\ UNCHANGED held

\* Four tests of one path, and a record of them all.
TestPathAlone == \* mutant: what held for one path is carried over to the next
  /\ Doing("test")
  /\ held' = held \cup (server.paths[Object] \cap {remote_doctor_script[step][3]})
  /\ IF remote_doctor_script[step][3] = Last(PathTests)
     THEN Say({<<"path", Object, held'>>}) ELSE UNCHANGED <<reply, lost>>
  /\ Walk
TestPath ==
  /\ Doing("test")
  /\ LET test == remote_doctor_script[step][3]
         now == held \cup (server.paths[Object] \cap {test})
     IN IF test = Last(PathTests)
        THEN Say({<<"path", Object, now>>}) /\ held' = {}
        ELSE held' = now /\ UNCHANGED <<reply, lost>>
  /\ Walk

\* tar is looked for again, and asked only if it is there now.
FindTar ==
  /\ Doing("find")
  /\ step' = IF "tar" \in server.commands THEN step + 1 ELSE Len(remote_doctor_script) + 1
  /\ UNCHANGED <<server, held, reply, lost, result, past>>

\* If it has gone since, the shell's complaint is taken for its version and for
\* its help.
AskTar ==
  /\ Doing("ask")
  /\ LET there == "tar" \in server.commands IN
     IF Object = "version"
     THEN Say({<<"tar-version", IF there THEN server.tar.version ELSE "not found">>})
     ELSE Say({<<"tar-option", o, there /\ o \in server.tar.options>> : o \in TarOptions})
  /\ Walk /\ UNCHANGED held

-----------------------------------------------------------------------------
(* parse_remote_observations and evaluate_doctor. *)

Available(c) == <<"command", c, TRUE>> \in reply
Reported(kind) == {r[2] : r \in {q \in reply : q[1] = kind}}
Shown(path) == UNION {r[3] : r \in {q \in reply : q[1] = "path" /\ q[2] = path}}

WithoutTar == \* mutant: what tar said is not checked
  Reported("protocol") # {} /\ Reported("command") = Commands /\ Reported("path") = {"root", "workdir"}
Complete ==
  /\ Reported("protocol") # {}
  /\ Reported("command") = Commands
  /\ Reported("path") = {"root", "workdir"}
  /\ Available("tar") => Reported("tar-version") # {} /\ Reported("tar-option") = TarOptions

OptionsFirst == \* mutant: a version that is not known hides the missing options
  IF ~Available("tar") THEN "incompatible"
  ELSE IF Reported("tar-version") \cap TestedVersions = {} THEN "undetermined"
  ELSE IF \A o \in TarOptions : <<"tar-option", o, TRUE>> \in reply THEN "compatible"
  ELSE "incompatible"
evaluate_tar ==
  IF ~Available("tar") \/ \E o \in TarOptions : <<"tar-option", o, TRUE>> \notin reply THEN "incompatible"
  ELSE IF Reported("tar-version") \cap TestedVersions = {} THEN "undetermined"
  ELSE "compatible"

evaluate_root == IF {"exists", "directory", "readable"} \subseteq Shown("root") THEN "compatible" ELSE "incompatible"

WorkdirFound == \* mutant: whether it can be written to is not asked
  IF "exists" \notin Shown("workdir") THEN "undetermined"
  ELSE IF {"directory", "readable"} \subseteq Shown("workdir") THEN "compatible" ELSE "incompatible"
evaluate_workdir ==
  IF "exists" \notin Shown("workdir") THEN "undetermined"
  ELSE IF {"directory", "readable", "writable"} \subseteq Shown("workdir") THEN "compatible" ELSE "incompatible"

combine_compatibility(statuses) ==
  IF "incompatible" \in statuses THEN "incompatible"
  ELSE IF "undetermined" \in statuses THEN "undetermined" ELSE "compatible"

Diagnosed ==
  {[severity |-> "error", code |-> "required-command-missing"] : c \in {c \in ToSet(Required) : ~Available(c)}}
    \cup {[severity |-> "error", code |-> "tar-incompatible"] : s \in {evaluate_tar} \cap {"incompatible"}}
    \cup {[severity |-> "warning", code |-> "tar-version-untested"] : s \in {evaluate_tar} \cap {"undetermined"}}
    \cup {[severity |-> "error", code |-> "remote-root-unreadable"] : s \in {evaluate_root} \cap {"incompatible"}}
    \cup {[severity |-> "error", code |-> "remote-workdir-unusable"] : s \in {evaluate_workdir} \cap {"incompatible"}}
    \cup {[severity |-> "warning", code |-> "remote-workdir-absent"] : s \in {evaluate_workdir} \cap {"undetermined"}}

evaluate_doctor ==
  [verdict |-> combine_compatibility(
     {evaluate_tar, evaluate_root, evaluate_workdir}
       \cup (IF \E c \in ToSet(Required) : ~Available(c) THEN {"incompatible"} ELSE {})),
   diagnostics |-> Diagnosed]

\* The script is at its end: what has arrived is parsed, or refused.
Conclude ==
  /\ step > Len(remote_doctor_script) /\ result = Pending
  /\ result' = IF Complete THEN evaluate_doctor ELSE [Pending EXCEPT !.verdict = "failed"]
  /\ UNCHANGED <<server, step, held, reply, lost, past>>

-----------------------------------------------------------------------------
(* The server and the connection. *)

Elsewhere == UNCHANGED <<step, held, reply, result>>

\* One thing changes: a command is installed or removed, another tar takes the
\* place of the old one, a path changes.
Change ==
  /\ result = Pending /\ Len(past) <= MaxChanges
  /\ \E s \in Servers :
       /\ Cardinality({c \in Commands : (c \in s.commands) # (c \in server.commands)}
                        \cup {f \in {"tar's place"} : s.tar # server.tar}
                        \cup {p \in {"root", "workdir"} : s.paths[p] # server.paths[p]}) = 1
       /\ server' = s /\ past' = Append(past, s)
  /\ Elsewhere /\ UNCHANGED lost

\* The rest of the output is lost although ssh exits with 0.
Cut == result = Pending /\ lost = "no" /\ lost' = "cut" /\ Elsewhere /\ UNCHANGED <<server, past>>

\* ssh fails, or the script does.
Break ==
  /\ result = Pending /\ result' = [Pending EXCEPT !.verdict = "failed"]
  /\ UNCHANGED <<server, step, held, reply, lost, past>>

-----------------------------------------------------------------------------

Init ==
  /\ server \in Servers /\ past = <<server>>
  /\ step = 1 /\ held = {} /\ reply = {} /\ lost = "no" /\ result = Pending

Next ==
  \/ SayProtocol \/ FindCommand \/ TestPath \/ FindTar \/ AskTar \/ Conclude
  \/ Change \/ Cut \/ Break

Spec == Init /\ [][Next]_vars

-----------------------------------------------------------------------------
(* Properties. *)

\* Every variable stays in its range, and the tests of a path end with its record.
TypeOK ==
  /\ server \in Servers /\ past \in Seq(Servers) /\ server = Last(past)
  /\ step \in 1..(Len(remote_doctor_script) + 1)
  /\ held \subseteq ToSet(PathTests) /\ (held = {} \/ Doing("test") \/ result # Pending)
  /\ lost \in {"no", "cut", "lost"}
  /\ Reported("command") \subseteq Commands
  /\ result.verdict \in Verdicts \cup {"pending", "failed"}

\* What docs/configuration.md says of a server that stands still.
Missing(s) ==
  ~(ToSet(Required) \subseteq s.commands) \/ ~(TarOptions \subseteq s.tar.options)
    \/ ~({"exists", "directory", "readable"} \subseteq s.paths.root)
    \/ ("exists" \in s.paths.workdir /\ s.paths.workdir # ToSet(PathTests))
InDoubt(s) == s.tar.version \notin TestedVersions \/ "exists" \notin s.paths.workdir
VerdictOn(s) == IF Missing(s) THEN "incompatible" ELSE IF InDoubt(s) THEN "undetermined" ELSE "compatible"

\* If at most one thing changes while doctor looks, and it is a command that comes
\* or goes or a path that gains something, then the verdict is the one that the
\* server deserves before or after the change: the four tests of a path, and the
\* two questions whether there is a tar, do not mix up.
VerdictOfAMoment ==
  /\ result.verdict \in Verdicts /\ Len(past) <= 2
  /\ \A s \in ToSet(past) :
       s.tar = server.tar /\ \A p \in {"root", "workdir"} : s.paths[p] \subseteq server.paths[p]
  => result.verdict \in {VerdictOn(s) : s \in ToSet(past)}

\* However the server changes, it is called compatible only if each thing that
\* is required was there at some time, and incompatible only if it once was not.
VerdictIsFounded ==
  /\ result.verdict = "compatible" =>
       /\ \A c \in ToSet(Required) : \E s \in ToSet(past) : c \in s.commands
       /\ \A o \in TarOptions : \E s \in ToSet(past) : o \in s.tar.options
       /\ \E s \in ToSet(past) : s.tar.version \in TestedVersions
       /\ \A t \in {"exists", "directory", "readable"} : \E s \in ToSet(past) : t \in s.paths.root
       /\ \A t \in ToSet(PathTests) : \E s \in ToSet(past) : t \in s.paths.workdir
  /\ result.verdict = "incompatible" => \E s \in ToSet(past) : VerdictOn(s) # "compatible"

\* If a record was lost there is no verdict, except that of a server without tar,
\* which needs no answer from tar.
LostMeansNoVerdict ==
  lost = "lost" /\ result.verdict \in Verdicts =>
    result.verdict = "incompatible" /\ <<"command", "tar", FALSE>> \in reply

=============================================================================
