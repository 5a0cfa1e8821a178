----------------------------- MODULE MeshCommand ------------------------------
(***************************************************************************)
(* The public commands mesh list and mesh report-route as processes        *)
(* (cli.py, mesh.py): which authority answers, which document is written,  *)
(* and what the caller can conclude from it and from the exit status.      *)
(*                                                                         *)
(* The authority is chosen when the process starts: Mesh Plus unless the   *)
(* environment names the bundled one.  Each authority has a configuration  *)
(* and a register of route health of its own; the register takes a report  *)
(* in one step, which RouteHealthStore justifies.  A document is whole     *)
(* when its last byte is out; what stdout did not take stays in its buffer *)
(* (external: io.BufferedWriter) and goes out with the next flush.         *)
(***************************************************************************)
EXTENDS RouteHealth

CONSTANTS Commands,      \* the processes
          Requests,      \* what they are asked
          Backends,      \* what ROFI_SSH_PLUS_MESH_BACKEND may be, the default included
          MeshPlus,      \* what may be installed as Mesh Plus
          Configs,       \* what the configuration of an authority may say
          Unparsable,    \* a configuration that load_config refuses
          Oversized,     \* the configurations whose list exceeds the limit of stdout
          Now,           \* the clock
          Faults,        \* may the health file raise?
          StdoutErrors   \* may writing to stdout raise?

Authorities == {"mesh-plus", "legacy"}
Malformed == [kind |-> "malformed"]
List == [kind |-> "list"]
IsRequest(r) ==
    r \in {Malformed, List} \/ (r = [kind |-> "report", of |-> r.of] /\ IsReport(r.of))

ASSUME CommandAssumption ==
    /\ Requests # {} /\ \A r \in Requests : IsRequest(r)
    /\ Backends \subseteq Authorities \cup {"other"}
    /\ MeshPlus \subseteq {"compatible", "incompatible", "missing"}
    /\ \A c \in Configs : c = Unparsable \/ IsConfig(c)
    /\ Oversized \subseteq Configs /\ Now \in Nat
    /\ {Faults, StdoutErrors} \subseteq BOOLEAN

VARIABLES config,     \* what the configuration of each authority says
          health,     \* its register
          installed,  \* what is installed as Mesh Plus
          cpc,        \* where each command is
          request,    \* what it was asked
          backend,    \* the authority that the environment asks for
          authority,  \* the authority it is bound to
          loaded,     \* the configuration it loaded
          doc,        \* the document it is about to write
          held,       \* the documents in the buffer of its stdout
          out,        \* the documents its caller has
          exit      \* its exit status

callVars == <<request, backend, authority>>
outputVars == <<doc, held, out, exit>>
commandVars == <<config, health, installed, cpc, callVars, loaded, outputVars>>

Places == {"none", "parse", "load", "run", "write", "rewrite", "end"}
Codes == {"invalid_input", "invalid_config", "persistence_failed", "stale_mesh",
          "unknown_host", "unknown_route"}
Answers == {"list", "accepted", "not newer"}

Init ==
    /\ config \in [Authorities -> Configs] /\ installed \in MeshPlus
    /\ health = [a \in Authorities |-> <<>>]
    /\ cpc = [c \in Commands |-> "none"]
    /\ request = [c \in Commands |-> Malformed]
    /\ backend = [c \in Commands |-> "none"] /\ authority = [c \in Commands |-> "none"]
    /\ loaded = [c \in Commands |-> Unparsable]
    /\ doc = [c \in Commands |-> "none"]
    /\ held = [c \in Commands |-> <<>>] /\ out = [c \in Commands |-> <<>>]
    /\ exit = [c \in Commands |-> 0]

Goto(c, from, to) == cpc[c] = from /\ cpc' = [cpc EXCEPT ![c] = to]

\* _write_error within the handlers of _mesh_main: nothing catches what it raises.
Fail(c, from, code) == Goto(c, from, "rewrite") /\ doc' = [doc EXCEPT ![c] = code]

\* _json_write or _write_error within the try block.
Say(c, from, answer) == Goto(c, from, "write") /\ doc' = [doc EXCEPT ![c] = answer]

-------------------------------------------------------------------------------
\* (mutant) The bundled implementation stands in for a missing Mesh Plus.
Selected_FallsBack(b, plus) ==
    IF b = "mesh-plus" /\ plus = "compatible" THEN "mesh-plus"
    ELSE IF b \in Authorities THEN "legacy" ELSE "none"

\* mesh.py: the authority a backend stands for, if it can be had.
Selected(b, plus) ==
    IF b = "mesh-plus" /\ plus = "compatible" THEN "mesh-plus"
    ELSE IF b = "legacy" THEN "legacy" ELSE "none"

\* The command is called, and binds its authority as it imports it.
Call(c) ==
    /\ Goto(c, "none", "parse")
    /\ \E r \in Requests, b \in Backends :
          /\ request' = [request EXCEPT ![c] = r]
          /\ backend' = [backend EXCEPT ![c] = b]
          /\ authority' = [authority EXCEPT ![c] = Selected(b, installed)]
    /\ UNCHANGED <<config, health, installed, loaded, outputVars>>

\* The arguments: unknown ones, a missing --json or a missing field of a report.
Parse(c) ==
    /\ IF request[c].kind = "malformed"
       THEN Fail(c, "parse", "invalid_input") ELSE Goto(c, "parse", "load") /\ UNCHANGED doc
    /\ UNCHANGED <<config, health, installed, callVars, loaded, held, out, exit>>

\* load_mesh of the authority, or the one that only raises.
Loads(c) == IF authority[c] = "none" THEN FALSE ELSE config[authority[c]] # Unparsable

Load(c) ==
    /\ Loads(c)
    /\ Goto(c, "load", "run")
    /\ loaded' = [loaded EXCEPT ![c] = config[authority[c]]]
    /\ UNCHANGED <<config, health, installed, callVars, outputVars>>

LoadFails(c) ==
    /\ \/ ~Loads(c) /\ Fail(c, "load", "invalid_config")
       \/ authority[c] # "none" /\ Faults /\ Fail(c, "load", "persistence_failed")
    /\ UNCHANGED <<config, health, installed, callVars, loaded, held, out, exit>>

\* to_dict, and _json_bytes before anything is written.
RunList(c) ==
    /\ cpc[c] = "run" /\ request[c] = List
    /\ IF loaded[c] \in Oversized THEN Say(c, "run", "invalid_config")
       ELSE Say(c, "run", "list")
    /\ UNCHANGED <<config, health, installed, callVars, loaded, held, out, exit>>

\* (mutant) The answer does not say whether the report was recorded.
RunReport_Accepts(c) ==
    /\ cpc[c] = "run" /\ request[c].kind = "report"
    /\ Verdict(loaded[c], request[c].of, Now) = "valid"
    /\ LET r == request[c].of
           rows == health[authority[c]]
       IN  health' = IF r.at > NewestAt(HealthOf(rows, RouteKey(r)))
                     THEN [health EXCEPT ![authority[c]] =
                               Observe(rows, RouteKey(r), r.status, r.at)]
                     ELSE health
    /\ Say(c, "run", "accepted")
    /\ UNCHANGED <<config, installed, callVars, loaded, held, out, exit>>

\* report_route: checked against the configuration loaded, taken if it is newer.
RunReport(c) ==
    /\ cpc[c] = "run" /\ request[c].kind = "report"
    /\ Verdict(loaded[c], request[c].of, Now) = "valid"
    /\ LET r == request[c].of
           rows == health[authority[c]]
       IN  IF r.at > NewestAt(HealthOf(rows, RouteKey(r)))
           THEN /\ health' = [health EXCEPT ![authority[c]] =
                                  Observe(rows, RouteKey(r), r.status, r.at)]
                /\ Say(c, "run", "accepted")
           ELSE UNCHANGED health /\ Say(c, "run", "not newer")
    /\ UNCHANGED <<config, installed, callVars, loaded, held, out, exit>>

\* It raises before anything is recorded.
RunFails(c) ==
    /\ cpc[c] = "run" /\ request[c].kind = "report"
    /\ LET verdict == Verdict(loaded[c], request[c].of, Now)
       IN  IF verdict = "valid" THEN Faults /\ Fail(c, "run", "persistence_failed")
           ELSE Fail(c, "run", verdict)
    /\ UNCHANGED <<config, health, installed, callVars, loaded, held, out, exit>>

-------------------------------------------------------------------------------
\* (mutant) The exit status is that of a command that got as far as writing.
ExitStatus_Written(document) == 0
ExitStatus(document) == IF document \in Answers THEN 0 ELSE 1

\* _json_write: the document joins the buffer, and the buffer is flushed.
Write(c) ==
    /\ cpc[c] \in {"write", "rewrite"}
    /\ out' = [out EXCEPT ![c] = @ \o held[c] \o <<doc[c]>>]
    /\ held' = [held EXCEPT ![c] = <<>>]
    /\ exit' = [exit EXCEPT ![c] = ExitStatus(doc[c])]
    /\ cpc' = [cpc EXCEPT ![c] = "end"]
    /\ UNCHANGED <<config, health, installed, callVars, loaded, doc>>

\* It raises within the try block: persistence_failed is the next document, and
\* the first may be in the buffer still or may have been dropped from it.
WriteFails(c) ==
    /\ StdoutErrors
    /\ Fail(c, "write", "persistence_failed")
    /\ held' \in {held, [held EXCEPT ![c] = Append(@, doc[c])]}
    /\ UNCHANGED <<config, health, installed, callVars, loaded, out, exit>>

\* It raises within a handler: the process ends with a traceback, and its last
\* flush may or may not get through.
RewriteFails(c) ==
    /\ StdoutErrors
    /\ Goto(c, "rewrite", "end")
    /\ exit' = [exit EXCEPT ![c] = 1]
    /\ out' \in {out, [out EXCEPT ![c] = @ \o held[c] \o <<doc[c]>>]}
    /\ held' = [held EXCEPT ![c] = <<>>]
    /\ UNCHANGED <<config, health, installed, callVars, loaded, doc>>

\* A configuration is edited, or Mesh Plus installed or removed.
Edit ==
    /\ \E a \in Authorities, new \in Configs :
          new # config[a] /\ config' = [config EXCEPT ![a] = new]
    /\ UNCHANGED <<health, installed, cpc, callVars, loaded, outputVars>>
Install ==
    /\ installed' \in MeshPlus \ {installed}
    /\ UNCHANGED <<config, health, cpc, callVars, loaded, outputVars>>

Step(c) ==
    \/ Parse(c) \/ Load(c) \/ LoadFails(c) \/ RunList(c) \/ RunReport(c) \/ RunFails(c)
    \/ Write(c) \/ WriteFails(c) \/ RewriteFails(c)

Next == Edit \/ Install \/ \E c \in Commands : Call(c) \/ Step(c)

Spec == Init /\ [][Next]_commandVars

-------------------------------------------------------------------------------
\* Every variable keeps its type.
TypeOK ==
    /\ config \in [Authorities -> Configs] /\ installed \in MeshPlus
    /\ DOMAIN health = Authorities /\ \A a \in Authorities : IsHealth(health[a])
    /\ cpc \in [Commands -> Places]
    /\ request \in [Commands -> Requests \cup {Malformed}]
    /\ backend \in [Commands -> Backends \cup {"none"}]
    /\ authority \in [Commands -> Authorities \cup {"none"}]
    /\ loaded \in [Commands -> Configs \cup {Unparsable}]
    /\ doc \in [Commands -> Codes \cup Answers \cup {"none"}]
    /\ held \in [Commands -> Seq(Codes \cup Answers)]
    /\ out \in [Commands -> Seq(Codes \cup Answers)]
    /\ exit \in [Commands -> {0, 1}]

\* A caller that has the exit status 0 has one document, and it is an answer; with
\* another status the last document it has, if any, is an error: whatever stdout
\* did, no failure passes for a success (contract.md:22).
StatusFitsDocument ==
    \A c \in Commands : cpc[c] = "end" =>
        IF exit[c] = 0
        THEN Len(out[c]) = 1 /\ out[c][1] \in Answers
        ELSE out[c] # <<>> => out[c][Len(out[c])] \in Codes

\* Does a register have an observation that is as new as the one reported?
Knows(rows, r) == HealthOf(rows, RouteKey(r))[r.status] >= r.at

\* Every answer a caller has is true of the authority it asked, then and later, an
\* answer in front of an error document included: an accepted report is in its
\* register, one that is not newer is outdated there, and a list is no other's.
AnswersAreTrue ==
    \A c \in Commands : \A n \in DOMAIN out[c] :
        LET rows == health[backend[c]]
        IN  /\ out[c][n] = "accepted" => Knows(rows, request[c].of)
            /\ out[c][n] = "not newer" =>
                  NewestAt(HealthOf(rows, RouteKey(request[c].of))) >= request[c].of.at

\* There is no automatic fallback (docs/guides/configuration.md:11): what a command
\* loads and what it records is the named authority's, even when that is missing or
\* replaced while it runs; and a register only ever takes a report that was valid
\* under a configuration of that authority.
AuthorityIsBound ==
    [][/\ \A c \in Commands : loaded'[c] # loaded[c] => loaded'[c] = config[backend[c]]
       /\ \A a \in Authorities : health'[a] # health[a] =>
             \E c \in Commands :
                 /\ backend[c] = a /\ request[c].kind = "report"
                 /\ request[c].of.revision = loaded[c].revision
                 /\ doc'[c] = "accepted"]_commandVars

===============================================================================
