----------------------------- MODULE CommandProofs ----------------------------
(***************************************************************************)
(* Theorems about the public mesh commands, for any number of them, any    *)
(* requests, any authorities that come and go, any configurations and any  *)
(* errors of the files and of stdout.                                      *)
(***************************************************************************)
EXTENDS MeshCommand, TLAPS

-------------------------------------------------------------------------------
(***************************************************************************)
(* A register only rises: whatever it takes, no time of any route is set   *)
(* back, so that what a command has answered cannot become untrue.         *)
(***************************************************************************)
Rises(old, new) ==
    \A key : /\ \A status \in Statuses :
                   HealthOf(new, key)[status] >= HealthOf(old, key)[status]
             /\ NewestAt(HealthOf(new, key)) >= NewestAt(HealthOf(old, key))

\* What is known of a route: a time for each status, and the later of the two.
LEMMA KnownOfRoute ==
    ASSUME NEW rows, IsHealth(rows), NEW key
    PROVE  /\ HealthOf(rows, key) \in Healths
           /\ \A status \in Statuses : HealthOf(rows, key)[status] \in Int
           /\ NewestAt(HealthOf(rows, key)) \in Int
           /\ \A status \in Statuses : HealthOf(rows, key)[status] <= NewestAt(HealthOf(rows, key))
<1>1. HealthOf(rows, key) \in Healths
  BY DEF IsHealth, HealthOf, NoHealth, Healths, Never
<1> QED
  BY <1>1 DEF Healths, NewestAt, Statuses, Never

\* A register that stays as it is rises, too.
LEMMA RisesReflexive == ASSUME NEW rows, IsHealth(rows) PROVE Rises(rows, rows)
  BY KnownOfRoute DEF Rises

\* Of a report that is newer than all there is for its route, the register knows
\* afterwards, and it has risen.
LEMMA RegisterTakes ==
    ASSUME NEW rows, IsHealth(rows), NEW key \in Routes, NEW status \in Statuses, NEW at \in Nat,
           at > NewestAt(HealthOf(rows, key))
    PROVE  LET new == Observe(rows, key, status, at)
           IN  /\ IsHealth(new) /\ Rises(rows, new)
               /\ HealthOf(new, key)[status] = at
<1> DEFINE new == Observe(rows, key, status, at)
           old == HealthOf(rows, key)
           taken == [old EXCEPT ![status] = at]
<1>1. old \in Healths /\ \A s \in Statuses : old[s] \in Int /\ old[s] <= NewestAt(old)
         /\ NewestAt(old) \in Int
  BY KnownOfRoute
<1>2. taken \in Healths /\ taken[status] = at
  BY <1>1 DEF Healths
<1>3. HealthOf(new, key) = taken /\ \A k : k # key => HealthOf(new, k) = HealthOf(rows, k)
  BY DEF Observe, HealthOf
<1>4. IsHealth(new)
  <2>1. DOMAIN new = DOMAIN rows \cup {key} /\ new[key] = taken
           /\ \A k \in DOMAIN rows \ {key} : new[k] = rows[k]
    BY DEF Observe
  <2>2. DOMAIN rows \subseteq Routes /\ \A k \in DOMAIN rows : rows[k] \in Healths
    BY DEF IsHealth
  <2> HIDE DEF taken
  <2>3. \A k \in DOMAIN new : new[k] \in Healths
    BY <1>2, <2>1, <2>2
  <2>4. new = [k \in DOMAIN new |-> new[k]]
    BY DEF Observe
  <2> HIDE DEF new
  <2>5. new \in [DOMAIN new -> Healths]
    BY <2>3, <2>4
  <2> QED
    BY <2>1, <2>2, <2>5 DEF IsHealth
<1>5. \A s \in Statuses : taken[s] >= old[s] /\ taken[s] \in Int
  BY <1>1 DEF Healths
<1>6. NewestAt(taken) >= NewestAt(old)
  <2>1. taken["reachable"] >= old["reachable"] /\ taken["unreachable"] >= old["unreachable"]
    BY <1>5 DEF Statuses
  <2>2. /\ old["reachable"] \in Int /\ old["unreachable"] \in Int
        /\ taken["reachable"] \in Int /\ taken["unreachable"] \in Int
    BY <1>1, <1>5 DEF Statuses
  <2> HIDE DEF taken, old
  <2> QED
    BY <2>1, <2>2 DEF NewestAt
<1>7. Rises(rows, new)
  <2>1. SUFFICES ASSUME NEW k
                 PROVE  /\ \A s \in Statuses : HealthOf(new, k)[s] >= HealthOf(rows, k)[s]
                        /\ NewestAt(HealthOf(new, k)) >= NewestAt(HealthOf(rows, k))
    BY DEF Rises
  <2> HIDE DEF taken, old, new
  <2>2. CASE k = key
    BY <1>3, <1>5, <1>6, <2>2 DEF old
  <2>3. CASE k # key
    BY <1>3, <2>3, KnownOfRoute
  <2> QED
    BY <2>2, <2>3
<1> QED
  BY <1>2, <1>3, <1>4, <1>7

-------------------------------------------------------------------------------
(***************************************************************************)
(* What a request asks for, and what the check of a report has found.      *)
(***************************************************************************)
\* A request to report has a report that belongs to a route.
LEMMA ReportAsked ==
    ASSUME NEW r \in Requests \cup {Malformed}, r.kind = "report"
    PROVE  /\ r \in Requests /\ IsReport(r.of) /\ RouteKey(r.of) \in Routes
           /\ r.of.status \in Statuses /\ r.of.at \in Nat
<1>1. r # Malformed /\ r # List
  BY DEF Malformed, List
<1>2. r \in Requests /\ IsReport(r.of)
  BY <1>1, CommandAssumption DEF IsRequest
<1>3. /\ r.of.host \in Spellings /\ r.of.route \in Spellings
      /\ r.of.status \in Statuses /\ r.of.at \in Nat
  BY <1>2 DEF IsReport
<1> QED
  BY <1>2, <1>3, FoldAssumption DEF RouteKey, Routes, Keys

\* Only a report of the revision at hand is valid.
LEMMA ValidIsCurrent ==
    ASSUME NEW c, NEW r, NEW now, Verdict(c, r, now) = "valid"
    PROVE  r.revision = c.revision
  BY DEF Verdict

\* What a check may find is an error of the contract, or that the report is valid.
LEMMA VerdictType ==
    ASSUME NEW c, NEW r, NEW now
    PROVE  Verdict(c, r, now) = "valid" \/ Verdict(c, r, now) \in Codes
  BY DEF Verdict, Codes

-------------------------------------------------------------------------------
(***************************************************************************)
(* What can be said of a command in every state.  An answer is a claim     *)
(* about the authority it was sent to; until the last byte is out its      *)
(* caller has nothing, and only what a first write left in the buffer can  *)
(* come before an error document.                                          *)
(***************************************************************************)
Claim(c, answer) ==
    answer \in {"accepted", "not newer"} =>
        /\ backend[c] \in Authorities /\ request[c].kind = "report"
        /\ answer = "accepted" => Knows(health[backend[c]], request[c].of)
        /\ answer = "not newer" =>
              NewestAt(HealthOf(health[backend[c]], RouteKey(request[c].of))) >= request[c].of.at

\* The documents of a sequence are documents, and what they answer is true.
Claims(c, documents) ==
    \A n \in DOMAIN documents : documents[n] \in Codes \cup Answers /\ Claim(c, documents[n])

Fits(c) ==
    IF exit[c] = 0
    THEN Len(out[c]) = 1 /\ out[c][1] \in Answers
    ELSE out[c] # <<>> => out[c][Len(out[c])] \in Codes

Sound(c) ==
    /\ authority[c] # "none" => authority[c] = backend[c]
    /\ cpc[c] = "run" => authority[c] # "none"
    /\ cpc[c] # "end" => out[c] = <<>>
    /\ cpc[c] # "rewrite" => held[c] = <<>>
    /\ cpc[c] = "write" => doc[c] \in Codes \cup Answers /\ Claim(c, doc[c])
    /\ cpc[c] = "rewrite" => doc[c] \in Codes
    /\ Claims(c, held[c]) /\ Claims(c, out[c])
    /\ cpc[c] = "end" => Fits(c)

IInv == TypeOK /\ \A c \in Commands : Sound(c)

\* Nothing is in an empty sequence of documents, and a document that is appended
\* to others is the last of them.
LEMMA DocumentFacts ==
    /\ \A c : Claims(c, <<>>)
    /\ \A documents \in Seq(Codes \cup Answers), d \in Codes \cup Answers :
          /\ documents \o <<d>> \in Seq(Codes \cup Answers)
          /\ (documents \o <<d>>)[Len(documents \o <<d>>)] = d
          /\ \A c : Claims(c, documents) /\ Claim(c, d) => Claims(c, documents \o <<d>>)
<1>1. \A c : Claims(c, <<>>)
  BY DEF Claims
<1>2. ASSUME NEW documents \in Seq(Codes \cup Answers), NEW d \in Codes \cup Answers
      PROVE  /\ documents \o <<d>> \in Seq(Codes \cup Answers)
             /\ (documents \o <<d>>)[Len(documents \o <<d>>)] = d
             /\ \A n \in DOMAIN (documents \o <<d>>) :
                   \/ n \in DOMAIN documents /\ (documents \o <<d>>)[n] = documents[n]
                   \/ (documents \o <<d>>)[n] = d
  OBVIOUS
<1>3. ASSUME NEW documents \in Seq(Codes \cup Answers), NEW d \in Codes \cup Answers, NEW c,
             Claims(c, documents), Claim(c, d)
      PROVE  Claims(c, documents \o <<d>>)
  BY <1>2, <1>3 DEF Claims
<1> QED
  BY <1>1, <1>2, <1>3

\* An error code claims nothing.
LEMMA CodesClaimNothing == \A c : \A code \in Codes : Claim(c, code)
  BY DEF Claim, Codes

-------------------------------------------------------------------------------
LEMMA AtLeast ==
    ASSUME NEW x \in Int, NEW y \in Int, NEW z \in Nat, x >= y, y >= z PROVE x >= z
  OBVIOUS

\* What a command was asked and by whom it is answered stays; its claims stay
\* true while the registers rise.
LEMMA ClaimStays ==
    ASSUME IInv, TypeOK', NEW c \in Commands, NEW d, Claim(c, d),
           backend'[c] = backend[c], request'[c] = request[c],
           \A a \in Authorities : Rises(health[a], health'[a])
    PROVE  Claim(c, d)'
<1> SUFFICES ASSUME d \in {"accepted", "not newer"} PROVE Claim(c, d)'
  BY DEF Claim
<1> DEFINE a == backend[c]
           r == request[c].of
           key == RouteKey(r)
<1>1. /\ a \in Authorities /\ request[c].kind = "report"
      /\ d = "accepted" => HealthOf(health[a], key)[r.status] >= r.at
      /\ d = "not newer" => NewestAt(HealthOf(health[a], key)) >= r.at
  BY DEF Claim, Knows
<1>2. r.status \in Statuses /\ r.at \in Nat
  BY <1>1, ReportAsked DEF IInv, TypeOK
<1>3. /\ HealthOf(health[a], key)[r.status] \in Int /\ NewestAt(HealthOf(health[a], key)) \in Int
      /\ HealthOf(health'[a], key)[r.status] \in Int /\ NewestAt(HealthOf(health'[a], key)) \in Int
  BY <1>1, <1>2, KnownOfRoute DEF IInv, TypeOK
<1>4. /\ HealthOf(health'[a], key)[r.status] >= HealthOf(health[a], key)[r.status]
      /\ NewestAt(HealthOf(health'[a], key)) >= NewestAt(HealthOf(health[a], key))
  BY <1>1, <1>2 DEF Rises
<1>5. d = "accepted" => HealthOf(health'[a], key)[r.status] >= r.at
  <2> HIDE DEF a, r, key
  <2> QED
    BY <1>1, <1>2, <1>3, <1>4, AtLeast
<1>6. d = "not newer" => NewestAt(HealthOf(health'[a], key)) >= r.at
  <2> HIDE DEF a, r, key
  <2> QED
    BY <1>1, <1>2, <1>3, <1>4, AtLeast
<1> QED
  BY <1>1, <1>5, <1>6 DEF Claim, Knows

\* So do all the claims of the documents it has written.
LEMMA ClaimsStay ==
    ASSUME IInv, TypeOK', NEW c \in Commands, NEW documents, Claims(c, documents),
           backend'[c] = backend[c], request'[c] = request[c],
           \A a \in Authorities : Rises(health[a], health'[a])
    PROVE  Claims(c, documents)'
  BY ClaimStays DEF Claims

\* A command that does not move is as sound as it was.
LEMMA StandsStill ==
    ASSUME IInv, TypeOK', NEW c \in Commands, \A a \in Authorities : Rises(health[a], health'[a]),
           cpc'[c] = cpc[c], request'[c] = request[c], backend'[c] = backend[c],
           authority'[c] = authority[c], doc'[c] = doc[c], held'[c] = held[c],
           out'[c] = out[c], exit'[c] = exit[c]
    PROVE  Sound(c)'
<1>1. Sound(c)
  BY DEF IInv
<1>2. Claims(c, held[c])' /\ Claims(c, out[c])'
  BY <1>1, ClaimsStay DEF Sound, Claims
<1>3. cpc[c] = "write" => Claim(c, doc[c])'
  BY <1>1, ClaimStays DEF Sound, Claim
<1> QED
  BY <1>1, <1>2, <1>3 DEF Sound, Fits

-------------------------------------------------------------------------------
(***************************************************************************)
(* Type correctness, on which all else rests.                              *)
(***************************************************************************)
\* The registers are registers after every step, and have risen.
LEMMA RegistersRise ==
    ASSUME IInv, [Next]_commandVars
    PROVE  /\ DOMAIN health' = Authorities
           /\ \A a \in Authorities : IsHealth(health'[a]) /\ Rises(health[a], health'[a])
<1>1. DOMAIN health = Authorities /\ \A a \in Authorities : IsHealth(health[a])
  BY DEF IInv, TypeOK
<1>2. CASE UNCHANGED health
  BY <1>1, <1>2, RisesReflexive
<1>3. CASE \E c \in Commands : RunReport(c)
  <2>1. PICK c \in Commands : RunReport(c)
    BY <1>3
  <2> DEFINE r == request[c].of
             rows == health[authority[c]]
             new == Observe(rows, RouteKey(r), r.status, r.at)
  <2>2. authority[c] \in Authorities
    BY <2>1 DEF RunReport, Say, Goto, IInv, TypeOK, Sound
  <2>3. RouteKey(r) \in Routes /\ r.status \in Statuses /\ r.at \in Nat
    <3>1. request[c] \in Requests \cup {Malformed} /\ request[c].kind = "report"
      BY <2>1 DEF RunReport, IInv, TypeOK
    <3> QED
      BY <3>1, ReportAsked
  <2>4. CASE r.at > NewestAt(HealthOf(rows, RouteKey(r)))
    <3>1. IsHealth(new) /\ Rises(rows, new)
      BY <1>1, <2>2, <2>3, <2>4, RegisterTakes
    <3>2. health' = [health EXCEPT ![authority[c]] = new]
      BY <2>1, <2>4 DEF RunReport
    <3> HIDE DEF new, rows
    <3>3. ASSUME NEW a \in Authorities
          PROVE  IsHealth(health'[a]) /\ Rises(health[a], health'[a])
      <4>1. CASE a = authority[c]
        BY <1>1, <3>1, <3>2, <4>1 DEF rows
      <4>2. CASE a # authority[c]
        BY <1>1, <3>2, <4>2, RisesReflexive
      <4> QED
        BY <4>1, <4>2
    <3> QED
      BY <1>1, <3>2, <3>3
  <2>5. CASE ~(r.at > NewestAt(HealthOf(rows, RouteKey(r))))
    BY <1>2, <2>1, <2>5 DEF RunReport
  <2> QED
    BY <2>4, <2>5
<1>4. ASSUME NEW c \in Commands, Call(c) \/ Step(c), ~RunReport(c) PROVE UNCHANGED health
  BY <1>4 DEF Call, Step, Parse, Load, LoadFails, RunList, RunFails, Write, WriteFails,
              RewriteFails
<1> QED
  BY <1>2, <1>3, <1>4 DEF Next, Edit, Install, commandVars

LEMMA TypeInit == Init => TypeOK
<1> SUFFICES ASSUME Init PROVE TypeOK
  OBVIOUS
<1>1. \A a \in Authorities : health[a] = <<>> /\ DOMAIN health = Authorities
  BY DEF Init
<1>2. IsHealth(<<>>)
  BY DEF IsHealth
<1>3. <<>> \in Seq(Codes \cup Answers)
  OBVIOUS
<1> QED
  BY <1>1, <1>2, <1>3 DEF Init, TypeOK, Places, Authorities

\* The part of the type that the steps of a command share.
LEMMA MovesAreTyped ==
    ASSUME TypeOK, NEW c \in Commands
    PROVE  /\ \A from \in Places, to \in Places : Goto(c, from, to) => cpc' \in [Commands -> Places]
           /\ \A from \in Places, code \in Codes :
                 Fail(c, from, code) => /\ cpc' \in [Commands -> Places]
                                        /\ doc' \in [Commands -> Codes \cup Answers \cup {"none"}]
           /\ \A from \in Places, answer \in Codes \cup Answers :
                 Say(c, from, answer) => /\ cpc' \in [Commands -> Places]
                                         /\ doc' \in [Commands -> Codes \cup Answers \cup {"none"}]
<1>1. "write" \in Places /\ "rewrite" \in Places
  BY DEF Places
<1>2. cpc \in [Commands -> Places] /\ doc \in [Commands -> Codes \cup Answers \cup {"none"}]
  BY DEF TypeOK
<1> QED
  BY <1>1, <1>2 DEF Goto, Fail, Say

\* Whatever a backend stands for is an authority, if anything.
LEMMA SelectedType == \A b, plus : Selected(b, plus) \in {b, "none"} \cap (Authorities \cup {"none"})
  BY DEF Selected, Authorities

LEMMA TypeStep == IInv /\ [Next]_commandVars => TypeOK'
<1> SUFFICES ASSUME IInv, [Next]_commandVars PROVE TypeOK'
  OBVIOUS
<1>1. TypeOK /\ \A c \in Commands : Sound(c)
  BY DEF IInv
<1>2. DOMAIN health' = Authorities /\ \A a \in Authorities : IsHealth(health'[a])
  BY RegistersRise
<1>3. {"none", "parse", "load", "run", "write", "rewrite", "end"} = Places
  BY DEF Places
<1>4. /\ {"invalid_input", "invalid_config", "persistence_failed"} \subseteq Codes
      /\ {"list", "accepted", "not newer"} = Answers
  BY DEF Codes, Answers
<1>5. ASSUME NEW c \in Commands, Call(c) PROVE TypeOK'
  <2>1. PICK r \in Requests, b \in Backends :
           /\ request' = [request EXCEPT ![c] = r]
           /\ backend' = [backend EXCEPT ![c] = b]
           /\ authority' = [authority EXCEPT ![c] = Selected(b, installed)]
    BY <1>5 DEF Call
  <2>2. cpc' \in [Commands -> Places]
    BY <1>1, <1>3, <1>5, MovesAreTyped DEF Call
  <2>3. Selected(b, installed) \in Authorities \cup {"none"}
    BY SelectedType
  <2> QED
    BY <1>1, <1>2, <1>5, <2>1, <2>2, <2>3 DEF Call, TypeOK, outputVars
<1>6. ASSUME NEW c \in Commands, Parse(c) PROVE TypeOK'
  <2>1. cpc' \in [Commands -> Places] /\ doc' \in [Commands -> Codes \cup Answers \cup {"none"}]
    BY <1>1, <1>3, <1>4, <1>6, MovesAreTyped DEF Parse, TypeOK
  <2> QED
    BY <1>1, <1>2, <1>6, <2>1 DEF Parse, TypeOK, callVars
<1>7. ASSUME NEW c \in Commands, Load(c) PROVE TypeOK'
  <2>1. cpc' \in [Commands -> Places]
    BY <1>1, <1>3, <1>7, MovesAreTyped DEF Load
  <2>2. config[authority[c]] \in Configs
    BY <1>1, <1>7 DEF Load, Loads, TypeOK
  <2> QED
    BY <1>1, <1>2, <1>7, <2>1, <2>2 DEF Load, TypeOK, callVars, outputVars
<1>8. ASSUME NEW c \in Commands, LoadFails(c) PROVE TypeOK'
  <2>1. cpc' \in [Commands -> Places] /\ doc' \in [Commands -> Codes \cup Answers \cup {"none"}]
    BY <1>1, <1>3, <1>4, <1>8, MovesAreTyped DEF LoadFails
  <2> QED
    BY <1>1, <1>2, <1>8, <2>1 DEF LoadFails, TypeOK, callVars
<1>9. ASSUME NEW c \in Commands, RunList(c) PROVE TypeOK'
  <2>1. cpc' \in [Commands -> Places] /\ doc' \in [Commands -> Codes \cup Answers \cup {"none"}]
    BY <1>1, <1>3, <1>4, <1>9, MovesAreTyped DEF RunList
  <2> QED
    BY <1>1, <1>2, <1>9, <2>1 DEF RunList, TypeOK, callVars
<1>10. ASSUME NEW c \in Commands, RunReport(c) PROVE TypeOK'
  <2>1. Say(c, "run", "accepted") \/ Say(c, "run", "not newer")
    BY <1>10 DEF RunReport
  <2>2. cpc' \in [Commands -> Places] /\ doc' \in [Commands -> Codes \cup Answers \cup {"none"}]
    BY <1>1, <1>3, <1>4, <2>1, MovesAreTyped
  <2>3. UNCHANGED <<config, installed, callVars, loaded, held, out, exit>>
    BY <1>10 DEF RunReport
  <2> QED
    BY <1>1, <1>2, <2>2, <2>3 DEF TypeOK, callVars
<1>11. ASSUME NEW c \in Commands, RunFails(c) PROVE TypeOK'
  <2>1. \E code \in Codes : Fail(c, "run", code)
    BY <1>4, <1>11, VerdictType DEF RunFails
  <2>2. cpc' \in [Commands -> Places] /\ doc' \in [Commands -> Codes \cup Answers \cup {"none"}]
    BY <1>1, <1>3, <2>1, MovesAreTyped
  <2>3. UNCHANGED <<config, health, installed, callVars, loaded, held, out, exit>>
    BY <1>11 DEF RunFails
  <2> QED
    BY <1>1, <1>2, <2>2, <2>3 DEF TypeOK, callVars
<1>12. ASSUME NEW c \in Commands, cpc[c] \in {"write", "rewrite"}
       PROVE  /\ doc[c] \in Codes \cup Answers
              /\ out[c] \o held[c] \o <<doc[c]>> \in Seq(Codes \cup Answers)
              /\ Append(held[c], doc[c]) \in Seq(Codes \cup Answers)
  <2>1. doc[c] \in Codes \cup Answers
    BY <1>1, <1>12 DEF Sound
  <2>2. out[c] \in Seq(Codes \cup Answers) /\ held[c] \in Seq(Codes \cup Answers)
    BY <1>1 DEF TypeOK
  <2> QED
    BY <2>1, <2>2
<1>13. <<>> \in Seq(Codes \cup Answers)
  OBVIOUS
<1>14. ASSUME NEW c \in Commands, Write(c) PROVE TypeOK'
  <2>1. ExitStatus(doc[c]) \in {0, 1}
    BY DEF ExitStatus
  <2> QED
    BY <1>1, <1>2, <1>3, <1>12, <1>13, <1>14, <2>1 DEF Write, TypeOK, callVars
<1>15. ASSUME NEW c \in Commands, WriteFails(c) PROVE TypeOK'
  <2>1. cpc' \in [Commands -> Places] /\ doc' \in [Commands -> Codes \cup Answers \cup {"none"}]
    BY <1>1, <1>3, <1>4, <1>15, MovesAreTyped DEF WriteFails
  <2>2. cpc[c] \in {"write", "rewrite"}
    BY <1>15 DEF WriteFails, Fail, Goto
  <2>3. held' \in [Commands -> Seq(Codes \cup Answers)]
    BY <1>1, <1>12, <1>15, <2>2 DEF WriteFails, TypeOK
  <2>4. UNCHANGED <<config, health, installed, callVars, loaded, out, exit>>
    BY <1>15 DEF WriteFails
  <2> QED
    BY <1>1, <1>2, <2>1, <2>3, <2>4 DEF TypeOK, callVars
<1>16. ASSUME NEW c \in Commands, RewriteFails(c) PROVE TypeOK'
  <2>1. cpc' \in [Commands -> Places] /\ cpc[c] \in {"write", "rewrite"}
    BY <1>1, <1>3, <1>16 DEF RewriteFails, Goto, TypeOK
  <2>2. out' \in [Commands -> Seq(Codes \cup Answers)]
    BY <1>1, <1>12, <1>16, <2>1 DEF RewriteFails, TypeOK
  <2>3. held' \in [Commands -> Seq(Codes \cup Answers)] /\ exit' \in [Commands -> {0, 1}]
    BY <1>1, <1>13, <1>16 DEF RewriteFails, TypeOK
  <2>4. UNCHANGED <<config, health, installed, callVars, loaded, doc>>
    BY <1>16 DEF RewriteFails
  <2> QED
    BY <1>1, <1>2, <2>1, <2>2, <2>3, <2>4 DEF TypeOK, callVars
<1>17. ASSUME Edit PROVE TypeOK'
  BY <1>1, <1>2, <1>17 DEF Edit, TypeOK, callVars, outputVars
<1>18. ASSUME Install PROVE TypeOK'
  BY <1>1, <1>2, <1>18 DEF Install, TypeOK, callVars, outputVars
<1>19. ASSUME UNCHANGED commandVars PROVE TypeOK'
  BY <1>1, <1>2, <1>19 DEF commandVars, TypeOK, callVars, outputVars
<1> QED
  BY <1>5, <1>6, <1>7, <1>8, <1>9, <1>10, <1>11, <1>14, <1>15, <1>16, <1>17, <1>18, <1>19
     DEF Next, Step

-------------------------------------------------------------------------------
(***************************************************************************)
(* Every step keeps every command sound: the one that moves by what its    *)
(* step does, the others because the registers only rise.                  *)
(***************************************************************************)
LEMMA SoundInit == Init => \A c \in Commands : Sound(c)
<1> SUFFICES ASSUME Init, NEW c \in Commands PROVE Sound(c)
  OBVIOUS
<1>1. cpc[c] = "none" /\ authority[c] = "none" /\ held[c] = <<>> /\ out[c] = <<>>
  BY DEF Init
<1> QED
  BY <1>1, DocumentFacts DEF Sound

\* The claims of a command that goes on with the same request.
LEMMA GoesOn ==
    ASSUME IInv, TypeOK', [Next]_commandVars, NEW c \in Commands, Step(c)
    PROVE  /\ UNCHANGED callVars
           /\ \A d : Claim(c, d) => Claim(c, d)'
           /\ \A documents : Claims(c, documents) => Claims(c, documents)'
<1>1. UNCHANGED callVars
  BY DEF Step, Parse, Load, LoadFails, RunList, RunReport, RunFails, Write, WriteFails,
         RewriteFails, callVars
<1>2. backend'[c] = backend[c] /\ request'[c] = request[c]
  BY <1>1 DEF callVars
<1>3. \A a \in Authorities : Rises(health[a], health'[a])
  BY RegistersRise
<1>4. ASSUME NEW d, Claim(c, d) PROVE Claim(c, d)'
  BY <1>2, <1>3, <1>4, ClaimStays
<1>5. ASSUME NEW documents, Claims(c, documents) PROVE Claims(c, documents)'
  BY <1>2, <1>3, <1>5, ClaimsStay
<1> QED
  BY <1>1, <1>4, <1>5

\* A step of one command leaves all there is of the others alone.
LEMMA OthersStand ==
    ASSUME IInv, TypeOK', [Next]_commandVars, NEW c \in Commands, Call(c) \/ Step(c),
           NEW d \in Commands, d # c
    PROVE  Sound(d)'
<1>1. /\ cpc'[d] = cpc[d] /\ request'[d] = request[d] /\ backend'[d] = backend[d]
      /\ authority'[d] = authority[d] /\ doc'[d] = doc[d]
  <2>1. CASE Call(c)
    <3>1. PICK r \in Requests, b \in Backends :
             /\ request' = [request EXCEPT ![c] = r]
             /\ backend' = [backend EXCEPT ![c] = b]
             /\ authority' = [authority EXCEPT ![c] = Selected(b, installed)]
      BY <2>1 DEF Call
    <3>2. cpc' = [cpc EXCEPT ![c] = "parse"] /\ doc' = doc
      BY <2>1 DEF Call, Goto, outputVars
    <3> QED
      BY <3>1, <3>2 DEF IInv, TypeOK
  <2>2. CASE Step(c)
    <3>1. UNCHANGED callVars
      BY <2>2, GoesOn
    <3>2. \E to : cpc' = [cpc EXCEPT ![c] = to]
      BY <2>2 DEF Step, Parse, Load, LoadFails, RunList, RunReport, RunFails, Write, WriteFails,
                  RewriteFails, Fail, Say, Goto
    <3>3. doc' = doc \/ \E new : doc' = [doc EXCEPT ![c] = new]
      BY <2>2 DEF Step, Parse, Load, LoadFails, RunList, RunReport, RunFails, Write, WriteFails,
                  RewriteFails, Fail, Say, outputVars
    <3> QED
      BY <3>1, <3>2, <3>3 DEF callVars, IInv, TypeOK
  <2> QED
    BY <2>1, <2>2
<1>2. held'[d] = held[d] /\ out'[d] = out[d] /\ exit'[d] = exit[d]
  <2>1. CASE Call(c)
    BY <2>1 DEF Call, outputVars
  <2>2. CASE Write(c) \/ WriteFails(c) \/ RewriteFails(c)
    BY <2>2 DEF Write, WriteFails, RewriteFails, IInv, TypeOK
  <2>3. CASE Step(c) /\ ~(Write(c) \/ WriteFails(c) \/ RewriteFails(c))
    BY <2>3 DEF Step, Parse, Load, LoadFails, RunList, RunReport, RunFails, outputVars
  <2> QED
    BY <2>1, <2>2, <2>3
<1> QED
  BY <1>1, <1>2, RegistersRise, StandsStill

\* To fail on the way to an error document is sound, whatever is in the buffer of
\* stdout then, as long as it is true.
LEMMA FailsSoundly ==
    ASSUME IInv, TypeOK', [Next]_commandVars, NEW c \in Commands, Step(c),
           NEW from \in Places \ {"end"}, NEW code \in Codes, Fail(c, from, code),
           UNCHANGED out, Claims(c, held'[c])
    PROVE  Sound(c)'
<1>1. cpc'[c] = "rewrite" /\ doc'[c] = code /\ cpc[c] # "end"
  BY DEF Fail, Goto, IInv, TypeOK
<1>2. Sound(c) /\ UNCHANGED callVars /\ authority'[c] = authority[c] /\ backend'[c] = backend[c]
  BY GoesOn DEF IInv, callVars
<1>3. out'[c] = <<>> /\ Claims(c, <<>>)
  BY <1>1, <1>2, DocumentFacts DEF Sound
<1>4. Claims(c, held[c])' /\ Claims(c, out[c])'
  BY <1>3, GoesOn DEF Claims, Claim
<1>5. Claim(c, doc[c])'
  BY <1>1 DEF Claim, Codes
<1> QED
  BY <1>1, <1>2, <1>3, <1>4, <1>5 DEF Sound

\* A command that is on its way, with nothing in its buffer, stays sound as it
\* comes to the next place without a document.
LEMMA ComesSoundly ==
    ASSUME IInv, TypeOK', [Next]_commandVars, NEW c \in Commands, Step(c),
           cpc[c] \notin {"rewrite", "end"}, cpc'[c] \in {"load", "run"},
           cpc'[c] = "run" => authority[c] # "none", UNCHANGED <<held, out>>
    PROVE  Sound(c)'
<1>1. /\ Sound(c) /\ UNCHANGED callVars
      /\ authority'[c] = authority[c] /\ backend'[c] = backend[c]
  BY GoesOn DEF IInv, callVars
<1>2. held'[c] = <<>> /\ out'[c] = <<>>
  BY <1>1 DEF Sound
<1>3. Claims(c, held[c])' /\ Claims(c, out[c])'
  BY <1>2 DEF Claims
<1> QED
  BY <1>1, <1>2, <1>3 DEF Sound

\* So does one that has run and is about to write a document that is true.
LEMMA SaysSoundly ==
    ASSUME IInv, TypeOK', [Next]_commandVars, NEW c \in Commands, Step(c),
           NEW document \in Codes \cup Answers, Say(c, "run", document), Claim(c, document)',
           UNCHANGED <<held, out>>
    PROVE  Sound(c)'
<1>1. /\ Sound(c) /\ UNCHANGED callVars
      /\ authority'[c] = authority[c] /\ backend'[c] = backend[c]
  BY GoesOn DEF IInv, callVars
<1>2. cpc[c] = "run" /\ cpc'[c] = "write" /\ doc'[c] = document
  BY DEF Say, Goto, IInv, TypeOK
<1>3. held'[c] = <<>> /\ out'[c] = <<>>
  BY <1>1, <1>2 DEF Sound
<1>4. Claims(c, held[c])' /\ Claims(c, out[c])'
  BY <1>3 DEF Claims
<1>5. Claim(c, doc[c])'
  BY <1>2 DEF Claim
<1> QED
  BY <1>1, <1>2, <1>3, <1>4, <1>5 DEF Sound

\* What a report is answered is what its register knows from then on.
LEMMA ReportIsAnswered ==
    ASSUME IInv, TypeOK', [Next]_commandVars, NEW c \in Commands, RunReport(c)
    PROVE  \E answer \in Answers : Say(c, "run", answer) /\ Claim(c, answer)'
<1> DEFINE a == authority[c]
           r == request[c].of
           key == RouteKey(r)
           rows == health[a]
           new == Observe(rows, key, r.status, r.at)
<1>1. /\ a \in Authorities /\ backend[c] = a /\ request[c].kind = "report"
      /\ backend'[c] = backend[c] /\ request'[c] = request[c]
  BY GoesOn DEF RunReport, Say, Goto, Step, callVars, IInv, TypeOK, Sound
<1>2. key \in Routes /\ r.status \in Statuses /\ r.at \in Nat
  BY <1>1, ReportAsked DEF IInv, TypeOK
<1>3. IsHealth(rows) /\ DOMAIN health = Authorities
  BY <1>1 DEF IInv, TypeOK
<1>4. CASE r.at > NewestAt(HealthOf(rows, key))
  <2>1. HealthOf(new, key)[r.status] = r.at
    BY <1>2, <1>3, <1>4, RegisterTakes
  <2>2. health' = [health EXCEPT ![a] = new] /\ Say(c, "run", "accepted")
    BY <1>4 DEF RunReport
  <2>3. health'[a] = new
    BY <1>1, <1>3, <2>2
  <2>4. Knows(health'[a], r)
    <3> HIDE DEF new, key, rows
    <3> QED
      BY <1>2, <2>1, <2>3 DEF Knows, key
  <2>5. Claim(c, "accepted")'
    BY <1>1, <2>4 DEF Claim, Knows
  <2> QED
    BY <2>2, <2>5 DEF Answers
<1>5. CASE ~(r.at > NewestAt(HealthOf(rows, key)))
  <2>1. health' = health /\ Say(c, "run", "not newer")
    BY <1>5 DEF RunReport
  <2>2. NewestAt(HealthOf(rows, key)) >= r.at
    BY <1>2, <1>3, <1>5, KnownOfRoute
  <2>3. Claim(c, "not newer")'
    BY <1>1, <2>1, <2>2 DEF Claim
  <2> QED
    BY <2>1, <2>3 DEF Answers
<1> QED
  BY <1>4, <1>5

\* What a caller has when its command writes: only an answer that is all there is
\* comes with the exit status 0.
LEMMA WritesSoundly ==
    ASSUME IInv, TypeOK', [Next]_commandVars, NEW c \in Commands, Write(c)
    PROVE  Sound(c)'
<1>1. /\ Sound(c) /\ UNCHANGED callVars
      /\ authority'[c] = authority[c] /\ backend'[c] = backend[c]
  BY GoesOn DEF IInv, Step, callVars
<1>2. /\ cpc[c] \in {"write", "rewrite"} /\ cpc'[c] = "end"
      /\ held'[c] = <<>> /\ out'[c] = out[c] \o held[c] \o <<doc[c]>>
      /\ exit'[c] = ExitStatus(doc[c])
  BY DEF Write, IInv, TypeOK
<1>3. out[c] = <<>> /\ held[c] \in Seq(Codes \cup Answers) /\ doc[c] \in Codes \cup Answers
  BY <1>1, <1>2 DEF Sound, IInv, TypeOK
<1>4. out'[c] = held[c] \o <<doc[c]>>
  BY <1>2, <1>3
<1>5. Claims(c, held[c]) /\ Claim(c, doc[c])
  BY <1>1, <1>2, CodesClaimNothing DEF Sound
<1>6. Claims(c, out'[c])
  BY <1>3, <1>4, <1>5, DocumentFacts
<1>7. Claims(c, out[c])' /\ Claims(c, held[c])'
  <2>1. Step(c)
    BY DEF Step
  <2>2. Claims(c, <<>>)
    BY DocumentFacts
  <2> QED
    BY <1>2, <1>6, <2>1, <2>2, GoesOn DEF Claims, Claim
<1>8. Fits(c)'
  <2>1. CASE cpc[c] = "write"
    <3>1. held[c] = <<>>
      BY <1>1, <2>1 DEF Sound
    <3>2. out'[c] = <<doc[c]>>
      BY <1>3, <1>4, <3>1
    <3>3. Len(out'[c]) = 1 /\ out'[c][1] = doc[c] /\ out'[c][Len(out'[c])] = doc[c]
      BY <3>2
    <3>4. exit'[c] = IF doc[c] \in Answers THEN 0 ELSE 1
      BY <1>2 DEF ExitStatus
    <3> QED
      BY <1>3, <3>3, <3>4 DEF Fits
  <2>2. CASE cpc[c] = "rewrite"
    <3>1. doc[c] \in Codes /\ doc[c] \notin Answers
      BY <1>1, <2>2 DEF Sound, Codes, Answers
    <3>2. exit'[c] = 1 /\ out'[c][Len(out'[c])] = doc[c]
      BY <1>2, <1>3, <1>4, <3>1, DocumentFacts DEF ExitStatus
    <3> QED
      BY <3>1, <3>2 DEF Fits
  <2> QED
    BY <1>2, <2>1, <2>2
<1> QED
  BY <1>1, <1>2, <1>7, <1>8 DEF Sound

\* What a caller has when its command ends with a traceback.
LEMMA EndsSoundly ==
    ASSUME IInv, TypeOK', [Next]_commandVars, NEW c \in Commands, RewriteFails(c)
    PROVE  Sound(c)'
<1>1. /\ Sound(c) /\ UNCHANGED callVars
      /\ authority'[c] = authority[c] /\ backend'[c] = backend[c]
  BY GoesOn DEF IInv, Step, callVars
<1>2. /\ cpc[c] = "rewrite" /\ cpc'[c] = "end" /\ held'[c] = <<>> /\ exit'[c] = 1
      /\ out'[c] = out[c] \/ out'[c] = out[c] \o held[c] \o <<doc[c]>>
  BY DEF RewriteFails, Goto, IInv, TypeOK
<1>3. out[c] = <<>> /\ held[c] \in Seq(Codes \cup Answers) /\ doc[c] \in Codes
  BY <1>1, <1>2 DEF Sound, IInv, TypeOK
<1>4. out'[c] = <<>> \/ out'[c] = held[c] \o <<doc[c]>>
  BY <1>2, <1>3
<1>5. Claims(c, held[c]) /\ Claim(c, doc[c])
  BY <1>1, <1>3, CodesClaimNothing DEF Sound
<1>6. Claims(c, out'[c])
  BY <1>3, <1>4, <1>5, DocumentFacts
<1>7. Claims(c, out[c])' /\ Claims(c, held[c])'
  <2>1. Step(c)
    BY DEF Step
  <2>2. Claims(c, <<>>)
    BY DocumentFacts
  <2> QED
    BY <1>2, <1>6, <2>1, <2>2, GoesOn DEF Claims, Claim
<1>8. Fits(c)'
  BY <1>2, <1>3, <1>4, DocumentFacts DEF Fits
<1> QED
  BY <1>1, <1>2, <1>7, <1>8 DEF Sound

\* The first write may leave its document in the buffer: it is true all the same.
LEMMA WriteFailsSoundly ==
    ASSUME IInv, TypeOK', [Next]_commandVars, NEW c \in Commands, WriteFails(c)
    PROVE  Sound(c)'
<1>1. Sound(c) /\ held[c] \in Seq(Codes \cup Answers)
  BY DEF IInv, TypeOK
<1>2. cpc[c] = "write" /\ Fail(c, "write", "persistence_failed")
  BY DEF WriteFails, Fail, Goto
<1>3. doc[c] \in Codes \cup Answers /\ Claim(c, doc[c]) /\ Claims(c, held[c])
  BY <1>1, <1>2 DEF Sound
<1>4. held'[c] = held[c] \/ held'[c] = held[c] \o <<doc[c]>>
  <2>1. Append(held[c], doc[c]) = held[c] \o <<doc[c]>>
    BY <1>1, <1>3
  <2> QED
    BY <2>1 DEF WriteFails, IInv, TypeOK
<1>5. Claims(c, held'[c])
  BY <1>1, <1>3, <1>4, DocumentFacts
<1>6. "write" \in Places \ {"end"} /\ "persistence_failed" \in Codes
  BY DEF Places, Codes
<1>7. Step(c) /\ UNCHANGED out
  BY DEF Step, WriteFails
<1> QED
  BY <1>2, <1>5, <1>6, <1>7, FailsSoundly

\* Every step of a command leaves that command sound.
LEMMA MoverIsSound ==
    ASSUME IInv, TypeOK', [Next]_commandVars, NEW c \in Commands, Call(c) \/ Step(c)
    PROVE  Sound(c)'
<1>1. Sound(c)
  BY DEF IInv
<1>2. {"none", "parse", "load", "run", "write", "rewrite"} = Places \ {"end"}
  BY DEF Places
<1>3. CASE Call(c)
  <2>1. PICK b \in Backends :
           /\ backend' = [backend EXCEPT ![c] = b]
           /\ authority' = [authority EXCEPT ![c] = Selected(b, installed)]
    BY <1>3 DEF Call
  <2>2. cpc[c] = "none" /\ cpc'[c] = "parse" /\ held'[c] = held[c] /\ out'[c] = out[c]
    BY <1>3 DEF Call, Goto, outputVars, IInv, TypeOK
  <2>3. held'[c] = <<>> /\ out'[c] = <<>>
    BY <1>1, <2>2 DEF Sound
  <2>4. Claims(c, held[c])' /\ Claims(c, out[c])'
    BY <2>3 DEF Claims
  <2>5. authority'[c] # "none" => authority'[c] = backend'[c]
    BY <2>1, SelectedType DEF IInv, TypeOK
  <2> QED
    BY <2>2, <2>3, <2>4, <2>5 DEF Sound
<1>4. ASSUME Step(c), NEW from \in Places \ {"rewrite", "end"}, NEW code \in Codes,
             Fail(c, from, code), UNCHANGED <<held, out>>
      PROVE  Sound(c)'
  <2>1. cpc[c] # "rewrite"
    BY <1>4 DEF Fail, Goto
  <2>2. Claims(c, held'[c])
    BY <1>1, <1>4, <2>1 DEF Sound
  <2> QED
    BY <1>4, <2>2, FailsSoundly
<1>5. CASE Parse(c)
  <2>1. CASE request[c].kind = "malformed"
    BY <1>2, <1>4, <1>5, <2>1 DEF Parse, Step, Codes, Places
  <2>2. CASE request[c].kind # "malformed"
    <3>1. cpc[c] = "parse" /\ cpc'[c] = "load" /\ UNCHANGED <<held, out>>
      BY <1>5, <2>2 DEF Parse, Goto, IInv, TypeOK
    <3> QED
      BY <1>5, <3>1, ComesSoundly DEF Step
  <2> QED
    BY <2>1, <2>2
<1>6. CASE Load(c)
  <2>1. cpc[c] = "load" /\ cpc'[c] = "run" /\ authority[c] # "none" /\ UNCHANGED <<held, out>>
    BY <1>6 DEF Load, Loads, Goto, outputVars, IInv, TypeOK
  <2> QED
    BY <1>6, <2>1, ComesSoundly DEF Step
<1>7. CASE LoadFails(c)
  BY <1>4, <1>7 DEF LoadFails, Step, Codes, Places
<1>8. CASE RunList(c)
  <2>1. CASE Say(c, "run", "invalid_config")
    BY <1>8, <2>1, CodesClaimNothing, SaysSoundly DEF RunList, Step, Codes, Claim
  <2>2. CASE Say(c, "run", "list")
    BY <1>8, <2>2, SaysSoundly DEF RunList, Step, Answers, Claim
  <2> QED
    BY <1>8, <2>1, <2>2 DEF RunList
<1>9. CASE RunReport(c)
  BY <1>9, ReportIsAnswered, SaysSoundly DEF RunReport, Step
<1>10. CASE RunFails(c)
  <2>1. \E code \in Codes : Fail(c, "run", code)
    BY <1>10, VerdictType DEF RunFails, Codes
  <2> QED
    BY <1>4, <1>10, <2>1 DEF RunFails, Step, Places
<1>11. CASE Write(c)
  BY <1>11, WritesSoundly
<1>12. CASE WriteFails(c)
  BY <1>12, WriteFailsSoundly
<1>13. CASE RewriteFails(c)
  BY <1>13, EndsSoundly
<1> QED
  BY <1>3, <1>5, <1>6, <1>7, <1>8, <1>9, <1>10, <1>11, <1>12, <1>13 DEF Step

LEMMA SoundStep == IInv /\ TypeOK' /\ [Next]_commandVars => \A c \in Commands : Sound(c)'
<1> SUFFICES ASSUME IInv, TypeOK', [Next]_commandVars, NEW d \in Commands PROVE Sound(d)'
  OBVIOUS
<1>1. CASE \E c \in Commands : Call(c) \/ Step(c)
  BY <1>1, MoverIsSound, OthersStand
<1>2. CASE Edit \/ Install \/ UNCHANGED commandVars
  <2>1. UNCHANGED <<cpc, request, backend, authority, doc, held, out, exit>>
    BY <1>2 DEF Edit, Install, commandVars, callVars, outputVars
  <2> QED
    BY <2>1, RegistersRise, StandsStill
<1> QED
  BY <1>1, <1>2 DEF Next

LEMMA Invariance == Spec => []IInv
<1>1. Init => IInv
  BY TypeInit, SoundInit DEF IInv
<1>2. IInv /\ [Next]_commandVars => IInv'
  BY TypeStep, SoundStep DEF IInv
<1> QED
  BY <1>1, <1>2, PTL DEF Spec

-------------------------------------------------------------------------------
\* Every variable of the commands keeps its type (cli.py, mesh.py).
THEOREM TypeCorrect == Spec => []TypeOK
  BY Invariance, PTL DEF IInv

\* Whatever stdout does, no failure of mesh list or mesh report-route passes for a
\* success: with the exit status 0 the caller has an answer and nothing else, and
\* with another one the last document it has is an error (_mesh_main of cli.py).
THEOREM StatusIsHonest == Spec => []StatusFitsDocument
<1>1. IInv => StatusFitsDocument
  BY DEF IInv, Sound, Fits, StatusFitsDocument
<1> QED
  BY <1>1, Invariance, PTL

\* What report-route answers is true of the authority that was asked, and stays
\* true whatever any number of commands report after it: a register only rises.
THEOREM AnswersStayTrue == Spec => []AnswersAreTrue
<1>1. IInv => AnswersAreTrue
  BY DEF IInv, Sound, Claims, Claim, AnswersAreTrue
<1> QED
  BY <1>1, Invariance, PTL

\* No command ever loads or records at another authority than the one it was asked
\* to use, and no register takes a report that was not checked against a
\* configuration of the same revision (mesh.py, report_route).
THEOREM NoFallback == Spec => AuthorityIsBound
<1> DEFINE Bound ==
        /\ \A c \in Commands : loaded'[c] # loaded[c] => loaded'[c] = config[backend[c]]
        /\ \A a \in Authorities : health'[a] # health[a] =>
              \E c \in Commands :
                  /\ backend[c] = a /\ request[c].kind = "report"
                  /\ request[c].of.revision = loaded[c].revision
                  /\ doc'[c] = "accepted"
<1>1. IInv /\ [Next]_commandVars => [Bound]_commandVars
  <2> SUFFICES ASSUME IInv, Next PROVE Bound
    OBVIOUS
  <2>1. ASSUME NEW c \in Commands, loaded'[c] # loaded[c] PROVE loaded'[c] = config[backend[c]]
    <3>1. PICK d \in Commands : Load(d)
      BY <2>1 DEF Next, Edit, Install, Call, Step, Parse, LoadFails, RunList, RunReport, RunFails,
                  Write, WriteFails, RewriteFails, outputVars
    <3>2. d = c /\ loaded'[c] = config[authority[c]] /\ authority[c] # "none"
      BY <2>1, <3>1 DEF Load, Loads, IInv, TypeOK
    <3> QED
      BY <3>2 DEF IInv, Sound
  <2>2. ASSUME NEW a \in Authorities, health'[a] # health[a]
        PROVE  \E c \in Commands :
                  /\ backend[c] = a /\ request[c].kind = "report"
                  /\ request[c].of.revision = loaded[c].revision
                  /\ doc'[c] = "accepted"
    <3>1. PICK c \in Commands : RunReport(c)
      BY <2>2 DEF Next, Edit, Install, Call, Step, Parse, Load, LoadFails, RunList, RunFails,
                  Write, WriteFails, RewriteFails
    <3>2. /\ Say(c, "run", "accepted") /\ a = authority[c]
          /\ request[c].kind = "report" /\ Verdict(loaded[c], request[c].of, Now) = "valid"
      BY <2>2, <3>1 DEF RunReport, IInv, TypeOK
    <3>3. doc'[c] = "accepted" /\ cpc[c] = "run"
      BY <3>2 DEF Say, Goto, IInv, TypeOK
    <3>4. backend[c] = a
      BY <3>2, <3>3 DEF IInv, Sound
    <3> QED
      BY <3>2, <3>3, <3>4, ValidIsCurrent
  <2> QED
    BY <2>1, <2>2
<1> QED
  BY <1>1, Invariance, PTL DEF Spec, AuthorityIsBound

-------------------------------------------------------------------------------
(***************************************************************************)
(* The registers as the commands change them.  A history variable collects *)
(* the registers each authority has had; with it every authority is seen   *)
(* to keep an ObservationRegister, which is what RouteHealthStore          *)
(* implements.  No machine stops here, so none of them comes back.         *)
(***************************************************************************)
VARIABLE registers

RegisterOf(known) == [readable |-> TRUE, rows |-> known]

Register(a) == INSTANCE ObservationRegister
    WITH register <- RegisterOf(health[a]), settled <- registers[a],
         Observations <- {r.of : r \in {q \in Requests : q.kind = "report"}}

InitRegisters == Init /\ registers = [a \in Authorities |-> {RegisterOf(health[a])}]
NextRegisters ==
    /\ Next
    /\ registers' = [a \in Authorities |-> registers[a] \cup {RegisterOf(health'[a])}]
SpecRegisters == InitRegisters /\ [][NextRegisters]_<<commandVars, registers>>

\* The operators of the registers are those of the commands.
LEMMA SameHealth ==
    ASSUME NEW a
    PROVE  /\ \A known : Register(a)!IsHealth(known) <=> IsHealth(known)
           /\ \A known, key : Register(a)!HealthOf(known, key) = HealthOf(known, key)
           /\ \A h : Register(a)!NewestAt(h) = NewestAt(h)
           /\ \A r : Register(a)!RouteKey(r) = RouteKey(r)
           /\ \A known, key, status, at :
                 Register(a)!Observe(known, key, status, at) = Observe(known, key, status, at)
<1>1. \A known : Register(a)!IsHealth(known) <=> IsHealth(known)
  BY DEF Register!IsHealth, IsHealth, Register!Healths, Healths, Register!Routes, Routes,
         Register!Keys, Keys, Register!Statuses, Register!Never, Statuses, Never
<1>2. \A known, key : Register(a)!HealthOf(known, key) = HealthOf(known, key)
  BY DEF Register!HealthOf, HealthOf, Register!NoHealth, NoHealth,
         Register!Statuses, Register!Never, Statuses, Never
<1>3. \A h : Register(a)!NewestAt(h) = NewestAt(h)
  BY DEF Register!NewestAt, NewestAt
<1>4. \A r : Register(a)!RouteKey(r) = RouteKey(r)
  BY DEF Register!RouteKey, RouteKey
<1>5. \A known, key, status, at :
         Register(a)!Observe(known, key, status, at) = Observe(known, key, status, at)
  BY <1>2 DEF Register!Observe, Observe
<1> QED
  BY <1>1, <1>2, <1>3, <1>4, <1>5

\* A register is readable, and what it says is all that is replaced.
LEMMA RegisterIs ==
    /\ \A known : RegisterOf(known).readable /\ RegisterOf(known).rows = known
    /\ \A known, new : RegisterOf(new) = [RegisterOf(known) EXCEPT !.rows = new]
<1>1. \A b, known, new :
         [readable |-> b, rows |-> new] = [[readable |-> b, rows |-> known] EXCEPT !.rows = new]
  OBVIOUS
<1>2. \A known, new : RegisterOf(new) = [RegisterOf(known) EXCEPT !.rows = new]
  BY <1>1 DEF RegisterOf
<1> QED
  BY <1>2 DEF RegisterOf

\* What one step makes of the register of an authority: it takes the observation
\* that a command reports, or leaves it alone.
LEMMA StepOfRegister ==
    ASSUME IInv, Next, NEW a \in Authorities, health'[a] # health[a]
    PROVE  \E q \in Requests :
              /\ q.kind = "report"
              /\ q.of.at > NewestAt(HealthOf(health[a], RouteKey(q.of)))
              /\ health'[a] = Observe(health[a], RouteKey(q.of), q.of.status, q.of.at)
<1>1. PICK c \in Commands : RunReport(c)
  BY DEF Next, Edit, Install, Call, Step, Parse, Load, LoadFails, RunList, RunFails,
         Write, WriteFails, RewriteFails
<1> DEFINE q == request[c]
<1>2. q \in Requests /\ q.kind = "report"
  <2>1. q \in Requests \cup {Malformed} /\ q.kind = "report"
    BY <1>1 DEF RunReport, IInv, TypeOK
  <2> QED
    BY <2>1, ReportAsked
<1>3. DOMAIN health = Authorities
  BY DEF IInv, TypeOK
<1>4. /\ q.of.at > NewestAt(HealthOf(health[authority[c]], RouteKey(q.of)))
      /\ health' = [health EXCEPT ![authority[c]] =
                       Observe(health[authority[c]], RouteKey(q.of), q.of.status, q.of.at)]
  BY <1>1 DEF RunReport
<1>5. authority[c] = a
  BY <1>3, <1>4
<1> HIDE DEF q
<1> QED
  BY <1>2, <1>3, <1>4, <1>5

\* Whichever authorities the commands are bound to, each keeps the register that
\* the store of route health implements, and no command writes another one.
THEOREM CommandsKeepToRegister ==
    ASSUME NEW a \in Authorities
    PROVE  SpecRegisters => Register(a)!RegisterSpec
<1> DEFINE Noted == /\ DOMAIN registers = Authorities
                    /\ RegisterOf(health[a]) \in registers[a]
<1>1. SpecRegisters => []IInv
  <2>1. [NextRegisters]_<<commandVars, registers>> => [Next]_commandVars
    BY DEF NextRegisters
  <2>2. SpecRegisters => Spec
    BY <2>1, PTL DEF SpecRegisters, InitRegisters, Spec
  <2> QED
    BY <2>2, Invariance, PTL
<1>2. InitRegisters => Noted /\ Register(a)!RegisterInit
  <2> SUFFICES ASSUME InitRegisters PROVE Noted /\ Register(a)!RegisterInit
    OBVIOUS
  <2>1. health[a] = <<>> /\ registers[a] = {RegisterOf(health[a])} /\ DOMAIN registers = Authorities
    BY DEF InitRegisters, Init
  <2>2. IsHealth(<<>>)
    BY DEF IsHealth
  <2>3. Register(a)!IsRegister(RegisterOf(health[a]))
    BY <2>1, <2>2, SameHealth DEF Register!IsRegister, RegisterOf
  <2> QED
    BY <2>1, <2>3 DEF Register!RegisterInit
<1>3. Noted /\ [NextRegisters]_<<commandVars, registers>> => Noted'
  <2> SUFFICES ASSUME Noted, [NextRegisters]_<<commandVars, registers>>
               PROVE  DOMAIN registers' = Authorities /\ RegisterOf(health'[a]) \in registers'[a]
    BY DEF RegisterOf
  <2> QED
    BY DEF NextRegisters, commandVars
<1>4. IInv /\ Noted /\ [NextRegisters]_<<commandVars, registers>>
         => [Register(a)!RegisterNext]_(Register(a)!registerVars)
  <2> SUFFICES ASSUME IInv, Noted, [NextRegisters]_<<commandVars, registers>>
               PROVE  Register(a)!RegisterNext \/ UNCHANGED Register(a)!registerVars
    OBVIOUS
  <2>1. CASE UNCHANGED <<commandVars, registers>>
    BY <2>1 DEF commandVars, RegisterOf, Register!registerVars
  <2>2. CASE NextRegisters /\ health'[a] = health[a]
    BY <2>2 DEF NextRegisters, RegisterOf, Register!registerVars
  <2>3. CASE NextRegisters /\ health'[a] # health[a]
    <3>1. PICK q \in Requests :
             /\ q.kind = "report"
             /\ q.of.at > NewestAt(HealthOf(health[a], RouteKey(q.of)))
             /\ health'[a] = Observe(health[a], RouteKey(q.of), q.of.status, q.of.at)
      BY <2>3, StepOfRegister DEF NextRegisters
    <3>2. registers'[a] = registers[a] \cup {RegisterOf(health'[a])}
      BY <2>3 DEF NextRegisters
    <3> DEFINE o == q.of
    <3>3. o \in {r.of : r \in {k \in Requests : k.kind = "report"}}
      BY <3>1
    <3>4. /\ RegisterOf(health[a]).readable /\ RegisterOf(health[a]).rows = health[a]
          /\ RegisterOf(health'[a])
                = [RegisterOf(health[a]) EXCEPT !.rows = Observe(@, RouteKey(o), o.status, o.at)]
      BY <3>1, RegisterIs
    <3>5. Register(a)!Take
      <4> HIDE DEF o
      <4>1. o.at > Register(a)!NewestAt(Register(a)!HealthOf(RegisterOf(health[a]).rows,
                                                             Register(a)!RouteKey(o)))
        BY <3>1, <3>4, SameHealth DEF o
      <4>2. RegisterOf(health'[a])
              = [RegisterOf(health[a]) EXCEPT
                    !.rows = Register(a)!Observe(@, Register(a)!RouteKey(o), o.status, o.at)]
        BY <3>4, SameHealth
      <4>3. RegisterOf(health[a])' = RegisterOf(health'[a])
        BY DEF RegisterOf
      <4> QED
        BY <3>2, <3>3, <3>4, <4>1, <4>2, <4>3 DEF Register!Take
    <3> QED
      BY <3>5 DEF Register!RegisterNext
  <2> QED
    BY <2>1, <2>2, <2>3
<1>5. SpecRegisters => []Noted
  BY <1>2, <1>3, PTL DEF SpecRegisters
<1> QED
  BY <1>1, <1>2, <1>4, <1>5, PTL DEF SpecRegisters, Register!RegisterSpec

===============================================================================
