---------------------------- MODULE MCConfigLoader ----------------------------
(***************************************************************************)
(* Instances of ConfigLoader for TLC: files that break one rule each, or   *)
(* that are refused only where the machine has a certain name.             *)
(***************************************************************************)
EXTENDS ConfigLoader, TLC

MCSpellings == {"Me", "me", "Web", "web", "db", "u@web", "localhost"}
MCIdentifiers == MCSpellings \ {"u@web"}
MCFold == [s \in MCSpellings |-> IF s = "Me" THEN "me" ELSE IF s = "Web" THEN "web" ELSE s]
MCBad == "-bad"
MCOmitted == "omitted"
MCNames == {[full |-> "Me", short |-> "me"], [full |-> "Web", short |-> "Web"],
            [full |-> MCBad, short |-> MCBad], [full |-> "u@web", short |-> "u@web"]}

Entry(id, aliases, routes) == [plain |-> TRUE, id |-> id, aliases |-> aliases, routes |-> routes]
File(id, aliases, entries) ==
    [exists |-> TRUE, parses |-> TRUE, plain |-> TRUE, schema |-> 1,
     localId |-> id, localAliases |-> aliases, hosts |-> entries]
Plain == File("Me", <<>>, <<Entry("Web", <<>>, <<"u@web", "Web">>), Entry("db", <<>>, <<"db">>)>>)
MCFiles == {
    Plain,
    [Plain EXCEPT !.exists = FALSE], [Plain EXCEPT !.parses = FALSE],
    [Plain EXCEPT !.schema = 2], [Plain EXCEPT !.plain = FALSE],
    [Plain EXCEPT !.localId = MCOmitted], [Plain EXCEPT !.localId = MCBad],
    [Plain EXCEPT !.localId = "u@web"],
    [Plain EXCEPT !.localAliases = <<"me", "Me">>], [Plain EXCEPT !.localAliases = <<"db">>],
    [Plain EXCEPT !.hosts[2].plain = FALSE], [Plain EXCEPT !.hosts[1].routes = <<>>],
    [Plain EXCEPT !.hosts[1].id = "u@web"], [Plain EXCEPT !.hosts[2].id = "web"],
    [Plain EXCEPT !.hosts[1].routes = <<"Web", "web">>],
    [Plain EXCEPT !.hosts[1].routes = <<"Web", "u@web">>],
    [Plain EXCEPT !.hosts[1].aliases = <<"web">>], [Plain EXCEPT !.hosts[2].aliases = <<"web">>],
    [Plain EXCEPT !.hosts[1].aliases = <<"Web">>], [Plain EXCEPT !.hosts[2].routes = <<"u@web">>],
    File("db", <<"Me">>, <<Entry("web", <<>>, <<"web">>)>>),
    File(MCOmitted, <<>>, <<>>),
    File("Me", <<>>, <<Entry("web", <<>>, <<"web">>), Entry("db", <<>>, <<"db">>),
                       Entry("localhost", <<>>, <<"localhost">>)>>)}
===============================================================================
