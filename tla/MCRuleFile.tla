----------------------------- MODULE MCRuleFile -----------------------------
(* Model values for RuleFile: one address, application and port; as texts  *)
(* the zone "port", its pattern, the empty one, and "domain", so that even *)
(* a type that is taken for a value is one of them; and the words that     *)
(* stand for these, next to a port that is too large, no number, and a     *)
(* name that means nothing.                                                *)
EXTENDS RuleFile, TLC

CONSTANTS client, web

Zone    == <<"port">>
AnyZone == <<"*", "port">>
Sub     == <<"www", "port">>
NoHost  == <<>>
Name    == <<"domain">>
Stars   == {"*"}

SomeTexts   == {NoHost, Zone, AnyZone, Name}
SomeQueries == [ip : {client}, app : {web}, domain : {Sub, NoHost}, port : {80}]

SomeWord ==
  <<IP, client>> :> "80.0.0.1" @@ <<APP, web>> :> "HTTP" @@ <<PORT, 80>> :> "80"
    @@ <<DOMAIN_RULE, NoHost>> :> NoWord @@ <<DOMAIN_RULE, Zone>> :> "port"
    @@ <<DOMAIN_RULE, AnyZone>> :> "*.port" @@ <<DOMAIN_RULE, Name>> :> "domain"

Junk == "junk"
SomeWords == (Range(SomeWord) \cup Range(Key) \cup {"65616", "HOST", Junk}) \ {NoWord}

Addresses == [w \in SomeWords |-> client]
Apps      == [w \in SomeWords |-> IF w = "HTTP" THEN {web} ELSE {}]
Texts     == [w \in SomeWords |-> CASE w \in {"port", "PORT"} -> Zone
                                    [] w = "*.port"           -> AnyZone
                                    [] OTHER                  -> Name]
SomeInts  == [w \in SomeWords |-> CASE w = "80"       -> {80}
                                    [] w = "65616"    -> {65616}
                                    [] w = "80.0.0.1" -> {80}
                                    [] OTHER          -> {}]

SomeFiles == {<<"PORT", "65616", "HOST", Junk>>,
              <<"APP", Junk, "IP", "80.0.0.1", "PORT", Junk, "APP", "HTTP">>,
              <<"DOMAIN", "domain", "APP">>}

=============================================================================
