----------------------------- MODULE MCStartup -----------------------------
(* Two processes, two providers by default, and a user whose configuration *)
(* has providers whose URLs contain each other, of one name, or unusable.  *)
EXTENDS Startup, TLC

Symmetric == Permutations(Processes)

Provider(alias, base, key, model) == [alias |-> alias, base |-> base, key |-> key, model |-> model]
Deep == <<"deep">>
Open == <<"open", "v1">>

MCDefault == <<Provider("deepseek", Deep, Unset, "m1"), Provider("openai", Open, Unset, Unset)>>
MCUserConfigs ==
    {Malformed, <<Provider("", Deep, "k0", "m0")>>,
     <<Provider("deepseek", Deep, "k1", "m1"), Provider("openai", Open, "k2", "m2"),
       Provider("mine", <<>>, "k3", "m3")>>,
     <<Provider("openai", <<"open">>, "k4", Unset), Provider("openai", Open, "k5", "m5")>>,
     <<Provider("mine", <<"open">>, Unset, "m6"), Provider("openai", Open, "k7", "m7")>>}

NoVariables == [key |-> Unset, model |-> Unset, proxy |-> Unset]
MCEnvironments ==
    {[a \in Aliases |-> NoVariables],
     [a \in Aliases |-> IF a = "openai" THEN [key |-> "e2", model |-> "", proxy |-> "p"]
                                        ELSE NoVariables]}

Chat ==
    [command |-> "chat", base |-> Unset, alias |-> "", key |-> "", model |-> "", proxy |-> Unset,
     prompts |-> <<"hi">>, stdin |-> "", atty |-> TRUE, foreground |-> TRUE, edited |-> "",
     systemPrompt |-> "text", topicBase |-> Unset, topicKey |-> Unset, topicModel |-> Unset]

MCInvocations ==
    {Chat,
     [Chat EXCEPT !.alias = "openai", !.prompts = <<"-", "hi">>, !.stdin = "text", !.atty = FALSE],
     [Chat EXCEPT !.base = Open, !.key = "f", !.model = "m", !.topicBase = Deep,
                  !.stdin = "text", !.atty = FALSE],
     [Chat EXCEPT !.base = Deep, !.topicBase = Open, !.prompts = <<>>, !.edited = "text"],
     [Chat EXCEPT !.base = Deep, !.topicBase = Deep, !.systemPrompt = "file"],
     [Chat EXCEPT !.topicBase = <<>>, !.topicModel = "m", !.topicKey = "t"],
     [Chat EXCEPT !.alias = "mine"],
     [Chat EXCEPT !.systemPrompt = "missing file"],
     [Chat EXCEPT !.base = <<"other">>, !.model = "m"],
     [Chat EXCEPT !.prompts = <<>>],
     [command |-> "models", base |-> Open, alias |-> "", key |-> "", proxy |-> Unset]}

\* A gateway whose URL contains a provider's.
GatewayInvocations == {[Chat EXCEPT !.base = <<"gateway">> \o Deep]}
=============================================================================
