------------------------------ MODULE Startup ------------------------------
(***************************************************************************)
(* From the start of the program to the request it makes: the             *)
(* configuration file, which a first run creates and every run reads       *)
(* (config.cc), and the settings of a command, put together from the       *)
(* command line, the environment, the configuration and the standard       *)
(* input (args.cc), with what the topic request takes of them (history.cc).*)
(*                                                                         *)
(* Several processes start at once over one file, any of them may be       *)
(* killed between two steps, and the user may save a configuration at any  *)
(* time.  The command line parser and the environment are external.        *)
(***************************************************************************)
EXTENDS Naturals, Sequences, FiniteSets, FiniteSetsExt, SequencesExt

CONSTANTS
    Processes,
    Aliases,        \* the names providers go by
    DefaultConfig,  \* default_config().providers: a sequence of providers
    UserConfigs,    \* what the user may save: sequences of providers, or Malformed
    Malformed,      \* a text that is no JSON, or has a member of a wrong type
    Environments,   \* the variables <ALIAS>_API_KEY, _API_MODEL and _API_PROXY
    Invocations,    \* the command lines a process may be started with
    MaxSaves,       \* how often the user saves the configuration
    Unset           \* a setting, a flag or a variable that is not there

VARIABLES
    file,       \* the configuration file: its state and, if it parses, its providers
    env,        \* the environment
    pc,         \* where each process is
    invocation, \* each process's command line and standard input
    config,     \* app_config() of each process
    settings,   \* what each process goes on with
    saved       \* ghost: what was there at first, and what the user has saved

vars == <<file, env, pc, invocation, config, settings, saved>>

NoFile == [state |-> "absent", providers |-> <<>>]
Truncated == [state |-> "truncated", providers |-> <<>>]
Text(content) ==
    IF content = Malformed THEN [state |-> "malformed", providers |-> <<>>]
    ELSE [state |-> "parses", providers |-> content]

IsSequence(s) == s \in Seq(Range(s))
Usable(provider) == provider.alias # "" /\ provider.base # <<>>

\* A configuration and a URL are sequences; the defaults are usable.
ASSUME ConfigAssumption ==
    /\ \A c \in {DefaultConfig} \cup (UserConfigs \ {Malformed}) :
            IsSequence(c) /\ \A i \in DOMAIN c : IsSequence(c[i].base)
    /\ DefaultConfig # Malformed /\ DefaultConfig # <<>>
    /\ \A i \in DOMAIN DefaultConfig : Usable(DefaultConfig[i])

\* "stdin" stands for what is read from there, and for no other prompt.
ASSUME PromptsAssumption ==
    \A inv \in Invocations :
        inv.command = "chat" =>
            IsSequence(inv.prompts) /\ "stdin" \notin Range(inv.prompts) \cup {inv.edited}

Init ==
    /\ file \in {NoFile} \cup {Text(c) : c \in UserConfigs}
    /\ saved = {file}
    /\ env \in Environments
    /\ pc = [q \in Processes |-> "look"]
    /\ invocation \in [Processes -> Invocations]
    /\ config = [q \in Processes |-> <<>>]
    /\ settings = [q \in Processes |-> Unset]

-----------------------------------------------------------------------------
(* load_config()                                                            *)

Goto(q, place) == pc' = [pc EXCEPT ![q] = place]

\* Mutant of Look: it does not look.
LookNot(q) ==
    /\ pc[q] = "look"
    /\ Goto(q, "create")
    /\ UNCHANGED <<file, env, invocation, config, settings, saved>>

\* write_default_config_if_not_exists() looks before it makes the directory.
Look(q) ==
    /\ pc[q] = "look"
    /\ Goto(q, IF file = NoFile THEN "create" ELSE "read")
    /\ UNCHANGED <<file, env, invocation, config, settings, saved>>

\* write_file() opens the file, which empties it, whoever has written it.
Create(q) ==
    /\ pc[q] = "create"
    /\ file' = Truncated
    /\ Goto(q, "write")
    /\ UNCHANGED <<env, invocation, config, settings, saved>>

CreateFails(q) ==
    /\ pc[q] = "create"
    /\ Goto(q, "read")
    /\ UNCHANGED <<file, env, invocation, config, settings, saved>>

Write(q) ==
    /\ pc[q] = "write"
    /\ file' = Text(DefaultConfig)
    /\ Goto(q, "read")
    /\ UNCHANGED <<env, invocation, config, settings, saved>>

\* The disk is full: part of the text is there, and no one is told.
WriteFails(q) ==
    /\ pc[q] = "write"
    /\ file' = Truncated
    /\ Goto(q, "read")
    /\ UNCHANGED <<env, invocation, config, settings, saved>>

\* The usable providers, in order: SelectSeq(providers, Usable), written by
\* rank so that facts about it need no induction.
Kept(providers) == {i \in DOMAIN providers : Usable(providers[i])}
Rank(providers, i) == Cardinality({k \in Kept(providers) : k <= i})
Listed(providers) ==
    [j \in 1..Cardinality(Kept(providers)) |->
        providers[CHOOSE i \in Kept(providers) : Rank(providers, i) = j]]

\* No file, no JSON, and no provider with a name and a URL give the defaults.
Loaded(text) ==
    IF text.state = "parses" /\ Listed(text.providers) # <<>>
    THEN Listed(text.providers) ELSE DefaultConfig

ReadConfig(q) ==
    /\ pc[q] = "read"
    /\ config' = [config EXCEPT ![q] = Loaded(file)]
    /\ Goto(q, "settle")
    /\ UNCHANGED <<file, env, invocation, settings, saved>>

-----------------------------------------------------------------------------
(* Looking a setting up.  A URL is the sequence of its parts.               *)

Occurs(base, url) ==
    \E i \in 0..Len(url) - Len(base) : SubSeq(url, i + 1, i + Len(base)) = base

First(indices) == Min(indices)

\* Mutant of FindAliasForUrl: a URL of no provider gets the first one's name.
FindSomeAlias(cfg, url) ==
    LET hits == {i \in DOMAIN cfg : Occurs(cfg[i].base, url)}
    IN  IF hits = {} THEN cfg[1].alias ELSE cfg[First(hits)].alias

FindAliasForUrl(cfg, url) ==
    LET hits == {i \in DOMAIN cfg : Occurs(cfg[i].base, url)}
    IN  IF hits = {} THEN "" ELSE cfg[First(hits)].alias

FindProvider(cfg, alias) ==
    cfg[First({i \in DOMAIN cfg : cfg[i].alias = alias})]

\* A variable that is set to nothing is set.
EnvironmentConfig(cfg, url, what) ==
    LET alias == FindAliasForUrl(cfg, url)
    IN  IF alias = "" THEN Unset ELSE env[alias][what]

OrEmpty(setting) == IF setting = Unset THEN "" ELSE setting
OrElse(setting, other) == IF setting = Unset THEN other ELSE setting

DefaultModelForUrl(cfg, url) ==
    LET alias == FindAliasForUrl(cfg, url)
    IN  IF alias = "" THEN Unset
        ELSE OrElse(EnvironmentConfig(cfg, url, "model"), FindProvider(cfg, alias).model)

ResolveApiKey(cfg, url) ==
    LET alias == FindAliasForUrl(cfg, url)
    IN  IF alias = "" THEN Unset
        ELSE OrElse(EnvironmentConfig(cfg, url, "key"), FindProvider(cfg, alias).key)

ResolveProxy(cfg, url) == EnvironmentConfig(cfg, url, "proxy")

-----------------------------------------------------------------------------
(* The callbacks of the two commands.                                       *)

\* "--base-url", "--<alias>", which stands for it, or the first provider.
BaseUrl(cfg, inv) ==
    IF inv.alias # "" THEN FindProvider(cfg, inv.alias).base
    ELSE OrElse(inv.base, cfg[1].base)

\* Every provider's alias is an option, and no other name is one.
UnknownAlias(cfg, inv) == inv.alias # "" /\ \A i \in DOMAIN cfg : cfg[i].alias # inv.alias

Endpoint(base, command) == IF base = <<>> THEN <<>> ELSE Append(base, command)
Url(cfg, inv) == Endpoint(BaseUrl(cfg, inv), inv.command)
TopicUrl(inv) == IF inv.topicBase = Unset THEN Unset ELSE Endpoint(inv.topicBase, "chat")

Model(cfg, inv) ==
    IF inv.model # "" THEN inv.model ELSE OrEmpty(DefaultModelForUrl(cfg, Url(cfg, inv)))
ApiKey(cfg, inv) ==
    IF inv.key # "" THEN inv.key ELSE OrEmpty(ResolveApiKey(cfg, Url(cfg, inv)))
Proxy(cfg, inv) == OrElse(inv.proxy, ResolveProxy(cfg, Url(cfg, inv)))

\* Mutant of Prompts: the input is read a second time.
PromptsDoubled(inv) ==
    LET dashes == {i \in DOMAIN inv.prompts : inv.prompts[i] = "-"}
        input == IF inv.stdin = "" THEN "" ELSE "stdin"
        replaced == IF dashes = {} THEN inv.prompts
                    ELSE [inv.prompts EXCEPT ![First(dashes)] = input]
        read == IF ~inv.atty /\ input # "" THEN Append(replaced, input) ELSE replaced
    IN  IF read = <<>> /\ inv.atty /\ inv.foreground /\ inv.edited # ""
        THEN <<inv.edited>> ELSE read

\* The first "-" is replaced by the standard input, which is then used up.
\* What is left of it is one more prompt, unless it is a terminal; with no
\* prompt at all, and a terminal to edit on, there is the editor.
Prompts(inv) ==
    LET dashes == {i \in DOMAIN inv.prompts : inv.prompts[i] = "-"}
        input == IF inv.stdin = "" THEN "" ELSE "stdin"
        replaced == IF dashes = {} THEN inv.prompts
                    ELSE [inv.prompts EXCEPT ![First(dashes)] = input]
        left == IF dashes = {} THEN input ELSE ""
        read == IF ~inv.atty /\ left # "" THEN Append(replaced, left) ELSE replaced
    IN  IF read = <<>> /\ inv.atty /\ inv.foreground /\ inv.edited # ""
        THEN <<inv.edited>> ELSE read

SameApi(cfg, inv) == TopicUrl(inv) = Url(cfg, inv)
TopicModel(cfg, inv) ==
    IF TopicUrl(inv) = Unset \/ inv.topicModel # Unset THEN inv.topicModel
    ELSE IF SameApi(cfg, inv) THEN Model(cfg, inv) ELSE DefaultModelForUrl(cfg, TopicUrl(inv))
TopicApiKey(cfg, inv) ==
    IF TopicUrl(inv) = Unset \/ inv.topicKey # Unset THEN inv.topicKey
    ELSE IF SameApi(cfg, inv) THEN ApiKey(cfg, inv) ELSE ResolveApiKey(cfg, TopicUrl(inv))

\* What ends the program with a message, in the order it is looked at.
SystemPromptMissing(inv) == inv.systemPrompt = "missing file"
Incomplete(cfg, inv) ==
    \/ UnknownAlias(cfg, inv)
    \/ SystemPromptMissing(inv)
    \/ Model(cfg, inv) = ""
    \/ Prompts(inv) = <<>>
    \/ TopicUrl(inv) # Unset /\ TopicModel(cfg, inv) = Unset

\* The topic request: the chat's settings where the topic has none of its own.
Own(setting, nothing, chat) == IF setting \in {Unset, nothing} THEN chat ELSE setting
TopicRequest(cfg, inv) ==
    [url |-> Own(TopicUrl(inv), <<>>, Url(cfg, inv)),
     key |-> Own(TopicApiKey(cfg, inv), "", ApiKey(cfg, inv)),
     model |-> Own(TopicModel(cfg, inv), "", Model(cfg, inv))]

ChatSettings(cfg, inv) ==
    [url |-> Url(cfg, inv), key |-> ApiKey(cfg, inv), proxy |-> Proxy(cfg, inv),
     model |-> Model(cfg, inv), prompts |-> Prompts(inv), topic |-> TopicRequest(cfg, inv)]
ModelsSettings(cfg, inv) ==
    [url |-> Url(cfg, inv), key |-> ApiKey(cfg, inv), proxy |-> Proxy(cfg, inv)]

SettleChat(q) ==
    /\ pc[q] = "settle" /\ invocation[q].command = "chat"
    /\ IF Incomplete(config[q], invocation[q])
       THEN Goto(q, "failed") /\ UNCHANGED settings
       ELSE /\ Goto(q, "settled")
            /\ settings' = [settings EXCEPT ![q] = ChatSettings(config[q], invocation[q])]
    /\ UNCHANGED <<file, env, invocation, config, saved>>

SettleModels(q) ==
    /\ pc[q] = "settle" /\ invocation[q].command = "models"
    /\ IF UnknownAlias(config[q], invocation[q])
       THEN Goto(q, "failed") /\ UNCHANGED settings
       ELSE /\ Goto(q, "settled")
            /\ settings' = [settings EXCEPT ![q] = ModelsSettings(config[q], invocation[q])]
    /\ UNCHANGED <<file, env, invocation, config, saved>>

-----------------------------------------------------------------------------

Crash(q) ==
    /\ pc[q] \notin {"settled", "failed", "crashed"}
    /\ Goto(q, "crashed")
    /\ UNCHANGED <<file, env, invocation, config, settings, saved>>

\* The user's editor replaces the file at once.
UserSaves(content) ==
    /\ Cardinality(saved) <= MaxSaves
    /\ file' = Text(content)
    /\ saved' = saved \cup {file'}
    /\ UNCHANGED <<env, pc, invocation, config, settings>>

Step(q) ==
    \/ Look(q) \/ Create(q) \/ CreateFails(q) \/ Write(q) \/ WriteFails(q)
    \/ ReadConfig(q) \/ SettleChat(q) \/ SettleModels(q)

Next ==
    \/ \E q \in Processes : Step(q) \/ Crash(q)
    \/ \E content \in UserConfigs : UserSaves(content)

Spec == Init /\ [][Next]_vars

-----------------------------------------------------------------------------
(* Properties.                                                              *)

TypeOK ==
    /\ file.state \in {"absent", "truncated", "malformed", "parses"}
    /\ pc \in [Processes -> {"look", "create", "write", "read", "settle", "settled", "failed",
                             "crashed"}]
    /\ \A q \in Processes : pc[q] \in {"settle", "settled", "failed"} => config[q] # <<>>

(***************************************************************************)
(* However processes that start at once, crashes, full disks and the user  *)
(* interleave, a process goes on with the configuration that was there at  *)
(* first or with one the user saved, whole: half a file is never a         *)
(* configuration with fewer providers, and nobody falls back to the        *)
(* defaults where there was a usable file all the time.                    *)
(***************************************************************************)
ConfigIsWhole ==
    \A q \in Processes : pc[q] \in {"settle", "settled"} =>
        config[q] \in {Loaded(text) : text \in saved}

DistinctAliases(cfg) == \A i, j \in DOMAIN cfg : cfg[i].alias = cfg[j].alias => i = j

ProvidersOf(cfg, url) == {cfg[i] : i \in {k \in DOMAIN cfg : Occurs(cfg[k].base, url)}}

\* The keys that a provider has, in the configuration or the environment.
KeysFor(provider) == {provider.key, env[provider.alias].key} \ {Unset}
KeysOf(cfg, url) == UNION {KeysFor(p) : p \in ProvidersOf(cfg, url)}

HasKey(provider) == KeysFor(provider) # {} /\ "" \notin KeysFor(provider)

(***************************************************************************)
(* A key that was looked up is sent to the provider it belongs to: one     *)
(* whose base URL is in the URL of the request.  This holds for the chat,  *)
(* for the list of models, and for the topic, whose request falls back to  *)
(* the chat's key only where a provider of its URL has none, or an empty   *)
(* one.  It needs aliases that differ: with two providers of one name the  *)
(* first one's key is used for both.                                       *)
(***************************************************************************)
KeysGoHome ==
    \A q \in Processes :
        LET cfg == config[q]
            inv == invocation[q]
            now == settings[q]
        IN  pc[q] = "settled" /\ DistinctAliases(cfg) =>
                /\ inv.key = "" => now.key \in KeysOf(cfg, now.url) \cup {""}
                /\ inv.command = "chat" /\ inv.topicKey = Unset =>
                        LET providers == ProvidersOf(cfg, now.topic.url)
                        IN  /\ now.topic.key \in KeysOf(cfg, now.topic.url) \cup {now.key}
                            /\ now.topic.url # now.url /\ providers # {}
                               /\ (\A p \in providers : HasKey(p)) =>
                                    now.topic.key \in KeysOf(cfg, now.topic.url)

(***************************************************************************)
(* A chat that starts has a model and a prompt, and what was piped into it *)
(* or asked for with "-" is among the prompts once, neither lost nor       *)
(* doubled.                                                                *)
(***************************************************************************)
InputIsUsedOnce ==
    \A q \in Processes :
        LET inv == invocation[q]
            now == settings[q]
        IN  pc[q] = "settled" /\ inv.command = "chat" =>
                /\ now.model # "" /\ now.prompts # <<>>
                /\ Cardinality({i \in DOMAIN now.prompts : now.prompts[i] = "stdin"})
                   = IF inv.stdin # "" /\ (~inv.atty \/ "-" \in Range(inv.prompts)) THEN 1 ELSE 0

(***************************************************************************)
(* What args.cc says of find_alias_for_url(): the provider it finds is one *)
(* whose base URL the URL begins with.                                     *)
(***************************************************************************)
AliasIsOfPrefix ==
    \A q \in Processes :
        pc[q] = "settled" =>
            LET alias == FindAliasForUrl(config[q], settings[q].url)
            IN  alias # "" => IsPrefix(FindProvider(config[q], alias).base, settings[q].url)
=============================================================================
