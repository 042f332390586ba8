---------------------------- MODULE StartupProofs ----------------------------
(***************************************************************************)
(* Theorems about Startup: the configuration a process goes on with, and   *)
(* the provider a key is sent to, for any number of processes, any         *)
(* configurations, environments and command lines.                         *)
(***************************************************************************)
EXTENDS Startup, DataLemmas

-----------------------------------------------------------------------------
(* The first of some indices, and the rank of one.                          *)

LEMMA FirstIsOne ==
  ASSUME NEW S \in SUBSET Nat, S # {}
  PROVE  First(S) \in S
BY LeastExists, Zenon DEF First, Min

-----------------------------------------------------------------------------
(* The providers of a configuration.                                        *)

\* What makes a configuration one to look things up in.
WellMade(cfg) ==
  /\ DOMAIN cfg \subseteq Nat
  /\ \A i \in DOMAIN cfg : Usable(cfg[i]) /\ IsSequence(cfg[i].base)

Given(c) == IsSequence(c) /\ \A i \in DOMAIN c : IsSequence(c[i].base)

LEMMA KeptIsFinite ==
  ASSUME NEW c, IsSequence(c)
  PROVE  /\ Len(c) \in Nat /\ DOMAIN c = 1..Len(c)
         /\ Kept(c) \in SUBSET (1..Len(c))
         /\ IsFiniteSet(Kept(c)) /\ Cardinality(Kept(c)) \in Nat
<1>1. Len(c) \in Nat /\ DOMAIN c = 1..Len(c)
  BY DEF IsSequence
<1>2. Kept(c) \in SUBSET (1..Len(c))
  BY <1>1 DEF Kept
<1>3. IsFiniteSet(Kept(c)) /\ Cardinality(Kept(c)) \in Nat
  BY <1>1, <1>2, FS_Interval, FS_Subset, FS_CardinalityType, 1 \in Int, Len(c) \in Int
<1> QED BY <1>1, <1>2, <1>3

LEMMA ListedIsWellMade ==
  ASSUME NEW c, Given(c)
  PROVE  WellMade(Listed(c))
<1>1. /\ Len(c) \in Nat /\ DOMAIN c = 1..Len(c)
      /\ Kept(c) \in SUBSET (1..Len(c)) /\ Cardinality(Kept(c)) \in Nat
  BY KeptIsFinite DEF Given
<1>2. DOMAIN Listed(c) = 1..Cardinality(Kept(c))
  BY DEF Listed
<1>3. ASSUME NEW j \in 1..Cardinality(Kept(c))
      PROVE  Usable(Listed(c)[j]) /\ IsSequence(Listed(c)[j].base)
  <2>1. \E i \in Kept(c) : Rank(c, i) = j
    BY <1>1, RankIsTaken DEF Rank
  <2>2. PICK i \in Kept(c) : Listed(c)[j] = c[i]
    BY <2>1 DEF Listed
  <2> QED BY <2>2 DEF Kept, Given
<1> QED BY <1>1, <1>2, <1>3 DEF WellMade

LEMMA ListedKeepsUsable ==
  ASSUME NEW c, IsSequence(c), \A i \in DOMAIN c : Usable(c[i])
  PROVE  Listed(c) = c
<1>1. Len(c) \in Nat /\ DOMAIN c = 1..Len(c)
  BY KeptIsFinite
<1>2. Kept(c) = 1..Len(c)
  BY <1>1 DEF Kept
<1>3. Cardinality(Kept(c)) = Len(c)
  BY <1>1, <1>2, FS_Interval, 1 \in Int, Len(c) \in Int
<1>4. ASSUME NEW i \in 1..Len(c) PROVE Rank(c, i) = i
  <2>1. {k \in Kept(c) : k <= i} = 1..i
    BY <1>1, <1>2
  <2>2. Cardinality(1..i) = i
    BY <1>1, FS_Interval, 1 \in Int, i \in Int
  <2> QED BY <2>1, <2>2 DEF Rank
<1>5. ASSUME NEW j \in 1..Len(c)
      PROVE  (CHOOSE i \in Kept(c) : Rank(c, i) = j) = j
  <2> DEFINE at == CHOOSE i \in Kept(c) : Rank(c, i) = j
  <2>1. at \in Kept(c) /\ Rank(c, at) = j
    BY <1>2, <1>4
  <2> HIDE DEF at
  <2>2. at = j
    BY <1>2, <1>4, <2>1
  <2> QED BY <2>2 DEF at
<1>6. Listed(c) = [j \in 1..Len(c) |-> c[j]]
  <2> DEFINE at(j) == CHOOSE i \in Kept(c) : Rank(c, i) = j
  <2>1. Listed(c) = [j \in 1..Len(c) |-> c[at(j)]]
    BY <1>3, Zenon DEF Listed
  <2>2. \A j \in 1..Len(c) : at(j) = j
    BY <1>5, Zenon
  <2> HIDE DEF at
  <2> QED BY <2>1, <2>2
<1>7. c = [j \in 1..Len(c) |-> c[j]]
  BY <1>1 DEF IsSequence
<1> QED BY <1>6, <1>7

-----------------------------------------------------------------------------
(* Looking a key up.                                                        *)

KeyOf(provider) ==
  IF env[provider.alias].key = Unset THEN provider.key ELSE env[provider.alias].key

\* A URL of no provider has no key, any other one that of one of its providers.
LEMMA KeyFound ==
  ASSUME NEW cfg, NEW url, WellMade(cfg), DistinctAliases(cfg)
  PROVE  /\ ProvidersOf(cfg, url) = {} => ResolveApiKey(cfg, url) = Unset
         /\ ProvidersOf(cfg, url) # {} =>
              \E p \in ProvidersOf(cfg, url) : ResolveApiKey(cfg, url) = KeyOf(p)
<1> DEFINE hits == {i \in DOMAIN cfg : Occurs(cfg[i].base, url)}
<1>1. ProvidersOf(cfg, url) = {cfg[i] : i \in hits}
  BY DEF ProvidersOf
<1>2. hits \in SUBSET Nat
  BY DEF WellMade
<1>3. CASE hits = {}
  <2>1. FindAliasForUrl(cfg, url) = ""
    BY <1>3, Zenon DEF FindAliasForUrl
  <2>2. ResolveApiKey(cfg, url) = Unset
    BY <2>1, Zenon DEF ResolveApiKey
  <2> QED BY <1>1, <1>3, <2>2, Zenon
<1>4. CASE hits # {}
  <2> DEFINE f == First(hits)
             alias == cfg[f].alias
             named == {i \in DOMAIN cfg : cfg[i].alias = alias}
  <2>1. f \in hits
    BY <1>2, <1>4, FirstIsOne, Zenon
  <2>2. FindAliasForUrl(cfg, url) = alias
    BY <1>4, Zenon DEF FindAliasForUrl
  <2>3. alias # ""
    BY <2>1, Zenon DEF WellMade, Usable
  <2>4. f \in named /\ named \in SUBSET Nat
    BY <2>1, Zenon DEF WellMade
  <2>5. First(named) \in named
    BY <2>4, FirstIsOne, Zenon
  <2>6. First(named) = f
    BY <2>4, <2>5, Zenon DEF DistinctAliases
  <2>7. FindProvider(cfg, alias) = cfg[f]
    BY <2>6, Zenon DEF FindProvider
  <2>8. EnvironmentConfig(cfg, url, "key") = env[alias].key
    BY <2>2, <2>3, Zenon DEF EnvironmentConfig
  <2>9. ResolveApiKey(cfg, url) = KeyOf(cfg[f])
    BY <2>2, <2>3, <2>7, <2>8, Zenon DEF ResolveApiKey, OrElse, KeyOf
  <2>10. cfg[f] \in ProvidersOf(cfg, url)
    BY <1>1, <2>1, Zenon
  <2> QED BY <2>9, <2>10, Zenon
<1> QED BY <1>3, <1>4, Zenon

\* A key that is found is one its provider has, and a provider with a key
\* that is not empty gives one.
LEMMA KeyIsHad ==
  ASSUME NEW p
  PROVE  /\ KeyOf(p) \in KeysFor(p) \cup {Unset}
         /\ HasKey(p) => KeyOf(p) \in KeysFor(p) /\ KeyOf(p) \notin {Unset, ""}
BY Zenon DEF KeyOf, KeysFor, HasKey

LEMMA KeyIsOfUrl ==
  ASSUME NEW cfg, NEW url, WellMade(cfg), DistinctAliases(cfg)
  PROVE  /\ ResolveApiKey(cfg, url) \in KeysOf(cfg, url) \cup {Unset}
         /\ ProvidersOf(cfg, url) # {} /\ (\A p \in ProvidersOf(cfg, url) : HasKey(p)) =>
              ResolveApiKey(cfg, url) \in KeysOf(cfg, url) \ {Unset, ""}
<1>1. CASE ProvidersOf(cfg, url) = {}
  BY <1>1, KeyFound, Zenon
<1>2. CASE ProvidersOf(cfg, url) # {}
  <2>1. PICK p \in ProvidersOf(cfg, url) : ResolveApiKey(cfg, url) = KeyOf(p)
    BY <1>2, KeyFound, Zenon
  <2>2. KeysFor(p) \subseteq KeysOf(cfg, url)
    BY <2>1, Zenon DEF KeysOf
  <2> QED BY <2>1, <2>2, KeyIsHad, Zenon
<1> QED BY <1>1, <1>2, Zenon

\* The empty URL contains no provider's.
LEMMA NothingInNothing ==
  ASSUME NEW cfg, WellMade(cfg)
  PROVE  ProvidersOf(cfg, <<>>) = {}
<1>1. ASSUME NEW i \in DOMAIN cfg PROVE ~Occurs(cfg[i].base, <<>>)
  <2>1. IsSequence(cfg[i].base) /\ cfg[i].base # <<>>
    BY Zenon DEF WellMade, Usable
  <2> DEFINE base == cfg[i].base
  <2>2. base \in Seq(Range(base)) /\ base # <<>>
    BY <2>1 DEF IsSequence
  <2> HIDE DEF base
  <2>3. Len(base) \in Nat /\ Len(base) # 0
    BY <2>2
  <2>4. 0..(Len(<<>>) - Len(base)) = {}
    BY <2>3
  <2> QED BY <2>4, Zenon DEF Occurs, base
<1> QED BY <1>1, Zenon DEF ProvidersOf

-----------------------------------------------------------------------------
(* The keys of a command.                                                   *)

LEMMA ChatKeyIsOfUrl ==
  ASSUME NEW cfg, NEW inv, WellMade(cfg), DistinctAliases(cfg), inv.key = ""
  PROVE  ApiKey(cfg, inv) \in KeysOf(cfg, Url(cfg, inv)) \cup {""}
BY KeyIsOfUrl, Zenon DEF ApiKey, OrEmpty

\* What KeysGoHome asks of the topic request.
TopicKeyIsHome(cfg, topic, url, key) ==
  /\ topic.key \in KeysOf(cfg, topic.url) \cup {key}
  /\ topic.url # url /\ ProvidersOf(cfg, topic.url) # {}
     /\ (\A p \in ProvidersOf(cfg, topic.url) : HasKey(p)) =>
          topic.key \in KeysOf(cfg, topic.url)

LEMMA TopicKeyIsOfUrl ==
  ASSUME NEW cfg, NEW inv, WellMade(cfg), DistinctAliases(cfg), inv.topicKey = Unset
  PROVE  TopicKeyIsHome(cfg, TopicRequest(cfg, inv), Url(cfg, inv), ApiKey(cfg, inv))
<1> DEFINE topic == TopicRequest(cfg, inv)
           chat == Url(cfg, inv)
           key == ApiKey(cfg, inv)
           found == ResolveApiKey(cfg, TopicUrl(inv))
<1>1. /\ topic.url = Own(TopicUrl(inv), <<>>, chat)
      /\ topic.key = Own(TopicApiKey(cfg, inv), "", key)
  BY DEF TopicRequest
<1> HIDE DEF topic
<1>2. CASE TopicUrl(inv) = Unset
  <2>1. topic.url = chat
    BY <1>1, <1>2, Zenon DEF Own
  <2>2. TopicApiKey(cfg, inv) = Unset
    BY <1>2, Zenon DEF TopicApiKey
  <2>3. topic.key = key
    BY <1>1, <2>2, Zenon DEF Own
  <2> QED BY <2>1, <2>3, Zenon DEF TopicKeyIsHome, topic
<1>3. CASE TopicUrl(inv) # Unset /\ SameApi(cfg, inv)
  <2>1. topic.url = chat
    BY <1>1, <1>3, Zenon DEF Own, SameApi
  <2>2. TopicApiKey(cfg, inv) = key
    BY <1>3, Zenon DEF TopicApiKey
  <2>3. topic.key = key
    BY <1>1, <2>2, Zenon DEF Own
  <2> QED BY <2>1, <2>3, Zenon DEF TopicKeyIsHome, topic
<1>4. CASE TopicUrl(inv) # Unset /\ ~SameApi(cfg, inv)
  <2>1. TopicApiKey(cfg, inv) = found
    BY <1>4, Zenon DEF TopicApiKey
  <2>2. CASE TopicUrl(inv) = <<>>
    <3>1. found = Unset
      BY <2>2, NothingInNothing, KeyFound, Zenon
    <3>2. topic.url = chat /\ topic.key = key
      BY <1>1, <2>1, <2>2, <3>1, Zenon DEF Own
    <3> QED BY <3>2, Zenon DEF TopicKeyIsHome, topic
  <2>3. CASE TopicUrl(inv) # <<>>
    <3>1. topic.url = TopicUrl(inv)
      BY <1>1, <1>4, <2>3, Zenon DEF Own
    <3>2. topic.key = IF found \in {Unset, ""} THEN key ELSE found
      BY <1>1, <2>1, Zenon DEF Own
    <3>3. topic.key \in KeysOf(cfg, topic.url) \cup {key}
      BY <3>1, <3>2, KeyIsOfUrl, Zenon
    <3>4. ProvidersOf(cfg, topic.url) # {}
          /\ (\A p \in ProvidersOf(cfg, topic.url) : HasKey(p)) =>
               topic.key \in KeysOf(cfg, topic.url)
      BY <3>1, <3>2, KeyIsOfUrl, Zenon
    <3> QED BY <3>3, <3>4, Zenon DEF TopicKeyIsHome, topic
  <2> QED BY <2>2, <2>3, Zenon
<1> QED BY <1>2, <1>3, <1>4, Zenon DEF topic

-----------------------------------------------------------------------------
(* The inductive invariant: what is in the file, what a process has loaded *)
(* of it, and what it has settled on.                                      *)

DefaultText == Text(DefaultConfig)

\* A process that creates the file has seen none.
FileInv ==
  /\ file \in saved \cup {Truncated, DefaultText}
  /\ saved \subseteq {NoFile} \cup {Text(c) : c \in UserConfigs}
  /\ file \notin saved => NoFile \in saved
  /\ \A q \in Processes : pc[q] \in {"create", "write"} => NoFile \in saved

LoadedInv ==
  \A q \in Processes : pc[q] \in {"settle", "settled", "failed"} =>
    config[q] \in {Loaded(text) : text \in saved}

SettingsOf(cfg, inv) ==
  IF inv.command = "chat" THEN ChatSettings(cfg, inv) ELSE ModelsSettings(cfg, inv)

SettledInv ==
  \A q \in Processes : pc[q] = "settled" =>
    settings[q] = SettingsOf(config[q], invocation[q])

Places == {"look", "create", "write", "read", "settle", "settled", "failed", "crashed"}

Typed ==
  /\ pc \in [Processes -> Places]
  /\ DOMAIN config = Processes /\ DOMAIN settings = Processes

IInv == Typed /\ FileInv /\ LoadedInv /\ SettledInv

LEMMA LoadedDefaults ==
  /\ Loaded(NoFile) = DefaultConfig
  /\ Loaded(Truncated) = DefaultConfig
  /\ Loaded(DefaultText) = DefaultConfig
<1>1. NoFile.state # "parses" /\ Truncated.state # "parses"
  BY DEF NoFile, Truncated
<1>2. DefaultText.providers = DefaultConfig
  BY ConfigAssumption DEF DefaultText, Text
<1>3. Listed(DefaultConfig) = DefaultConfig
  BY ConfigAssumption, ListedKeepsUsable
<1> QED BY <1>1, <1>2, <1>3, Zenon DEF Loaded

LEMMA TextsDiffer == NoFile \notin {Truncated, DefaultText}
<1>1. NoFile.state = "absent" /\ Truncated.state = "truncated" /\ DefaultText.state = "parses"
  BY ConfigAssumption DEF NoFile, Truncated, DefaultText, Text
<1> QED BY <1>1

\* Whatever is read, it is a configuration to look things up in.
LEMMA LoadedIsWellMade ==
  ASSUME NEW text \in {NoFile, Truncated, DefaultText} \cup {Text(c) : c \in UserConfigs}
  PROVE  Loaded(text) # <<>> /\ WellMade(Loaded(text))
<1>1. WellMade(DefaultConfig)
  BY ConfigAssumption, ListedIsWellMade, ListedKeepsUsable DEF Given
<1>2. CASE Loaded(text) = DefaultConfig
  BY <1>1, <1>2, ConfigAssumption
<1>3. CASE Loaded(text) # DefaultConfig
  <2>1. PICK c \in UserConfigs : text = Text(c)
    BY <1>3, LoadedDefaults, Zenon
  <2>2. text.state = "parses" /\ Loaded(text) = Listed(text.providers) /\ Loaded(text) # <<>>
    BY <1>3, Zenon DEF Loaded
  <2>3. c # Malformed /\ text.providers = c
    BY <2>1, <2>2 DEF Text
  <2>4. Given(c)
    BY <2>3, ConfigAssumption DEF Given
  <2> QED BY <2>2, <2>3, <2>4, ListedIsWellMade, Zenon
<1> QED BY <1>2, <1>3, Zenon

-----------------------------------------------------------------------------
(* It holds at first, and every step keeps it.                              *)

LEMMA InitIInv == Init => IInv
<1> SUFFICES ASSUME Init PROVE IInv
  OBVIOUS
<1>1. Typed
  BY DEF Init, Typed, Places
<1>2. FileInv
  BY DEF Init, FileInv
<1>3. \A q \in Processes : pc[q] = "look"
  BY DEF Init
<1> QED BY <1>1, <1>2, <1>3 DEF IInv, LoadedInv, SettledInv

\* Where the processes are after one of them has gone somewhere.
LEMMA Gone ==
  ASSUME Typed, NEW q \in Processes, NEW place \in Places, Goto(q, place)
  PROVE  /\ pc' \in [Processes -> Places]
         /\ pc'[q] = place
         /\ \A r \in Processes \ {q} : pc'[r] = pc[r]
BY DEF Typed, Goto

\* What is settled depends on nothing that changes but the environment.
LEMMA SettingsStay ==
  ASSUME NEW CONSTANT cfg, NEW CONSTANT inv, UNCHANGED env
  PROVE  SettingsOf(cfg, inv)' = SettingsOf(cfg, inv)
<1>1. ASSUME NEW CONSTANT url, NEW CONSTANT what
      PROVE  EnvironmentConfig(cfg, url, what)' = EnvironmentConfig(cfg, url, what)
  BY Zenon DEF EnvironmentConfig, FindAliasForUrl
<1>2. ASSUME NEW CONSTANT url
      PROVE  /\ ResolveApiKey(cfg, url)' = ResolveApiKey(cfg, url)
             /\ ResolveProxy(cfg, url)' = ResolveProxy(cfg, url)
             /\ DefaultModelForUrl(cfg, url)' = DefaultModelForUrl(cfg, url)
  BY <1>1, Zenon DEF ResolveApiKey, ResolveProxy, DefaultModelForUrl
<1>3. /\ ApiKey(cfg, inv)' = ApiKey(cfg, inv)
      /\ Proxy(cfg, inv)' = Proxy(cfg, inv)
      /\ Model(cfg, inv)' = Model(cfg, inv)
  BY <1>2, Zenon DEF ApiKey, Proxy, Model
<1>4. /\ TopicApiKey(cfg, inv)' = TopicApiKey(cfg, inv)
      /\ TopicModel(cfg, inv)' = TopicModel(cfg, inv)
  BY <1>2, <1>3, Zenon DEF TopicApiKey, TopicModel
<1>5. TopicRequest(cfg, inv)' = TopicRequest(cfg, inv)
  BY <1>3, <1>4, Zenon DEF TopicRequest
<1>6. /\ ChatSettings(cfg, inv)' = ChatSettings(cfg, inv)
      /\ ModelsSettings(cfg, inv)' = ModelsSettings(cfg, inv)
  BY <1>3, <1>5, Zenon DEF ChatSettings, ModelsSettings
<1> QED BY <1>6, Zenon DEF SettingsOf

\* A step of the file's: what is loaded and settled stays as it is, for
\* those who go on as well.
LEMMA FileStep ==
  ASSUME IInv, NEW q \in Processes, NEW place \in {"create", "write", "read", "crashed"},
         Goto(q, place), UNCHANGED <<env, invocation, config, settings, saved>>
  PROVE  Typed' /\ LoadedInv' /\ SettledInv'
<1>1. /\ pc' \in [Processes -> Places]
      /\ pc'[q] = place
      /\ \A r \in Processes \ {q} : pc'[r] = pc[r]
  BY Gone DEF IInv, Places
<1>2. \A r \in Processes : pc'[r] \in {"settle", "settled", "failed"} => pc[r] = pc'[r]
  BY <1>1
<1>3. Typed'
  BY <1>1 DEF IInv, Typed
<1>4. LoadedInv'
  BY <1>2, Zenon DEF IInv, LoadedInv, Loaded
<1>5. SettledInv'
  BY <1>2, SettingsStay, Zenon DEF IInv, SettledInv
<1> QED BY <1>3, <1>4, <1>5

LEMMA LookIInv == ASSUME IInv, NEW q \in Processes, Look(q) PROVE IInv'
<1>1. CASE file = NoFile
  <2>1. Goto(q, "create") /\ UNCHANGED <<file, env, invocation, config, settings, saved>>
    BY <1>1, Zenon DEF Look
  <2>2. NoFile \in saved
    BY <1>1, TextsDiffer, Zenon DEF IInv, FileInv
  <2>3. FileInv'
    BY <2>1, <2>2, Zenon DEF IInv, FileInv, DefaultText, Text, NoFile, Truncated
  <2> QED BY <2>1, <2>3, FileStep, Zenon DEF IInv
<1>2. CASE file # NoFile
  <2>1. Goto(q, "read") /\ UNCHANGED <<file, env, invocation, config, settings, saved>>
    BY <1>2, Zenon DEF Look
  <2>2. \A r \in Processes : pc'[r] \in {"create", "write"} => pc[r] = pc'[r]
    BY <2>1, Gone DEF IInv, Places
  <2>3. FileInv'
    BY <2>1, <2>2, Zenon DEF IInv, FileInv, DefaultText
  <2> QED BY <2>1, <2>3, FileStep, Zenon DEF IInv
<1> QED BY <1>1, <1>2, Zenon

\* The steps of a process that creates the file.
LEMMA CreationIInv ==
  ASSUME IInv, NEW q \in Processes, pc[q] \in {"create", "write"},
         NEW place \in {"write", "read"}, Goto(q, place),
         file' \in {file, Truncated, DefaultText},
         UNCHANGED <<env, invocation, config, settings, saved>>
  PROVE  IInv'
<1>1. NoFile \in saved
  BY Zenon DEF IInv, FileInv
<1>2. FileInv'
  BY <1>1, Zenon DEF IInv, FileInv, DefaultText
<1> QED BY <1>2, FileStep, Zenon DEF IInv

LEMMA ReadConfigIInv == ASSUME IInv, NEW q \in Processes, ReadConfig(q) PROVE IInv'
<1>1. /\ Goto(q, "settle") /\ config' = [config EXCEPT ![q] = Loaded(file)]
      /\ UNCHANGED <<file, env, invocation, settings, saved>>
  BY DEF ReadConfig
<1>2. /\ pc' \in [Processes -> Places]
      /\ pc'[q] = "settle"
      /\ \A r \in Processes \ {q} : pc'[r] = pc[r]
  BY <1>1, Gone DEF IInv, Places
<1>3. /\ DOMAIN config' = Processes
      /\ config'[q] = Loaded(file)
      /\ \A r \in Processes \ {q} : config'[r] = config[r]
  BY <1>1 DEF IInv, Typed
<1>4. Typed'
  BY <1>1, <1>2, <1>3 DEF IInv, Typed
<1>5. FileInv'
  <2>1. \A r \in Processes : pc'[r] \in {"create", "write"} => pc[r] = pc'[r]
    BY <1>2
  <2> QED BY <1>1, <2>1, Zenon DEF IInv, FileInv, DefaultText
<1>6. Loaded(file) \in {Loaded(text) : text \in saved}
  <2>1. CASE file \in saved
    BY <2>1
  <2>2. CASE file \notin saved
    <3>1. file \in {Truncated, DefaultText} /\ NoFile \in saved
      BY <2>2, Zenon DEF IInv, FileInv
    <3>2. Loaded(file) = Loaded(NoFile)
      BY <3>1, LoadedDefaults, Zenon
    <3> QED BY <3>1, <3>2
  <2> QED BY <2>1, <2>2
<1>7. LoadedInv'
  BY <1>1, <1>2, <1>3, <1>6, Zenon DEF IInv, LoadedInv
<1>8. SettledInv'
  <2>1. ASSUME NEW r \in Processes, pc'[r] = "settled"
        PROVE  settings'[r] = SettingsOf(config[r], invocation[r])'
    <3>1. pc[r] = "settled" /\ config'[r] = config[r]
      BY <1>2, <1>3, <2>1
    <3>2. settings[r] = SettingsOf(config[r], invocation[r])
      BY <3>1, Zenon DEF IInv, SettledInv
    <3> QED BY <1>1, <3>1, <3>2, SettingsStay, Zenon
  <2> QED BY <2>1, Zenon DEF SettledInv
<1> QED BY <1>4, <1>5, <1>7, <1>8, Zenon DEF IInv

\* A command that settles, or gives up.
LEMMA SettleIInv ==
  ASSUME IInv, NEW q \in Processes, pc[q] = "settle",
         \/ Goto(q, "failed") /\ UNCHANGED settings
         \/ /\ Goto(q, "settled")
            /\ settings' = [settings EXCEPT ![q] = SettingsOf(config[q], invocation[q])],
         UNCHANGED <<file, env, invocation, config, saved>>
  PROVE  IInv'
<1>1. PICK place \in {"failed", "settled"} : Goto(q, place)
  OBVIOUS
<1>2. /\ pc' \in [Processes -> Places]
      /\ pc'[q] = place
      /\ \A r \in Processes \ {q} : pc'[r] = pc[r]
  BY <1>1, Gone DEF IInv, Places
<1>3. /\ DOMAIN settings' = Processes
      /\ pc'[q] = "settled" => settings'[q] = SettingsOf(config[q], invocation[q])
      /\ \A r \in Processes \ {q} : settings'[r] = settings[r]
  <2>1. CASE Goto(q, "failed") /\ UNCHANGED settings
    BY <2>1, Gone DEF IInv, Typed, Places
  <2>2. CASE settings' = [settings EXCEPT ![q] = SettingsOf(config[q], invocation[q])]
    BY <2>2 DEF IInv, Typed
  <2> QED BY <2>1, <2>2
<1>4. Typed'
  BY <1>2, <1>3 DEF IInv, Typed
<1>5. FileInv'
  <2>1. \A r \in Processes : pc'[r] \in {"create", "write"} => pc[r] = pc'[r]
    BY <1>2
  <2> QED BY <2>1, Zenon DEF IInv, FileInv, DefaultText
<1>6. LoadedInv'
  <2>1. \A r \in Processes :
           pc'[r] \in {"settle", "settled", "failed"} => pc[r] \in {"settle", "settled", "failed"}
    BY <1>2
  <2> QED BY <2>1, Zenon DEF IInv, LoadedInv
<1>7. SettledInv'
  <2>1. ASSUME NEW r \in Processes, pc'[r] = "settled"
        PROVE  settings'[r] = SettingsOf(config[r], invocation[r])'
    <3>1. settings'[r] = SettingsOf(config[r], invocation[r])
      <4>1. CASE r = q
        BY <1>3, <2>1, <4>1, Zenon
      <4>2. CASE r # q
        <5>1. pc[r] = "settled" /\ settings'[r] = settings[r]
          BY <1>2, <1>3, <2>1, <4>2
        <5> QED BY <5>1, Zenon DEF IInv, SettledInv
      <4> QED BY <4>1, <4>2
    <3> QED BY <3>1, SettingsStay, Zenon
  <2> QED BY <2>1, Zenon DEF SettledInv
<1> QED BY <1>4, <1>5, <1>6, <1>7, Zenon DEF IInv

LEMMA UserSavesIInv == ASSUME IInv, NEW c \in UserConfigs, UserSaves(c) PROVE IInv'
<1>1. /\ file' = Text(c) /\ saved' = saved \cup {file'}
      /\ UNCHANGED <<env, pc, invocation, config, settings>>
  BY Zenon DEF UserSaves
<1>2. Typed'
  BY <1>1, Zenon DEF IInv, Typed
<1>3. FileInv'
  BY <1>1, Zenon DEF IInv, FileInv, DefaultText
<1>4. LoadedInv'
  BY <1>1, Zenon DEF IInv, LoadedInv
<1>5. SettledInv'
  BY <1>1, SettingsStay, Zenon DEF IInv, SettledInv
<1> QED BY <1>2, <1>3, <1>4, <1>5, Zenon DEF IInv

LEMMA StutterIInv == ASSUME IInv, UNCHANGED vars PROVE IInv'
<1>1. /\ UNCHANGED <<file, pc, invocation, config, settings, saved>>
      /\ UNCHANGED env
  BY DEF vars
<1>2. SettledInv'
  BY <1>1, SettingsStay, Zenon DEF IInv, SettledInv
<1> QED BY <1>1, <1>2, Zenon DEF IInv, Typed, FileInv, LoadedInv, DefaultText

LEMMA NextIInv == IInv /\ [Next]_vars => IInv'
<1> SUFFICES ASSUME IInv, [Next]_vars PROVE IInv'
  OBVIOUS
<1>1. ASSUME NEW q \in Processes, Step(q) PROVE IInv'
  <2>1. CASE Look(q)
    BY <2>1, LookIInv
  <2>2. CASE Create(q)
    BY <2>2, CreationIInv, Zenon DEF Create
  <2>3. CASE CreateFails(q)
    BY <2>3, CreationIInv, Zenon DEF CreateFails
  <2>4. CASE Write(q)
    BY <2>4, CreationIInv, Zenon DEF Write, DefaultText
  <2>5. CASE WriteFails(q)
    BY <2>5, CreationIInv, Zenon DEF WriteFails
  <2>6. CASE ReadConfig(q)
    BY <2>6, ReadConfigIInv
  <2>7. CASE SettleChat(q)
    <3>1. SettingsOf(config[q], invocation[q]) = ChatSettings(config[q], invocation[q])
      BY <2>7, Zenon DEF SettingsOf, SettleChat
    <3> QED BY <2>7, <3>1, SettleIInv, Zenon DEF SettleChat
  <2>8. CASE SettleModels(q)
    <3>1. invocation[q].command # "chat"
      BY <2>8 DEF SettleModels
    <3>2. SettingsOf(config[q], invocation[q]) = ModelsSettings(config[q], invocation[q])
      BY <3>1, Zenon DEF SettingsOf
    <3> QED BY <2>8, <3>2, SettleIInv, Zenon DEF SettleModels
  <2> QED BY <1>1, <2>1, <2>2, <2>3, <2>4, <2>5, <2>6, <2>7, <2>8, Zenon DEF Step
<1>2. ASSUME NEW q \in Processes, Crash(q) PROVE IInv'
  <2>1. Goto(q, "crashed") /\ UNCHANGED <<file, env, invocation, config, settings, saved>>
    BY <1>2, Zenon DEF Crash
  <2>2. \A r \in Processes : pc'[r] \in {"create", "write"} => pc[r] = pc'[r]
    BY <2>1, Gone DEF IInv, Places
  <2>3. FileInv'
    BY <2>1, <2>2, Zenon DEF IInv, FileInv, DefaultText
  <2> QED BY <2>1, <2>3, FileStep, Zenon DEF IInv
<1>3. ASSUME NEW c \in UserConfigs, UserSaves(c) PROVE IInv'
  BY <1>3, UserSavesIInv
<1>4. CASE UNCHANGED vars
  BY <1>4, StutterIInv
<1> QED BY <1>1, <1>2, <1>3, <1>4, Zenon DEF Next

LEMMA Invariance == Spec => []IInv
BY InitIInv, NextIInv, PTL DEF Spec

-----------------------------------------------------------------------------

(***************************************************************************)
(* However many processes start at once, crash or fail to write, and       *)
(* whatever the user saves meanwhile, each goes on with the configuration  *)
(* there was or with a whole one that was saved (load_config).             *)
(***************************************************************************)
THEOREM ConfigKept == Spec => []ConfigIsWhole
<1>1. IInv => ConfigIsWhole
  BY Zenon DEF IInv, LoadedInv, ConfigIsWhole
<1> QED BY <1>1, Invariance, PTL

LEMMA IInvWellMade ==
  ASSUME IInv, NEW q \in Processes, pc[q] \in {"settle", "settled", "failed"}
  PROVE  config[q] # <<>> /\ WellMade(config[q])
<1>1. PICK text \in saved : config[q] = Loaded(text)
  BY Zenon DEF IInv, LoadedInv
<1>2. text \in {NoFile, Truncated, DefaultText} \cup {Text(c) : c \in UserConfigs}
  BY Zenon DEF IInv, FileInv
<1> QED BY <1>1, <1>2, LoadedIsWellMade, Zenon

(***************************************************************************)
(* A key that is looked up goes to a provider of the request's URL, for    *)
(* every configuration, environment and command line (resolve_api_key,     *)
(* find_alias_for_url and generate_topic).                                 *)
(***************************************************************************)
THEOREM KeysSentHome == Spec => []KeysGoHome
<1>1. ASSUME IInv, NEW q \in Processes, pc[q] = "settled", DistinctAliases(config[q])
      PROVE  /\ invocation[q].key = "" =>
                  settings[q].key \in KeysOf(config[q], settings[q].url) \cup {""}
             /\ invocation[q].command = "chat" /\ invocation[q].topicKey = Unset =>
                  TopicKeyIsHome(config[q], settings[q].topic, settings[q].url, settings[q].key)
  <2> DEFINE cfg == config[q]
             inv == invocation[q]
             now == settings[q]
  <2>1. WellMade(cfg)
    BY <1>1, IInvWellMade
  <2>2. now = SettingsOf(cfg, inv)
    BY <1>1, Zenon DEF IInv, SettledInv
  <2>3. now.key = ApiKey(cfg, inv) /\ now.url = Url(cfg, inv)
    BY <2>2 DEF SettingsOf, ChatSettings, ModelsSettings
  <2>4. inv.command = "chat" => now.topic = TopicRequest(cfg, inv)
    BY <2>2 DEF SettingsOf, ChatSettings
  <2> HIDE DEF cfg, inv, now
  <2>5. inv.key = "" => now.key \in KeysOf(cfg, now.url) \cup {""}
    BY <1>1, <2>1, <2>3, ChatKeyIsOfUrl, Zenon DEF cfg
  <2>6. inv.command = "chat" /\ inv.topicKey = Unset =>
          TopicKeyIsHome(cfg, now.topic, now.url, now.key)
    BY <1>1, <2>1, <2>3, <2>4, TopicKeyIsOfUrl, Zenon DEF cfg
  <2> QED BY <2>5, <2>6, Zenon DEF cfg, inv, now
<1>2. IInv => KeysGoHome
  BY <1>1, Zenon DEF KeysGoHome, TopicKeyIsHome
<1> QED BY <1>2, Invariance, PTL

-----------------------------------------------------------------------------
(* The prompts.                                                             *)

Inputs(prompts) == {i \in DOMAIN prompts : prompts[i] = "stdin"}

LEMMA NoInput ==
  ASSUME NEW s, "stdin" \notin Range(s)
  PROVE  Cardinality(Inputs(s)) = 0
<1>1. Inputs(s) = {}
  BY Zenon DEF Inputs, Range
<1> QED BY <1>1, FS_EmptySet

LEMMA OneInput ==
  ASSUME NEW s, NEW k \in DOMAIN s, s[k] = "stdin",
         \A i \in DOMAIN s : i # k => s[i] # "stdin"
  PROVE  Cardinality(Inputs(s)) = 1
<1>1. Inputs(s) = {k}
  BY DEF Inputs
<1> QED BY <1>1, FS_Singleton

\* What is read becomes one prompt if there is anything to read and it is read.
LEMMA PromptsUseInput ==
  ASSUME NEW inv \in Invocations, inv.command = "chat"
  PROVE  Cardinality(Inputs(Prompts(inv))) =
           IF inv.stdin # "" /\ (~inv.atty \/ "-" \in Range(inv.prompts)) THEN 1 ELSE 0
<1> DEFINE given == inv.prompts
           dashes == {i \in DOMAIN given : given[i] = "-"}
           input == IF inv.stdin = "" THEN "" ELSE "stdin"
           replaced == IF dashes = {} THEN given ELSE [given EXCEPT ![First(dashes)] = input]
           left == IF dashes = {} THEN input ELSE ""
           read == IF ~inv.atty /\ left # "" THEN Append(replaced, left) ELSE replaced
<1>1. IsSequence(given) /\ "stdin" \notin Range(given) /\ inv.edited # "stdin"
  BY PromptsAssumption
<1>2. Len(given) \in Nat /\ DOMAIN given = 1..Len(given)
  BY <1>1 DEF IsSequence
<1>3. Prompts(inv) = IF read = <<>> /\ inv.atty /\ inv.foreground /\ inv.edited # ""
                     THEN <<inv.edited>> ELSE read
  BY Zenon DEF Prompts
<1>4. "-" \in Range(given) <=> dashes # {}
  BY DEF Range
<1>5. Cardinality(Inputs(<<inv.edited>>)) = 0
  <2>1. "stdin" \notin Range(<<inv.edited>>)
    BY <1>1 DEF Range
  <2> QED BY <2>1, NoInput
<1>6. \A i \in DOMAIN given : given[i] # "stdin"
  BY <1>1 DEF Range
<1>7. CASE dashes # {}
  <2> DEFINE f == First(dashes)
  <2>1. f \in dashes
    <3>1. dashes \in SUBSET Nat
      BY <1>2
    <3> QED BY <1>7, <3>1, FirstIsOne, Zenon
  <2>2. f \in DOMAIN given /\ given # <<>>
    BY <1>2, <2>1
  <2>3. read = [given EXCEPT ![f] = input]
    BY <1>7, Zenon
  <2> HIDE DEF f, read
  <2>4. /\ DOMAIN read = DOMAIN given /\ read[f] = input
        /\ \A i \in DOMAIN given : i # f => read[i] = given[i]
    BY <1>2, <2>2, <2>3
  <2>5. read # <<>>
    <3>1. read = <<>> => DOMAIN read = {}
      OBVIOUS
    <3> QED BY <2>2, <2>4, <3>1, Zenon
  <2>6. Prompts(inv) = read
    BY <1>3, <2>5, Zenon
  <2>7. CASE inv.stdin # ""
    <3>1. input = "stdin"
      BY <2>7
    <3>2. Cardinality(Inputs(read)) = 1
      BY <1>6, <2>2, <2>4, <3>1, OneInput, ZenonT(30)
    <3> QED BY <1>4, <1>7, <2>6, <2>7, <3>2, Zenon
  <2>8. CASE inv.stdin = ""
    <3>1. input # "stdin"
      BY <2>8
    <3>2. \A i \in DOMAIN read : read[i] # "stdin"
      BY <1>6, <2>4, <3>1, Zenon
    <3>3. "stdin" \notin Range(read)
      BY <3>2, Zenon DEF Range
    <3> QED BY <2>6, <2>8, <3>3, NoInput, Zenon
  <2> QED BY <2>7, <2>8, Zenon
<1>8. CASE dashes = {}
  <2>1. replaced = given /\ left = input
    BY <1>8, Zenon
  <2>2. CASE ~inv.atty /\ inv.stdin # ""
    <3>1. input = "stdin" /\ input # ""
      BY <2>2
    <3>2. read = Append(given, "stdin")
      BY <2>1, <2>2, <3>1, Zenon
    <3>3. given \in Seq(Range(given) \cup {"stdin"})
      BY <1>1 DEF IsSequence
    <3> DEFINE l == Len(given) + 1
    <3> HIDE DEF read
    <3>4. /\ DOMAIN read = 1..l /\ read[l] = "stdin" /\ l \in Nat
          /\ \A i \in 1..Len(given) : read[i] = given[i]
      BY <1>2, <3>2, <3>3
    <3>5. l \in DOMAIN read /\ \A i \in DOMAIN read : i # l => read[i] # "stdin"
      <4>1. ASSUME NEW i \in DOMAIN read, i # l PROVE read[i] # "stdin"
        <5>1. i \in 1..Len(given)
          BY <1>2, <3>4, <4>1
        <5> QED BY <1>2, <1>6, <3>4, <5>1, Zenon
      <4> QED BY <1>2, <3>4, <4>1
    <3>6. Cardinality(Inputs(read)) = 1
      BY <3>4, <3>5, OneInput, Zenon
    <3>7. Prompts(inv) = read
      BY <1>3, <2>2, Zenon
    <3> QED BY <2>2, <3>6, <3>7, Zenon
  <2>3. CASE ~(~inv.atty /\ inv.stdin # "")
    <3>1. read = given
      BY <2>1, <2>3, Zenon
    <3>2. Cardinality(Inputs(given)) = 0
      BY <1>1, NoInput
    <3>3. Cardinality(Inputs(Prompts(inv))) = 0
      BY <1>3, <1>5, <3>1, <3>2, Zenon
    <3> QED BY <1>4, <1>8, <2>3, <3>3, Zenon
  <2> QED BY <2>2, <2>3, Zenon
<1> QED BY <1>7, <1>8, Zenon

\* A command line stays what it is, and a chat that has settled lacks nothing.
Complete ==
  /\ invocation \in [Processes -> Invocations]
  /\ \A q \in Processes : pc[q] = "settled" /\ invocation[q].command = "chat" =>
       settings[q].model # "" /\ settings[q].prompts # <<>>

LEMMA CompleteStep ==
  ASSUME IInv, Complete, [Next]_vars
  PROVE  Complete'
<1>0. pc \in [Processes -> Places] /\ DOMAIN settings = Processes
  BY DEF IInv, Typed
<1>1. ASSUME UNCHANGED <<invocation, settings>>,
             \A q \in Processes : pc'[q] = "settled" => pc[q] = "settled"
      PROVE  Complete'
  BY <1>1, Zenon DEF Complete
<1>2. ASSUME NEW q \in Processes, NEW place \in Places \ {"settled"}, Goto(q, place),
             UNCHANGED <<invocation, settings>>
      PROVE  Complete'
  BY <1>0, <1>1, <1>2 DEF Goto
<1>3. ASSUME NEW q \in Processes, Look(q) \/ Create(q) \/ CreateFails(q) \/ Write(q)
                                  \/ WriteFails(q) \/ ReadConfig(q) \/ Crash(q)
      PROVE  Complete'
  <2>1. /\ \E place \in Places \ {"settled"} : Goto(q, place)
        /\ UNCHANGED <<invocation, settings>>
    BY <1>3 DEF Look, Create, CreateFails, Write, WriteFails, ReadConfig, Crash, Places
  <2> QED BY <1>2, <2>1
<1>4. ASSUME NEW q \in Processes, SettleChat(q) \/ SettleModels(q)
      PROVE  Complete'
  <2>1. CASE Goto(q, "failed") /\ UNCHANGED settings
    BY <1>2, <1>4, <2>1 DEF SettleChat, SettleModels, Places
  <2>2. CASE /\ invocation[q].command = "chat" /\ ~Incomplete(config[q], invocation[q])
             /\ Goto(q, "settled") /\ invocation' = invocation
             /\ settings' = [settings EXCEPT ![q] = ChatSettings(config[q], invocation[q])]
    <3>1. settings'[q].model # "" /\ settings'[q].prompts # <<>>
      <4>1. settings'[q] = ChatSettings(config[q], invocation[q])
        BY <1>0, <2>2
      <4>2. /\ settings'[q].model = Model(config[q], invocation[q])
            /\ settings'[q].prompts = Prompts(invocation[q])
        BY <4>1 DEF ChatSettings
      <4> QED BY <2>2, <4>2, Zenon DEF Incomplete
    <3>2. \A r \in Processes \ {q} : pc'[r] = pc[r] /\ settings'[r] = settings[r]
      BY <1>0, <2>2 DEF Goto
    <3> QED BY <2>2, <3>1, <3>2 DEF Complete
  <2>3. CASE /\ invocation[q].command # "chat" /\ Goto(q, "settled")
             /\ invocation' = invocation
             /\ settings' = [settings EXCEPT ![q] = ModelsSettings(config[q], invocation[q])]
    <3>1. \A r \in Processes \ {q} : pc'[r] = pc[r] /\ settings'[r] = settings[r]
      BY <1>0, <2>3 DEF Goto
    <3> QED BY <2>3, <3>1 DEF Complete
  <2> QED
    <3>1. CASE SettleChat(q)
      BY <2>1, <2>2, <3>1, Zenon DEF SettleChat
    <3>2. CASE SettleModels(q)
      <4>1. invocation[q].command # "chat"
        BY <3>2 DEF SettleModels
      <4> QED BY <2>1, <2>3, <3>2, <4>1, Zenon DEF SettleModels
    <3> QED BY <1>4, <3>1, <3>2
<1>5. ASSUME NEW c \in UserConfigs, UserSaves(c) PROVE Complete'
  BY <1>1, <1>5 DEF UserSaves
<1>6. CASE UNCHANGED vars
  BY <1>1, <1>6 DEF vars
<1> QED BY <1>3, <1>4, <1>5, <1>6, Zenon DEF Next, Step

(***************************************************************************)
(* Whatever is piped in and whatever prompts are given, the input becomes  *)
(* one prompt of the chat or, where nobody reads it, none; and a chat has  *)
(* a model and a prompt (bind_chat_args).                                  *)
(***************************************************************************)
THEOREM InputIsOnePrompt == Spec => []InputIsUsedOnce
<1>1. Init => Complete
  BY DEF Init, Complete
<1>2. IInv /\ Complete /\ [Next]_vars => Complete'
  BY CompleteStep
<1>3. ASSUME IInv, Complete, NEW q \in Processes, pc[q] = "settled",
             invocation[q].command = "chat"
      PROVE  /\ settings[q].model # "" /\ settings[q].prompts # <<>>
             /\ Cardinality(Inputs(settings[q].prompts)) =
                  IF invocation[q].stdin # ""
                     /\ (~invocation[q].atty \/ "-" \in Range(invocation[q].prompts))
                  THEN 1 ELSE 0
  <2>1. settings[q] = ChatSettings(config[q], invocation[q])
    BY <1>3, Zenon DEF IInv, SettledInv, SettingsOf
  <2>2. settings[q].prompts = Prompts(invocation[q])
    BY <2>1 DEF ChatSettings
  <2>3. invocation[q] \in Invocations
    BY <1>3 DEF Complete
  <2> QED BY <1>3, <2>2, <2>3, PromptsUseInput, Zenon DEF Complete
<1>4. IInv /\ Complete => InputIsUsedOnce
  BY <1>3, Zenon DEF InputIsUsedOnce, Inputs
<1> QED BY <1>1, <1>2, <1>4, Invariance, PTL DEF Spec

(***************************************************************************)
(* Every place and every state of the file is one of those named, and a    *)
(* process never goes on without a provider (args.cc takes the first one). *)
(***************************************************************************)
THEOREM TypeCorrect == Spec => []TypeOK
<1>1. ASSUME IInv PROVE file.state \in {"absent", "truncated", "malformed", "parses"}
  <2>1. file \in {NoFile, Truncated, DefaultText} \cup {Text(c) : c \in UserConfigs}
    BY <1>1, Zenon DEF IInv, FileInv
  <2> QED BY <2>1 DEF NoFile, Truncated, DefaultText, Text
<1>2. IInv => TypeOK
  BY <1>1, IInvWellMade, Zenon DEF TypeOK, IInv, Typed, Places
<1> QED BY <1>2, Invariance, PTL
=============================================================================
