----------------------------- MODULE MCStatusRow -----------------------------
(* Small payloads for TLC: two models whose names differ in case only, one  *)
(* that leaves nothing when sanitized, percentages in and out of range.     *)
EXTENDS StatusRow

sanitizes ==
    [model |-> "model", opus |-> "opus", sonnet |-> "sonnet", Opus |-> "opus",
     Sonnet |-> "sonnet", signs |-> "", codex |-> "codex", spark |-> "spark",
     Spark |-> "spark"]

none  == <<>>

(* Claude *)
limit(kind, percent, display) ==
    [kind |-> kind, utilization |-> none, percent |-> percent, model |-> none,
     display |-> display]
sessionLimit == limit("session", <<20>>, none)
weeklyLimit  == [limit("weekly_all", none, none) EXCEPT !.utilization = <<120>>]
legacyLimit  == limit("five_hour", <<30>>, none)
opusLimit    == limit("weekly_scoped", <<40>>, <<"Opus">>)
namelessLimit == limit("weekly_scoped", <<60>>, none)
Limits ==
    {sessionLimit, weeklyLimit, legacyLimit, opusLimit, namelessLimit,
     [opusLimit EXCEPT !.model = <<"Sonnet">>],           \* id and display name differ
     limit("weekly_scoped", <<50>>, <<"">>),              \* an empty label
     limit("weekly_scoped", none, <<"Opus">>)}            \* no percentage
LimitLists ==
    {<<>>} \cup {<<l>> : l \in Limits} \cup {<<l, m>> : l, m \in Limits}
      \cup {<<sessionLimit, opusLimit, weeklyLimit>>,
            [i \in 1..3 |-> limit("weekly_scoped", <<30 * i>>, <<"Opus">>)],
            <<namelessLimit, limit("weekly_scoped", <<50>>, <<"Sonnet">>), opusLimit>>,
            <<sessionLimit, opusLimit, namelessLimit>>,
            <<opusLimit, sessionLimit, namelessLimit>>}

claudeDoc(fiveHour, sevenDay, apps, limits, opus) ==
    [five_hour |-> fiveHour, seven_day |-> sevenDay, seven_day_oauth_apps |-> apps,
     limits |-> limits, seven_day_opus |-> opus, seven_day_sonnet |-> none,
     plan |-> <<"pro">>, account |-> <<"me">>]
ClaudePayloads ==
    {claudeDoc(none, none, none, limits, opus) : limits \in LimitLists, opus \in {none, <<80>>}}
      \cup {claudeDoc(<<0>>, <<10>>, apps, limits, none) :
               apps \in {none, <<70>>}, limits \in LimitLists}

(* Codex *)
bucket(id, primary, secondary) ==
    [limit_id |-> id, primary |-> primary, secondary |-> secondary,
     individual |-> IF id = none THEN none ELSE <<25>>]
raw(used, minutes) == <<[used |-> used, minutes |-> minutes]>>
Primaries   == {none, raw(10, none), raw(10, <<10080>>)}
Secondaries == {none, raw(90, none)}
Roots == {none} \cup {<<bucket(id, primary, secondary)>> : id \in {none, <<"spark">>},
                        primary \in Primaries, secondary \in Secondaries}
entry(key, primary, secondary) == [key |-> key, bucket |-> bucket(none, primary, secondary)]
ByIds ==
    {<<>>, <<entry("Spark", raw(5, <<60>>), none), entry("spark", raw(6, none), raw(7, none))>>}
      \cup {<<entry("codex", primary, secondary), entry("spark", raw(6, <<60>>), none)>> :
               primary \in Primaries, secondary \in Secondaries}
Log(primary, secondary) ==
    [from |-> "log", doc |-> [primary |-> primary, secondary |-> secondary,
        individual |-> none, extra |-> <<>>, plan |-> none, resets |-> none]]
CodexPayloads ==
    {[from |-> "server", read |-> [root |-> root, byId |-> byId, accountPlan |-> none,
        plan |-> <<"pro">>, resets |-> resets]] :
           root \in Roots, byId \in ByIds, resets \in {none, <<2>>}}
      \cup {Log(primary, secondary) :
               primary \in Primaries \cup {raw(10, <<0>>), raw(10, <<60>>)},
               secondary \in Secondaries \cup {raw(9, <<60>>), raw(9, <<300>>)}}

(* Amp and Grok *)
AmpPayloads ==
    {[freePercent |-> percent, dollars |-> dollars, subscription |-> subscription,
      account |-> <<"me">>] :
        percent \in {none, <<30>>, <<120>>},
        dollars \in {none, <<[remaining |-> 5, total |-> 10]>>, <<[remaining |-> 5, total |-> 0]>>},
        subscription \in {none, <<[name |-> "plus", other |-> <<130>>, orb |-> none]>>,
                          <<[name |-> "plus", other |-> <<10>>, orb |-> <<0>>]>>}}
GrokPayloads ==
    {[creditUsagePercent |-> percent, period |-> period, plan |-> plan, account |-> none] :
        percent \in {none, <<-5>>, <<50>>, <<150>>},
        period \in {none, <<"weekly">>, <<"monthly">>, <<"foreign">>}, plan \in {none, <<"pro">>}}

Payloads == [claude |-> ClaudePayloads, codex |-> CodexPayloads,
             amp |-> AmpPayloads, grok |-> GrokPayloads]
=============================================================================
