----------------------------- MODULE MCSubAgent -----------------------------
(* Two small systems checked together.  selection: one request, any snapshot and  *)
(* answer of a model.  strays: two requests meet at one agent, with one choice.   *)
EXTENDS SubAgent

CONSTANTS n1, n2, r1, r2

VARIABLE scenario

\* A board as RK3588, one as ATLAS; Bert and deeplabv3 have no image for the former.
Catalog == [n \in Node |-> IF n = n1 THEN ImageTask ELSE Task]

Times == [n \in Node |-> [t \in Task |->
    CASE t = "YoloV5" -> IF n = n1 THEN 43 ELSE 32
      [] t = "MobileNet" -> IF n = n1 THEN 14 ELSE 16
      [] t = "ResNet50" -> IF n = n1 THEN 32 ELSE 23
      [] t = "Bert" -> 55
      [] t = "deeplabv3" -> 283]]

Limits == [s \in Server |-> CASE s \in {"image", "imageAscend"} -> 1
                              [] s = "text" -> 2
                              [] s \in {"board", "segmentation"} -> 3]

Fields(p) == <<p[1], p[2]>>
Object(p) == <<"{">> \o Fields(p) \o <<"}">>
\* The reason is "\"}", then "{".
Reasoned(p) == <<"{", "quote", "backslash", "quote", "}", "quote", "quote", "{", "quote">> \o Fields(p) \o <<"}">>
Nested(p) == <<"{", "{", "}">> \o Fields(p) \o <<"}">>
Lines(p) == <<"{", "newline">> \o Fields(p) \o <<"newline", "}">>
Bare == <<"{", "}">>
List(p) == <<"[">> \o Object(p) \o <<"]">>

\* Two pairs the image agents may be offered, and one of each other agent.
NamedPairs == {<<"MobileNet", n1>>, <<"YoloV5", n2>>, <<"Bert", n2>>, <<"deeplabv3", n2>>}

Documents(p) == {Object(p), Reasoned(p), Nested(p), Lines(p)}

AllDocuments == {Bare} \union UNION {Documents(p) \union {List(p)} : p \in NamedPairs}

Meanings == [t \in AllDocuments |->
    IF t = Bare THEN Unnamed
    ELSE IF Head(t) = "[" THEN NoObject
    ELSE CHOOSE p \in NamedPairs : t \in Documents(p)]

Prose(t)    == <<"prose">> \o t \o <<"newline", "prose", "}">>
Fenced(t)   == <<"fence", "newline">> \o t \o <<"newline", "fence">>
Unclosed(t) == <<"fence", "newline">> \o t
Inline(t)   == <<"newline", "fence">> \o t \o <<"fence">>

Named(p) == UNION {{d, Prose(d), Fenced(d), Unclosed(d), Inline(d)} : d \in Documents(p)}

Texts == Named(<<"MobileNet", n1>>) \union {Prose(Reasoned(p)) : p \in NamedPairs}
            \union {List(<<"MobileNet", n1>>), <<"prose">>, Bare, Bare \o Object(<<"MobileNet", n1>>),
                    <<"{", "quote", "}">>}

Still(r) == at'[home[r]][r] = at[home[r]][r]

ScenarioInit ==
    /\ Init
    /\ scenario \in {"selection", "strays"}
    /\ scenario = "strays" => home[r1] = home[r2] /\ \A r \in Request : wants[r] = {}
    /\ scenario = "selection" => home[r2] = "text" /\ wants[r2] = {}

InScenario ==
    /\ scenario = "selection" => Still(r2)
    /\ scenario = "strays" => \A r \in Request :
        /\ pc[r] = "plan" /\ pc'[r] # "plan" => load'[r] \in {<<>>, n2 :> 0}
        /\ pc[r] = "ask" /\ pc'[r] = "choose" => said'[r] \in {<<>>, <<"prose">>}

ScenarioSpec == ScenarioInit /\ [][Next /\ InScenario /\ UNCHANGED scenario]_<<vars, scenario>>

FairScenarioSpec == ScenarioSpec /\ Fairness

=============================================================================
