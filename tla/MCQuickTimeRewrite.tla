-------------------------- MODULE MCQuickTimeRewrite --------------------------
\* Small files for QuickTimeRewrite: one per layout that the repair tells apart.
EXTENDS QuickTimeRewrite

\* The atoms <<type, id, header, size>> one after the other.
Layout(specs) ==
  LET start[i \in 1..(Len(specs) + 1)] ==
        IF i = 1 THEN 0
        ELSE start[i - 1] + specs[i - 1][4] + (IF specs[i - 1][3] = "extended" THEN 16 ELSE 8)
  IN [i \in DOMAIN specs |->
        [type |-> specs[i][1], id |-> specs[i][2], header |-> specs[i][3],
         at |-> start[i], size |-> specs[i][4]]]

Sample(kind, entries) == [kind |-> kind, supported |-> TRUE, valid |-> TRUE, entries |-> entries]
With(specs, tables, foreign) == [atoms |-> Layout(specs), tables |-> tables, foreign |-> foreign]

\* The movie before its media, which starts at 36 and at 50.
FastStart == <<<<"other", 0, "short", 0>>, <<"moov", 0, "short", 12>>,
               <<"mdat", 1, "short", 6>>, <<"mdat", 2, "short", 4>>>>
FastStartFile == With(FastStart, <<Sample("stco", <<36, 41, 50>>), Sample("co64", <<53>>)>>, FALSE)

\* Media with a 64-bit size at 26, and more at 38, before the movie.
Extended == <<<<"xmp", 0, "short", 2>>, <<"mdat", 1, "extended", 4>>, <<"mdat", 2, "short", 3>>,
              <<"meco", 0, "short", 4>>, <<"moov", 0, "short", 12>>>>
ExtendedFile == With(Extended, <<Sample("co64", <<26, 29, 39>>)>>, FALSE)

\* Media near the end of what stco reaches, and the same with co64.
Far(kind) == With(<<<<"moov", 0, "short", 12>>, <<"other", 0, "short", 28>>,
                    <<"mdat", 1, "short", 4>>>>, <<Sample(kind, <<64, 67>>)>>, FALSE)

OpenEnded == With(<<<<"moov", 0, "short", 12>>, <<"mdat", 1, "open", 4>>>>,
                  <<Sample("stco", <<28>>)>>, FALSE)
Outside == With(FastStart, <<Sample("stco", <<36, 47>>)>>, FALSE)
Invalid == With(FastStart, <<[Sample("stco", <<>>) EXCEPT !.valid = FALSE]>>, FALSE)
Elsewhere == With(FastStart, <<[Sample("stco", <<36>>) EXCEPT !.supported = FALSE]>>, FALSE)
Fragmented == With(FastStart, <<Sample("stco", <<36>>)>>, TRUE)
Items == With(FastStart, <<>>, TRUE)
NoMovie == With(<<<<"mdat", 1, "short", 6>>, <<"xmp", 0, "short", 2>>>>, <<>>, FALSE)
NoMedia == With(<<<<"moov", 0, "short", 12>>, <<"xmp", 0, "short", 2>>>>,
                <<Sample("stco", <<0>>)>>, FALSE)

FastStartFiles == {FastStartFile}
AllFiles == {FastStartFile, ExtendedFile, Far("stco"), Far("co64"), OpenEnded, Outside, Invalid,
             Elsewhere, Fragmented, Items, NoMovie, NoMedia}

Broad(xmp) == [broad |-> TRUE, xmp |-> xmp]
Narrow(xmp) == [broad |-> FALSE, xmp |-> xmp]
ExecutorPlans == {[route |-> "executor", steps |-> <<Narrow("keep")>>]}
FanoutPlans == {[route |-> "fanout", steps |-> <<s>>] :
                  s \in {Broad(x) : x \in {"keep", "delete", "set"}} \cup {Narrow("set")}}
SetupPlans == {[route |-> "setup", steps |-> <<r, s>>] :
                 r, s \in {Broad("keep"), Narrow("keep")}}
AllPlans == ExecutorPlans \cup FanoutPlans \cup SetupPlans
QtGrowths == {-12, 0, 5}
=============================================================================
