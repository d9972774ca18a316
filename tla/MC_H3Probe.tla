----------------------------- MODULE MC_H3Probe -----------------------------
(* Instances of H3Probe for TLC.                                           *)
EXTENDS H3Probe

AllStatuses == {103, 200, 404}

Scripts == {<<>>,
            <<Headers(200), Plain("data"), Plain("fin")>>,
            <<Headers(200), Plain("reset")>>,
            <<Headers(404), Plain("fin")>>,
            <<Headers(200), Headers(0), Plain("fin")>>,
            <<Headers(0), Plain("fin")>>,
            <<Plain("goaway"), Headers(200), Plain("fin")>>,
            <<Headers(103), Headers(200), Plain("fin")>>,
            <<Headers(103), Headers(404), Plain("fin")>>}
AllServers == [genuine: BOOLEAN, script: Scripts]

AllCas == {{}, {"bundle"}, {"system"}, {"conscrypt"}}
=============================================================================
