------------------------------- MODULE MCScan -------------------------------
(***************************************************************************)
(* Two processes, of which one refuses to be opened when it runs `service`,  *)
(* a window either may own, a capture session, a render session and the      *)
(* system sounds, and five contents a file may have.                         *)
(***************************************************************************)
EXTENDS ScanProperties, TLC

CONSTANTS agent, tool, service, w1, mic, loop, chime

MCPid     == {1, 2}
MCTitles  == [w \in {w1} |-> ""]
MCDevices == [s \in {mic, loop, chime} |-> IF s = loop THEN "d2" ELSE "d1"]
MCFlows   == [s \in {mic, loop, chime} |-> IF s = loop THEN "render" ELSE "capture"]

Signer    == [leaf |-> "vendor", root |-> TRUE, stamped |-> TRUE]
Content(id, status, signer, catalog) ==
    [id |-> id, opens |-> TRUE, admin |-> TRUE, reads |-> TRUE,
     status |-> status, signer |-> signer, catalog |-> catalog]
Signed    == Content("signed", "trusted", Signer, None)
Plain     == Content("plain", "no_signature", None, None)
Cataloged == Content("cataloged", "no_signature", None, Content("cat", "trusted", Signer, None))
Locked    == [Plain EXCEPT !.id = "locked", !.opens = FALSE]
Tampered  == [Content("tampered", "other", Signer, None) EXCEPT !.admin = FALSE]

MCFiles == {Signed, Plain, Cataloged, Locked, Tampered}

Desktop(image2, file2, w, use) ==
    [running  |-> (1 :> agent @@ 2 :> image2),
     files    |-> (agent :> Signed @@ tool :> file2 @@ service :> Cataloged),
     windows  |-> (w1 :> w),
     sessions |-> (mic :> use @@ loop :> [pid |-> 1, state |-> "active"]
                  @@ chime :> [pid |-> 0, state |-> "active"])]

Excluded == [pid |-> 2, visible |-> FALSE, affinity |-> "WDA_EXCLUDEFROMCAPTURE"]

MCDesktops ==
    {Desktop(tool, Plain, Excluded, [pid |-> 2, state |-> "inactive"]),
     Desktop(service, Signed, None, [pid |-> 2, state |-> "inactive"])}
=============================================================================
