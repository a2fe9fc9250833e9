------------------------ MODULE MCDsMgrResolution ------------------------
(* Small platforms and displays for DsMgrResolution. *)
EXTENDS DsMgrResolution

Platform ==
    {Res("2160p", "60"), Res("1080p", "60"), Res("1080p", "50"), Res("1080i", "25"),
     Res("720p", ""), Res("576p", ""), Res("480p", "")}
Default720p == Res("720p", "")

Display(list, sum) == [edid |-> list, hdmiDeviceType |-> TRUE, checksum |-> sum]

(* Every list of at most three of the platform's resolutions and two others. *)
Listed == Platform \cup {Res("1080p", "24"), Res("720p", "50")}
AllDisplays == {Display(list, 1) : list \in SeqOf(Listed, 3)}

(* Four displays to exchange: a full one, one without 1080p60, one that is in
   low power mode and a DVI one. *)
FewDisplays ==
    {Display(<<Res("480p", ""), Res("720p", ""), Res("1080p", "60")>>, 1),
     Display(<<Res("720p", ""), Res("480p", "")>>, 2),
     Display(<<>>, 3),
     [edid |-> <<Res("720p", "")>>, hdmiDeviceType |-> FALSE, checksum |-> 4]}

(* One display that shows nothing the fallback looks for. *)
OddDisplays == {Display(<<Res("1080p", "60"), Res("1080p", "24")>>, 1)}
==========================================================================
