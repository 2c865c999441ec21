----------------------------- MODULE MCServices -----------------------------
(***************************************************************************)
(* Parts of the adapter that do not meet, explored one at a time: a        *)
(* behaviour chooses one of them and is a behaviour of that one.           *)
(***************************************************************************)
EXTENDS PickerHaptic, WebQuestions, WebDownload, UdmfClient, AceVideo, TLC

CONSTANTS NoManager, Missing, NoColor

VARIABLES
  part,
  container, cache, tasks, workers, changes, racing

resources == <<container, cache, tasks, workers, changes, racing>>
vars == <<part, resources, downloadVars, questionVars, hapticVars, udmfVars, videoVars>>

Resource(id, type, name, content) == [id |-> id, kind |-> type, name |-> name, content |-> content]

\* One of every kind, a text that has its name with a text of the library, a dimension in
\* every unit but one; of the application, of a library module, and of the system.
MCIndexes ==
  "app" :> {Resource(1, "color", <<"line">>, ""), Resource(2, "string", <<"title">>, ""),
            Resource(3, "plural", <<"items">>, ""), Resource(4, "strarray", <<"days">>, ""),
            Resource(5, "float", <<"width">>, "fp"), Resource(6, "float", <<"height">>, "%"),
            Resource(7, "integer", <<"columns">>, ""), Resource(8, "boolean", <<"wide">>, ""),
            Resource(9, "intarray", <<"none">>, <<>>), Resource(10, "intarray", <<"steps">>, <<1>>),
            Resource(11, "media", <<"logo">>, ""), Resource(12, "symbol", <<"heart">>, ""),
            Resource(13, "color", <<"title">>, "")}
  @@ "library" :> {Resource(2, "string", <<"title">>, ""), Resource(21, "color", <<"title">>, "")}
  @@ "systemres" :> {Resource(31, "color", <<"accent">>, ""), Resource(32, "float", <<"gap">>, "vp")}

Resources == INSTANCE ContainerResources WITH
  Indexes <- MCIndexes, Modules <- {"library", "feature"}, Own <- "entry", Default <- "none",
  Workers <- {"w"}, ColorModes <- {"dark", "light"}, MaxChanges <- 1,
  Patterns <- {"button"}, TextAttributes <- {"ok"}, Background <- "bg_color",
  ThemeIds <- {"own"}, Ohos <- "ohos"

\* Two questions about certificates, one of them of the main frame, and one of any other kind.
MCKinds == {"page" :> k @@ "frame" :> "main" @@ "image" :> "ssl" :
              k \in {"alert", "confirm", "prompt", "permission", "auth"}}

MCHost == "frame" :> "site" @@ "image" :> "site"

ASSUME ServicesAssumption == Resources!ContainerAssumption /\ Resources!ResourceAssumption

ServicesInit ==
  /\ part \in {"resources", "downloads", "questions", "windows", "haptic", "udmf", "video"}
  /\ Resources!Init /\ DownloadInit /\ QuestionInit /\ HapticInit /\ UdmfInit /\ VideoInit
  /\ part # "questions" => kind["page"] = "auth"
  /\ part # "resources" => container.config.colorMode = "light"

\* A step of one part leaves the others alone.
OfDownloads == part = "downloads" /\ UNCHANGED <<part, resources, questionVars, hapticVars, udmfVars, videoVars>>
OfHaptic == part = "haptic" /\ UNCHANGED <<part, resources, downloadVars, questionVars, udmfVars, videoVars>>
OfVideo == part = "video" /\ UNCHANGED <<part, resources, downloadVars, questionVars, hapticVars, udmfVars>>

ServicesNext ==
  \/ OfDownloads /\ DownloadNext
  \/ OfHaptic /\ HapticNext
  \/ OfVideo /\ VideoNext
  \/ /\ part = "resources" /\ Resources!Next
     /\ UNCHANGED <<part, downloadVars, questionVars, hapticVars, udmfVars, videoVars>>
  \/ /\ part = "questions" /\ QuestionNext
     /\ UNCHANGED <<part, resources, downloadVars, hapticVars, udmfVars, videoVars>>
  \/ /\ part = "windows" /\ WindowNext
     /\ UNCHANGED <<part, resources, downloadVars, hapticVars, udmfVars, videoVars>>
  \/ /\ part = "udmf" /\ UdmfNext
     /\ UNCHANGED <<part, resources, downloadVars, questionVars, hapticVars, videoVars>>

\* The fairness of the parts, of which only the one that was chosen takes steps.
PartFairness ==
  /\ WF_vars(\/ OfHaptic /\ ThreadLoop
             \/ OfDownloads /\ RunPosted
             \/ OfVideo /\ SeekDone)
  /\ WF_vars(\/ OfHaptic /\ CallGoesOn
             \/ OfDownloads /\ SessionEnds)

ServicesSpec == ServicesInit /\ [][ServicesNext]_vars /\ PartFairness

-----------------------------------------------------------------------------
\* No adapter outlives its container, and by name and by identifier an adapter finds the
\* same (ContainerResources); what a summary of dragged data tells is what is there
\* (UdmfClient).
AdaptersReleased ==
  /\ part = "resources" => /\ Resources!AdaptersReleased /\ Resources!AdaptersKnown
                           /\ \A module \in DOMAIN cache : Resources!LookupsAgree(cache[module])
  /\ part = "udmf" => SummaryTellsRecords

\* The ends of downloads are told (WebDownload); the picker's threads are released and
\* heard from at rest (PickerHaptic); a start that nothing revokes makes a video play
\* (AceVideo).
TakesEffect ==
  /\ (ReleaseDue \/ EndDue \/ StartDue)
       ~> CASE part = "haptic" -> ui = "destroyed" [] part = "downloads" -> EndsTold
            [] part = "video" -> video.rate \/ ~StartDue [] OTHER -> TRUE
  /\ HeardFromRest
=============================================================================
