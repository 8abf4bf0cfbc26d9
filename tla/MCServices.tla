------------------------------ MODULE MCServices ------------------------------
(* The jobs around the scanner and its data, which share nothing: `which` says   *)
(* whose behaviour this is, and the others keep their initial state.             *)
(* QuestScan: plateau windows in the order of the code's (2 quiet ticks, 10 and  *)
(* 30 flat ones). ScheduledPosts: days of two seconds, the second past nine.     *)
EXTENDS QuestScan, DeviceWatch, StatusChannel, PhoneCommands, ScheduledPosts,
        QuestAnswers, QuestExport, Catalogue

VARIABLE which

servicesVars ==
    <<which, vars, deviceVars, channelVars, phoneVars, postVars, answerVars,
      exportVars, catalogueVars>>

\* A component whose initial state is not unique has one of them where it rests.
ServicesInit ==
    /\ which \in {"scan", "device", "channel", "phone", "posts", "answers",
                  "export", "catalogue"}
    /\ Init /\ DeviceInit /\ ChannelInit /\ PhoneInit /\ PostInit
    /\ AnswersInit /\ ExportInit /\ CatalogueInit
    /\ which # "scan" => alive /\ ~scanned /\ expected = Zero
    /\ which # "phone" => session = "device"
    /\ which # "posts" => job = "errors" /\ saved = DayBefore /\ recipient
    /\ which # "catalogue" => masterfile = NotLoaded

ServicesNext ==
    \/ /\ which = "scan" /\ Next
       /\ UNCHANGED <<which, deviceVars, channelVars, phoneVars, postVars,
                      answerVars, exportVars, catalogueVars>>
    \/ /\ which = "device" /\ DeviceNext
       /\ UNCHANGED <<which, vars, channelVars, phoneVars, postVars,
                      answerVars, exportVars, catalogueVars>>
    \/ /\ which = "channel" /\ ChannelNext
       /\ UNCHANGED <<which, vars, deviceVars, phoneVars, postVars,
                      answerVars, exportVars, catalogueVars>>
    \/ /\ which = "phone" /\ PhoneNext
       /\ UNCHANGED <<which, vars, deviceVars, channelVars, postVars,
                      answerVars, exportVars, catalogueVars>>
    \/ /\ which = "posts" /\ PostNext
       /\ UNCHANGED <<which, vars, deviceVars, channelVars, phoneVars,
                      answerVars, exportVars, catalogueVars>>
    \/ /\ which = "answers" /\ AnswersNext
       /\ UNCHANGED <<which, vars, deviceVars, channelVars, phoneVars,
                      postVars, exportVars, catalogueVars>>
    \/ /\ which = "export" /\ ExportNext
       /\ UNCHANGED <<which, vars, deviceVars, channelVars, phoneVars,
                      postVars, answerVars, catalogueVars>>
    \/ /\ which = "catalogue" /\ CatalogueNext
       /\ UNCHANGED <<which, vars, deviceVars, channelVars, phoneVars,
                      postVars, answerVars, exportVars>>

\* The fairness of each component's own specification.
ServicesFairSpec ==
    /\ ServicesInit /\ [][ServicesNext]_servicesVars
    /\ WF_vars(which = "scan" /\ Steps)
    /\ \A a \in Areas : WF_vars(which = "scan" /\ Drain(a))
    /\ WF_catalogueVars(which = "catalogue" /\ TickStep)

\* Every variable of the components keeps its type.
ServicesTypeOK ==
    /\ TypeOK /\ DeviceTypeOK /\ ChannelTypeOK /\ PhoneTypeOK
    /\ PostTypeOK /\ AnswersTypeOK /\ ExportTypeOK /\ CatalogueTypeOK

\* The moderators know how the phone is (PhoneIsFollowed), the channel's name says
\* how the workers are (ChannelIsRight), and an app that a restart left stopped was
\* reported (StoppedIsKnown).
ScannerIsWatched == PhoneIsFollowed /\ ChannelIsRight /\ StoppedIsKnown

\* Searches answer with today's quests (AnswersAreCurrent), the site shows today's
\* (QuestsArePublished), and what is derived from the masterfile is of one version
\* of it (DerivedIsOfOne).
QuestsAreRight == AnswersAreCurrent /\ QuestsArePublished /\ DerivedIsOfOne

\* The day's scan is completed in the end (EveryDayIsFinished), and what is derived
\* from the masterfile comes to follow it (CatalogueFollows).
DataComesToBe ==
    /\ which = "scan" => EveryDayIsFinished
    /\ which = "catalogue" => CatalogueFollows
===============================================================================
