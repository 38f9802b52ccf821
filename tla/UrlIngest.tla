------------------------------- MODULE UrlIngest ------------------------------
(***************************************************************************)
(* The ingest of a URL: IngestStage.run with fetch_meta, download,         *)
(* download_caption and _run_youtube_recovery (ytdlp.py), the PO-token     *)
(* provider they share (youtube_compat.ProviderSupervisor), the record of  *)
(* what was downloaded with it (youtube-public-compatibility.json) and the *)
(* acceptance of a subtitle (transcripts/external.py).  The yt-dlp and     *)
(* ffmpeg processes and the site are the environment; a file yt-dlp        *)
(* finished is whole, because it renames it from a .part file.             *)
(***************************************************************************)
EXTENDS Attempt

VARIABLES
  cookies,    \* whether the job uses a browser session
  cues,       \* the caption of the site, or the user's: none, good or bad
  vfr,        \* whether the video has a variable frame rate
  media,      \* media.mp4 is there
  caption,    \* subtitles/platform.* is there
  cfr, wav,   \* media_cfr.mp4 and audio16k.wav: none, torn or whole
  subtitle,   \* input.json: its subtitle's mode and source
  op,         \* the yt-dlp operation and its try
  provider,   \* who answers on the provider's port, and whether YouTube has
              \* refused a transfer made with it
  record,     \* the record: whether a public download is verified, and what
              \* became of the last one
  transcript, \* the data of ingest: the kind of subtitle it accepted
  accepted    \* history: subtitles accepted by the attempts, up to 2

source == <<cookies, cues, vfr>>
files == <<media, caption, cfr, wav>>
ingestVars ==
  <<source, files, subtitle, op, provider, record, transcript, accepted>>

NoProvider == [by |-> "none", refused |-> FALSE]
NoRecord == [verified |-> FALSE, last |-> "none"]
Succeeded == [verified |-> TRUE, last |-> "success"]

\* Before the ingest of a URL begins, and after it: what no other stage reads.
NoSource ==
  /\ cookies = FALSE /\ cues = "none" /\ vfr = FALSE
  /\ media = FALSE /\ caption = FALSE /\ cfr = "none" /\ wav = "none"
  /\ subtitle = [mode |-> "asr", source |-> "none"] /\ accepted = 0
  /\ op = [of |-> "meta", try |-> 1] /\ provider = NoProvider /\ record = NoRecord

NoIngest == NoSource /\ transcript = "none"

ForgetIngest ==
  /\ cookies' = FALSE /\ cues' = "none" /\ vfr' = FALSE
  /\ media' = FALSE /\ caption' = FALSE /\ cfr' = "none" /\ wav' = "none"
  /\ subtitle' = [mode |-> "asr", source |-> "none"] /\ accepted' = 0
  /\ op' = [of |-> "meta", try |-> 1] /\ provider' = NoProvider /\ record' = NoRecord

\* A job without a subtitle, or with the user's; p answers on the port.
UrlJob(p) ==
  /\ cookies' \in BOOLEAN /\ vfr' \in BOOLEAN /\ record' \in {NoRecord, Succeeded}
  /\ \/ subtitle' = [mode |-> "asr", source |-> "none"]
        /\ cues' \in {"none", "good", "bad"}
     \/ subtitle' = [mode |-> "external", source |-> "none"]
        /\ cues' \in {"good", "bad"}
  /\ provider' = [NoProvider EXCEPT !.by = p]
  /\ UNCHANGED <<files, op, transcript, accepted>>

-----------------------------------------------------------------------------
StartIngest ==
  /\ at = "ingest" /\ pc = "start" /\ Goto("serve")
  /\ op' = [of |-> "meta", try |-> 1] /\ transcript' = "none"
  /\ UNCHANGED <<source, files, subtitle, provider, record, accepted>>

(***************************************************************************)
(* ProviderSupervisor.start, before each try: the port is served by the    *)
(* process it started, by a healthy one it finds there, or by a new one.   *)
(* stop ends only the process it started.                                  *)
(***************************************************************************)
Stopped(p) == IF p.by = "ours" THEN NoProvider ELSE p

\* A variant that waits while another process serves the port.
ServeAlone ==
  /\ pc = "serve" /\ provider.by # "orphan" /\ Goto("transfer")
  /\ provider' = IF provider.by = "none"
                   THEN [by |-> "ours", refused |-> FALSE] ELSE provider
  /\ UNCHANGED <<source, files, subtitle, op, record, transcript, accepted>>

Serve ==
  /\ pc = "serve" /\ Goto("transfer")
  /\ provider' = IF provider.by = "none"
                   THEN [by |-> "ours", refused |-> FALSE] ELSE provider
  /\ UNCHANGED <<source, files, subtitle, op, record, transcript, accepted>>

\* fetch_meta and download stop the provider in their finally; a download is
\* recorded, whether or not a browser session was used.
Transferred ==
  /\ pc = "transfer" /\ provider' = Stopped(provider)
  /\ IF op.of = "meta" /\ ~media
       THEN op' = [of |-> "download", try |-> 1] /\ Goto("serve")
       ELSE Goto("caption") /\ UNCHANGED op
  /\ media' = (media \/ op.of = "download")
  /\ record' = IF op.of = "download" THEN Succeeded ELSE record
  /\ UNCHANGED <<source, caption, cfr, wav, subtitle, transcript, accepted>>

\* A variant that retries without stopping the provider.
Kept(p) == p
Restarted(p) == Stopped(p)

\* invalidate_public_compatibility, and what else the end of a guest's attempt
\* to transfer writes.
Doubted == [record EXCEPT !.verified = FALSE]
Failed == IF cookies THEN record ELSE [verified |-> FALSE, last |-> "failed"]

\* A variant in which a failed operation leaves its provider running.
GivesUpServing == pc' = "stopped" /\ record' = Failed /\ UNCHANGED <<op, provider>>
GivesUp ==
  pc' = "stopped" /\ record' = Failed /\ provider' = Stopped(provider) /\ UNCHANGED op

(***************************************************************************)
(* _run_youtube_recovery: a transfer refused for its attestation is tried  *)
(* again with a new provider, then, whatever failed, once with the         *)
(* documented fallback client and the same provider.                       *)
(***************************************************************************)
Refuse(attestation) ==
  LET seen == [provider EXCEPT !.refused = @ \/ attestation]
      Again(p, r) ==
        /\ pc' = "serve" /\ provider' = p /\ record' = r
        /\ op' = [op EXCEPT !.try = @ + 1]
  IN IF op.try = 1 /\ attestation /\ ~cookies THEN Again(Restarted(seen), Doubted)
     ELSE IF op.try = 2 THEN Again(seen, record)
     ELSE GivesUp

TransferFails ==
  /\ pc \in {"serve", "transfer"} /\ faults < MaxFaults
  /\ faults' = faults + 1 /\ UNCHANGED at
  /\ \E attestation \in BOOLEAN :
       /\ pc = "serve" => ~attestation /\ provider.by = "none"
       /\ Refuse(attestation)
  /\ UNCHANGED <<source, files, subtitle, transcript, accepted>>

-----------------------------------------------------------------------------
\* A caption of the site is used when the job has no subtitle of the user's.
Offered == subtitle.mode = "asr" /\ cues # "none"

DownloadCaption ==
  /\ pc = "caption"
  /\ IF Offered /\ ~caption THEN Goto("caption") /\ caption' = TRUE
     ELSE Goto(IF Offered THEN "select" ELSE "probe") /\ UNCHANGED caption
  /\ UNCHANGED <<source, media, cfr, wav, subtitle, op, provider, record,
                 transcript, accepted>>

\* The manifest is persisted with the caption as the job's subtitle.
SelectCaption ==
  /\ pc = "select" /\ Goto("probe")
  /\ subtitle' = [mode |-> "platform", source |-> "platform"]
  /\ UNCHANGED <<source, files, op, provider, record, transcript, accepted>>

(***************************************************************************)
(* accept_external_subtitle: its source becomes external_subtitle, and its *)
(* mode platform only if its source was a platform's.  A subtitle it       *)
(* cannot use ends the attempt.                                            *)
(***************************************************************************)
SubtitleAccepted ==
  [mode |-> IF subtitle.source = "platform" THEN "platform" ELSE "external",
   source |-> "external"]

AcceptSubtitle ==
  /\ pc = "probe"
  /\ IF subtitle.mode = "asr"
       THEN Goto("normalize") /\ UNCHANGED <<subtitle, transcript, accepted>>
     ELSE IF cues = "bad"
       THEN Goto("stopped") /\ UNCHANGED <<subtitle, transcript, accepted>>
     ELSE /\ subtitle' = SubtitleAccepted /\ transcript' = SubtitleAccepted.mode
          /\ accepted' = IF accepted = 2 THEN 2 ELSE accepted + 1
          /\ Goto("normalize")
  /\ UNCHANGED <<source, files, op, provider, record>>

\* A normalized video that was cut off has no index: probing it fails.
Normalize ==
  /\ pc = "normalize"
  /\ IF vfr /\ cfr = "torn" THEN Goto("stopped") ELSE Goto("audio")
  /\ cfr' = IF vfr /\ cfr = "none" THEN "whole" ELSE cfr
  /\ UNCHANGED <<source, media, caption, wav, subtitle, op, provider,
                 record, transcript, accepted>>

ExtractAudio ==
  /\ pc = "audio" /\ Goto("done")
  /\ wav' = IF wav = "none" THEN "whole" ELSE wav
  /\ UNCHANGED <<source, media, caption, cfr, subtitle, op, provider,
                 record, transcript, accepted>>

(***************************************************************************)
(* The attempt is cut off, by a kill, or, but for a yt-dlp operation, by   *)
(* an error of its own, which for a caption is recorded like one of a      *)
(* transfer.  ffmpeg writes in place: what it was writing may be left      *)
(* torn.  A killed provider's owner leaves it running, since it has a      *)
(* session of its own.                                                     *)
(***************************************************************************)
Torn(f, here) == IF here /\ f = "none" THEN {"none", "torn"} ELSE {f}
KillIngest ==
  /\ Working("ingest") /\ Trouble("stopped")
  /\ cfr' \in Torn(cfr, pc = "normalize" /\ vfr)
  /\ wav' \in Torn(wav, pc = "audio")
  /\ provider' = IF provider.by = "ours"
                   THEN [provider EXCEPT !.by = "orphan"] ELSE provider
  /\ record' \in IF pc = "caption" /\ Offered /\ ~caption THEN {record, Failed}
                 ELSE {record}
  /\ UNCHANGED <<source, media, caption, subtitle, op, transcript, accepted>>

ResumeIngest == Resumes("ingest") /\ UNCHANGED ingestVars

IngestNext ==
  \/ StartIngest \/ Serve \/ Transferred \/ TransferFails \/ DownloadCaption
  \/ SelectCaption \/ AcceptSubtitle \/ Normalize \/ ExtractAudio \/ KillIngest
  \/ ResumeIngest

-----------------------------------------------------------------------------
(***************************************************************************)
(* When no yt-dlp operation runs, the provider's port is served only by a  *)
(* process whose owner was killed: every other end of an operation stops   *)
(* what it started.                                                        *)
(***************************************************************************)
OnlyOrphansServe ==
  pc \notin {"serve", "transfer"} => provider.by # "ours"

(***************************************************************************)
(* The retry of a refused transfer meets a new provider, unless the one    *)
(* refused was left by a killed attempt and only found on the port.        *)
(***************************************************************************)
RetryMeetsNewProvider ==
  pc = "transfer" /\ op.try = 2 /\ provider.refused => provider.by = "orphan"

(***************************************************************************)
(* A caption of the site is reported as the user's own subtitle only when  *)
(* an earlier attempt had accepted it and was cut off before its checkpoint*)
(***************************************************************************)
ProvenanceKept ==
  transcript = "external" /\ caption => accepted > 1

(***************************************************************************)
(* What is shown as a verified public download was the last one whose end  *)
(* was recorded: a failed attempt after it takes the claim back.           *)
(***************************************************************************)
VerifiedWasLast == record.verified => record.last = "success"

\* What no resume of the ingest gets over.
IngestTrapped ==
  \/ cfr = "torn" /\ vfr
  \/ subtitle.mode # "asr" /\ cues = "bad"
=============================================================================
