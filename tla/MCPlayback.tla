----------------------------- MODULE MCPlayback -----------------------------
(* One file that can be copied into HLS; a device that plays it, one that   *)
(* lacks its codec, one that asks for HLS, and one with a slow connection.  *)
EXTENDS Playback

MCSource == [Container |-> "mp4", VideoCodec |-> "h264", AudioCodec |-> "aac",
             Bitrate |-> 2, Height |-> 2, RemuxOK |-> TRUE]

Mp4 == [Container |-> {"mp4"}, VideoCodec |-> {"h264"}, AudioCodec |-> {"aac", "mp3"}]
Webm == [Container |-> {"webm", "mp4"}, VideoCodec |-> {"vp9"}, AudioCodec |-> {}]

Device(direct, limit, hls) ==
  [DirectPlay |-> direct, MaxStaticBitrate |-> limit, PreferHLS |-> hls]

MCProfiles == {Device({Mp4, Webm}, 0, FALSE), Device({Webm}, 0, FALSE),
               Device({Mp4}, 2, TRUE), Device({Mp4}, 1, FALSE)}
=============================================================================
