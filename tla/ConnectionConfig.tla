-------------------------- MODULE ConnectionConfig --------------------------
(***************************************************************************)
(* From the configuration to the running service: load and                 *)
(* dhcp6_srv_configured (callout.cpp), configureAndInitClient, the         *)
(* factories, NXOSConnectionConfigParams::parseConfig and startService.    *)
(* A parameter is "missing", has the wrong type ("wrong") or is there; a   *)
(* number keeps the width it has in the code.                              *)
(***************************************************************************)
EXTENDS Integers

CONSTANTS
    Configs,  \* the configurations an operator may write
    Word,     \* number of values of size_t: 2^64
    Millis    \* milliseconds in a second: 1000

ASSUME ConfigAssumption ==
    /\ Word \in Nat \ {0} /\ Millis \in Nat \ {0}
    /\ \A c \in Configs : c.seconds \in Int

VARIABLES
    config,   \* the configuration of the library that is loaded
    phase,    \* "unloaded", "loaded", "running" or "crashed"
    period    \* of the heartbeat timer, in milliseconds

configVars == <<config, phase, period>>

(* size_t and long have the same number of values.                         *)
AsUnsigned(n) == n % Word
AsSigned(n)   == IF n < Word \div 2 THEN n ELSE n - Word

ConfigInit ==
    /\ config \in Configs
    /\ phase = "unloaded"
    /\ period = 0

----------------------------------------------------------------------------
(* load.                                                                   *)

(* The library is for DHCPv6 servers.                                      *)
FamilyRefused(c) == c.family # "AF_INET6"

(* configureAndInitClient.                                                 *)
ParametersRefused(c) == c.connection_type = "missing" \/ c.connection_params # "map"

(* The factories know one name; a value that is no string is none.         *)
TypeUnknown(c) == c.connection_type # "nxos"

RefusedEarly(c) == FamilyRefused(c) \/ ParametersRefused(c) \/ TypeUnknown(c)

HostRefused(c) == c.host \notin {"http", "https"}

(* Mutation of HeartbeatRefused: only the type is looked at.               *)
HeartbeatTypeRefused(c) == c.heartbeat_interval = "wrong"

(* The unsigned copy is zero only if the value is: no negative value is    *)
(* refused.                                                                *)
HeartbeatRefused(c) ==
    \/ c.heartbeat_interval = "wrong"
    \/ AsUnsigned(c.seconds) = 0

CredentialsRefused(c) ==
    c.credentials # "map" \/ c.login # "string" \/ c.password # "string"

(* The type of keyfile is not looked at: line 107 takes the value of       *)
(* certificate.                                                            *)
TlsRefused(c) ==
    c.host = "https" /\ (c.certificate # "string" \/ c.keyfile = "missing")

(* parseConfig reads heartbeat-interval, there or not, once the host is    *)
(* accepted.                                                               *)
ReadsNull(c) ==
    /\ ~RefusedEarly(c) /\ ~HostRefused(c)
    /\ c.heartbeat_interval = "missing"

parseConfigRefuses(c) ==
    \/ HostRefused(c) \/ HeartbeatRefused(c)
    \/ CredentialsRefused(c) \/ TlsRefused(c)

(* load returns 1 and Kea does not use the library.                        *)
LoadRefused(c) ==
    /\ phase = "unloaded"
    /\ RefusedEarly(c) \/ (parseConfigRefuses(c) /\ ~ReadsNull(c))
    /\ config' = c
    /\ UNCHANGED <<phase, period>>

LoadCrashes(c) ==
    /\ phase = "unloaded"
    /\ ReadsNull(c)
    /\ config' = c /\ phase' = "crashed"
    /\ UNCHANGED period

(* parseConfig runs twice, for the client and for the heartbeat.           *)
load(c) ==
    /\ phase = "unloaded"
    /\ ~RefusedEarly(c) /\ ~ReadsNull(c) /\ ~parseConfigRefuses(c)
    /\ config' = c /\ phase' = "loaded"
    /\ UNCHANGED period

----------------------------------------------------------------------------
(* dhcp6_srv_configured.                                                   *)

(* Mutation of TimerPeriod: the conversion to milliseconds is forgotten.   *)
TimerPeriodSeconds(c) == AsSigned(AsUnsigned(c.seconds))

(* m_params.heartbeatIntervalSecs * 1000, passed to setup as a long.       *)
TimerPeriod(c) == AsSigned((AsUnsigned(c.seconds) * Millis) % Word)

(* https is not implemented, and IntervalTimer::setup throws on a period   *)
(* that is not positive.                                                   *)
StartThrows(c) == c.host = "https" \/ TimerPeriod(c) <= 0

(* The callout catches the exception and calls abort.                      *)
StartAborts ==
    /\ phase = "loaded" /\ StartThrows(config)
    /\ phase' = "crashed"
    /\ UNCHANGED <<config, period>>

startService ==
    /\ phase = "loaded" /\ ~StartThrows(config)
    /\ phase' = "running"
    /\ period' = TimerPeriod(config)
    /\ UNCHANGED config

unload ==
    /\ phase \in {"loaded", "running"}
    /\ phase' = "unloaded"
    /\ period' = 0
    /\ UNCHANGED config

ConfigNext ==
    \/ \E c \in Configs : LoadRefused(c) \/ LoadCrashes(c) \/ load(c)
    \/ StartAborts \/ startService \/ unload

ConfigSpec == ConfigInit /\ [][ConfigNext]_configVars

----------------------------------------------------------------------------
(* Properties.                                                             *)

(* The interval in milliseconds fits into a long.                          *)
Representable(n) ==
    -(Word \div 2) <= n * Millis /\ n * Millis < Word \div 2

(* A library that runs does so with credentials, over plain HTTP and with  *)
(* the interval that was configured: parseConfig lets negative intervals   *)
(* pass, but no such timer is ever started.  (A value too large for the    *)
(* milliseconds may start one with another period.)                        *)
RunsAsConfigured ==
    phase = "running" =>
        /\ config.host = "http"
        /\ config.login = "string" /\ config.password = "string"
        /\ Representable(config.seconds) =>
              config.seconds > 0 /\ period = config.seconds * Millis

(* The server is only taken down by a configuration without                *)
(* heartbeat-interval, with https, or with an interval that is negative or *)
(* too large; any other is refused by load or starts.  The first and the   *)
(* third of these are not meant: line 37 has a default of 5 that is never  *)
(* used, and line 49 refuses negative intervals (IntervalIsPositive).      *)
CrashHasReason ==
    phase = "crashed" =>
        \/ config.heartbeat_interval = "missing"
        \/ config.host = "https"
        \/ config.seconds < 0 \/ ~Representable(config.seconds)

(* What the message at line 49 of nxos_connection_params.cpp says,         *)
(* "must be a non-zero non-negative integer": load accepts no other        *)
(* interval.  The variable it tests is unsigned, and a negative value      *)
(* passes.                                                                 *)
IntervalIsPositive == phase \in {"loaded", "running"} => config.seconds > 0

=============================================================================
