---------------------------- MODULE MCRtcDriver ----------------------------
(* Call sequences for RtcDriver.                                            *)
EXTENDS RtcDriver

\* kernel_main: the two RTC tests, then the system clock
KernelMain == rtc_basic_init \o rtc_interrupt_registration \o system_clock

\* a driver is closed with the periodic interrupt on: the handler has to
\* acknowledge through ports of its own while the next driver is opened
Reopen == <<"init", "enable", "close", "init", "disable", "close">>

MCScripts == {KernelMain, Reopen}

\* the hypothesis of the theorems RaisedHandled and TimeSafe
ASSUME PublishedLast
=============================================================================
