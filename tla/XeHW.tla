-------------------------------- MODULE XeHW --------------------------------
(***************************************************************************)
(* The registers of kexts/xe_hw_offsets.hpp that the kext accesses, by the *)
(* routine that accesses them, as byte offsets into BAR0.                  *)
(***************************************************************************)
EXTENDS Naturals, Sequences

kMaxSafeMMIOOffset == \hFFFFFF

FORCEWAKE_REQ == \hA188
FORCEWAKE_ACK == \hA18C

(* XeService::start reads these without an accessor.                       *)
StartRegs == {\h0, \h4, \h10, \h100}

(* XeService::logPowerState                                                *)
PowerRegs ==
  {\h45400, \h45404, \h45408, \h4540C,           \* HSW_PWR_WELL_CTL1 .. 4
   \hA094, \hA090, \hA024,                       \* RC_STATE, RC_CONTROL, RP_CONTROL
   FORCEWAKE_ACK, \hA168, \h138108}              \* PMINTRMSK, RC6_RESIDENCY_TIME

(* XeService::logDisplayState                                              *)
DisplayRegs ==
  {\h70008, \h60400, \h64000,                    \* PIPEACONF, DDI_FUNC_CTL_A, DDI_BUF_CTL_A
   \h60000, \h6000C, \h6001C,                    \* HTOTAL_A, VTOTAL_A, PIPEASRC
   \h70180, \h70188, \h7019C,                    \* DSPACNTR, DSPASTRIDE, DSPASURF
   \hC7200, \hC7204, \hC8250, \hC8254}           \* PCH_PP_*, BLC_PWM_PCH_CTL1, 2

(* XeGGTT::probe: the GGTT's own registers and the power wells it logs.    *)
FENCE_START(n) == \h100000 + n * 8
FENCE_END(n) == \h100000 + n * 8 + 4
GGTTRegs == {\h2020, FENCE_START(0), FENCE_END(0)}        \* PGTBL_CTL, fence 0
GGTTProbeRegs == GGTTRegs \cup {\h45400, \h45404}

(* XeCommandStream::logRcs0State: HEAD, TAIL, CTL, then MI_MODE, GFX_MODE. *)
RingRegs == {\h2034, \h2030, \h202C, \h209C, \h2500}

(* What goes through no accessor that knows the length of the mapping.     *)
UncheckedRegs ==
  StartRegs \cup GGTTProbeRegs \cup RingRegs \cup {FORCEWAKE_REQ, FORCEWAKE_ACK}

(* XeService::ucReadRegs                                                   *)
kSafeOffs ==
  <<\h0, \h4, \h10, \h14, \h100, \h104, \hA024, \hA094, \h45400, \h45404>>

ReadRegsRegs(count) ==
  {kSafeOffs[i] : i \in {j \in DOMAIN kSafeOffs : j <= count}}

(* XeService::ucGetGTConfig and ucGetDisplayInfo, in the order of out[].   *)
GTConfigOffs ==
  <<\h45400, \h45404, \hA094, \hA090, \hA024, FORCEWAKE_ACK, \hA168, \h138108>>
DisplayInfoOffs ==
  <<\h70008, \h60400, \h64000, \h70180, \h60000, \h6000C, \h6001C, \hC7200>>

GTConfigRegs == {GTConfigOffs[i] : i \in 1 .. 8}
DisplayInfoRegs == {DisplayInfoOffs[i] : i \in 1 .. 8}

=============================================================================
