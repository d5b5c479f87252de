----------------------------- MODULE CtTransport -----------------------------
(***************************************************************************)
(* One CT pass-through as the fc_tools see it: send_ct_pt                  *)
(* (fc_tools/include/zfcp_util.h) allocates the request and response       *)
(* buffers and calls HBA_SendCTPassThru (vlib.c), which revalidates the    *)
(* repository, looks the handle up and hands the frame to                  *)
(* sg_io_performCTPassThru / sg_io_performSGIO (vlib_sg_io.c): open the     *)
(* bsg node, ioctl(SG_IO), close.                                          *)
(*                                                                         *)
(* The module has no variables: it gives the outcomes one call can have,   *)
(* what each does to the process's open descriptors, and the wire codes    *)
(* of a CT response.  The request and response payloads are abstracted     *)
(* away; only the CT_IU code and the reject reason bytes are kept.         *)
(***************************************************************************)
EXTENDS Naturals

(* CT_IU codes, zfcp_util.h:46-47.  OTHER_CODE stands for every other     *)
(* value, including the zero left in the memset response buffer when the  *)
(* LLD returns no CT IU.                                                   *)
GS_REJECT_RESPONSE_CT_IU == 32769   \* 0x8001
GS_ACCEPT_RESPONSE_CT_IU == 32770   \* 0x8002
OTHER_CODE == 0
ResponseCodes == {GS_ACCEPT_RESPONSE_CT_IU, GS_REJECT_RESPONSE_CT_IU, OTHER_CODE}

(* Reject reason bytes of the preamble, zfcp_util.h:66,81.                *)
RC_LOGICAL_ERROR == 3
RCE_PROCESSING_REQUEST == 244       \* 0xf4

(* Where one pass-through stops.  sg_io_performSGIO / _performCTPassThru: *)
(*   "open_fail"  open(/dev/bsg/fc_hostN) fails: HBA_STATUS_ERROR          *)
(*   "ioctl_fail" ioctl(SG_IO) fails: returns without close(fd)            *)
(*   "close_fail" close(fd) reports an error (the fd is gone anyway)       *)
(*   "ok"         HBA_STATUS_OK                                            *)
SgIoSteps == {"open_fail", "ioctl_fail", "close_fail", "ok"}

(* HBA_SendCTPassThru adds "hba_status": it returns early when the         *)
(* library is not loaded (revalidateRepository) or the handle is stale     *)
(* (getAdapterByHandle).                                                   *)
HbaSendCTPassThruSteps == {"hba_status"} \cup SgIoSteps

(* send_ct_pt adds the two allocations: "req_nomem" (return NULL) and      *)
(* "resp_nomem" (goto out_mem: free(req), return NULL).  Every step but    *)
(* "ok" leaves rc != 0 and the response freed: NULL.                       *)
SendCtPtSteps == {"req_nomem", "resp_nomem"} \cup HbaSendCTPassThruSteps

(* Steps that need open() to succeed; with no descriptor left open()       *)
(* fails with EMFILE and only the other steps remain.                       *)
OpenedSteps == {"ioctl_fail", "close_fail", "ok"}

SendCtPtOutcomes(fds, maxFds) ==
    IF fds < maxFds THEN SendCtPtSteps ELSE SendCtPtSteps \ OpenedSteps

(* sg_io_performSGIO returns on an ioctl error before close(fd).            *)
FdsAfter(fds, step) == IF step = "ioctl_fail" THEN fds + 1 ELSE fds

(* send_ct_pt returns a response buffer only when rc == 0.                 *)
Responded(step) == step = "ok"
=============================================================================
